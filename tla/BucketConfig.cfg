\* One visitor and one writer, one bucket and one custom domain.
SPECIFICATION Spec
CONSTANTS
    Visitors = {v1}
    Writers = {w1}
    Buckets = {"b"}
    Hosts = {"h"}
    Keys <- PageKeys
    Requests <- Ask
    Websites <- Site
    CorsRules <- OneRule
    Webhooks <- Hooks
    None = None
    MaxWrites = 2
    MaxEvents = 2
INVARIANT AnswersJustified
PROPERTY HooksCalled
