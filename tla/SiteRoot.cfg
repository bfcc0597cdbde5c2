\* The root of a custom domain; only visits happen.
SPECIFICATION Spec
CONSTANTS
    Visitors = {v1}
    Writers = {}
    Buckets = {"b"}
    Hosts = {"h"}
    Keys <- RootKey
    Requests <- AskRoot
    Websites <- Site
    CorsRules <- NoRules
    Webhooks <- NoHooks
    None = None
    MaxWrites = 1
    MaxEvents = 1
INVARIANT RootServesIndex
