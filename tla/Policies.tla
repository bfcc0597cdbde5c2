------------------------------ MODULE Policies ------------------------------
(***************************************************************************)
(* Policy documents: internal/auth/policy.go and the part of engine.go     *)
(* that evaluates one document.                                            *)
(*                                                                         *)
(* A name (an action, a resource, an ARN) is the sequence of its pieces,   *)
(* cut wherever a pattern may end.  A pattern is the pieces before its     *)
(* star; "*" alone is the star with nothing before it.                     *)
(***************************************************************************)
LOCAL INSTANCE SequencesExt

Exactly(text) == [text |-> text, star |-> FALSE]
StartsWith(text) == [text |-> text, star |-> TRUE]
Anything == StartsWith(<<>>)

matchWildcard(pattern, value) ==
    IF pattern.star THEN IsPrefix(pattern.text, value) ELSE pattern.text = value

\* One string is a list of one pattern.
matchListOrString(patterns, value) == \E pattern \in patterns : matchWildcard(pattern, value)

-----------------------------------------------------------------------------
(***************************************************************************)
(* Who a statement is about.  A principal is left out, a string or, under  *)
(* "AWS", a list of patterns.  A string counts by what follows its last    *)
(* slash only.                                                             *)
(***************************************************************************)
NoPrincipal == [form |-> "none"]
Text(name) == [form |-> "text", name |-> name]
AWS(patterns) == [form |-> "aws", patterns |-> patterns]

UserArn(name) == <<"arn:aws:iam:::user/", name>>
AccountArn(key) == <<"arn:aws:iam:::serviceaccount/", key>>
NoKey == ""

matchPrincipal(principal, user) ==
    \/ /\ principal.form = "text"
       /\ \/ principal.name \in {"*", user.name}
          \/ user.key # NoKey /\ principal.name = user.key
    \/ /\ principal.form = "aws"
       /\ \/ matchListOrString(principal.patterns, UserArn(user.name))
          \/ user.key # NoKey /\ matchListOrString(principal.patterns, AccountArn(user.key))
          \/ matchListOrString(principal.patterns, <<"*">>)

-----------------------------------------------------------------------------
\* A request asks for an action on a resource.
Applies(stmt, user, asked) ==
    /\ matchPrincipal(stmt.principal, user)
    /\ matchListOrString(stmt.action, asked.action)
    /\ matchListOrString(stmt.resource, asked.resource)

\* What one document says: some statement allows, some statement denies.
evaluatePolicyStatements(doc, user, asked) ==
    LET says(effect) == \E stmt \in doc : stmt.effect = effect /\ Applies(stmt, user, asked)
    IN [allowed |-> says("Allow"), denied |-> says("Deny")]
=============================================================================
