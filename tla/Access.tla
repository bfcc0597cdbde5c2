------------------------------- MODULE Access -------------------------------
(***************************************************************************)
(* Who is asking, and may they: users, service accounts, sessions and      *)
(* policies, kept in the tables of internal/storage/metadata/bbolt.go and  *)
(* read by the middlewares and handlers of internal/auth, internal/handler *)
(* and internal/middleware.                                                *)
(*                                                                         *)
(* Every read and write of a table is a transaction of its own.  A request *)
(* reads several of them in turn to find out who is asking and what that   *)
(* user may do, then acts, while the tables change under it.  Each step    *)
(* below is one transaction.                                               *)
(***************************************************************************)
EXTENDS Policies, Naturals, Sequences, FiniteSets

CONSTANTS Procs,       \* request slots of the server
          Names, Root, \* user names
          Keys, RootKey, \* access keys; RootKey is the one of the configuration
          RecordKeys,  \* RecordKeys[n]: access keys that the record of user n may hold
          SessionIds,
          PolicyNames, \* names of IAM policies
          Targets,     \* users that administrators' requests are about
          Docs,        \* policy documents that clients send
          Bodies,      \* user records that clients send
          PolicyLists, \* lists of policy names that clients send
          Databases,   \* tables the server may find when it starts
          Asked,       \* Asked[do]: the action and resource of an S3 operation
          Absent,      \* "no record"
          MaxWrites    \* bound on the requests that change a table, logins apart, on expiries and restarts

ASSUME RootAssumption == Root \in Names /\ RootKey \in Keys
ASSUME AbsentAssumption == Absent \notin Names /\ Absent \notin Bodies /\ Absent \notin Docs
ASSUME BoundAssumption == MaxWrites \in Nat

VARIABLES users,     \* users[n]: the record of user n, or Absent
          accounts,  \* accounts[k]: the service account of access key k, or Absent
          sessions,  \* ids in the table of sessions
          iam,       \* iam[p]: the IAM policy p, or Absent
          owner,     \* the owner of the bucket, "" when it has none, Absent without bucket
          policy,    \* the bucket's policy, or Absent
          held,      \* held[c]: the user a key or token in a client's hands was made for
          dead,      \* sessions whose token no longer validates
          at,        \* at[p]: what the request in p does next
          call,      \* call[p]: what it was sent as
          who,       \* who[p]: whom it was found to come from
          eval,      \* eval[p]: policies yet to read, and what those read said
          writes,
          since      \* History: what held at some instant, and at every one, since p began

tables == <<users, accounts, sessions, iam, owner, policy>>
outside == <<held, dead>>
progress == <<at, call, who, eval>>
vars == <<tables, outside, progress, writes, since>>

NoAsker == ""
Nobody == [name |-> NoAsker, key |-> NoKey, isRoot |-> FALSE, policies |-> <<>>]
Anonymous == [Nobody EXCEPT !.name = "anonymous"]
NothingRead == [todo |-> <<>>, allowed |-> FALSE, denied |-> FALSE]
NoCall == [route |-> "none", by |-> "none", id |-> "", asker |-> NoAsker, op |-> [do |-> "none"]]

\* secrets: the password's hash is in the record.
Users == [isRoot : BOOLEAN, disabled : BOOLEAN, policies : Seq(PolicyNames), secrets : BOOLEAN,
          key : Keys \cup {NoKey}]
Accounts == [parent : Names, disabled : BOOLEAN, expiry : {"never", "coming", "past"}]

\* A user may be given any name; one called "anonymous" is left out here.
ASSUME NamesAssumption ==
    /\ Names \cap {NoAsker, Anonymous.name} = {}
    /\ NoKey \notin Keys
    /\ PolicyNames \cap {"bucket", "open"} = {}
ASSUME InputsAssumption ==
    Targets \subseteq Names /\ Bodies \subseteq Users /\ PolicyLists \subseteq Seq(PolicyNames)
\* Any record may be without key, and any two may have the same one.
ASSUME RecordKeysAssumption ==
    /\ RecordKeys \in [Names -> SUBSET (Keys \cup {NoKey})]
    /\ RootKey \in RecordKeys[Root]
    /\ \A n \in Targets : \A body \in Bodies : body.key \in RecordKeys[n]
    /\ \A db \in Databases : \A n \in Names :
        db.users[n] # Absent => db.users[n].key \in RecordKeys[n]
\* The account of the configured key, if there is one, is root's.
ASSUME DatabasesAssumption ==
    \A db \in Databases :
        /\ db.users \in [Names -> Users \cup {Absent}]
        /\ db.accounts \in [Keys -> Accounts \cup {Absent}]
        /\ db.iam \in [PolicyNames -> Docs \cup {Absent}]
        /\ db.owner \in Names \cup {"", Absent}
        /\ db.policy \in Docs \cup {Absent}
        /\ db.accounts[RootKey] # Absent => db.accounts[RootKey].parent = Root

\* main.go: the root user and the root account are created when they are missing.
RootRecord ==
    [isRoot |-> TRUE, disabled |-> FALSE, policies |-> <<>>, secrets |-> TRUE, key |-> RootKey]
RootAccount == [parent |-> Root, disabled |-> FALSE, expiry |-> "never"]

Filled(table, i, rec) == IF table[i] = Absent THEN [table EXCEPT ![i] = rec] ELSE table

Init ==
    \E db \in Databases :
        /\ users = Filled(db.users, Root, RootRecord)
        /\ accounts = Filled(db.accounts, RootKey, RootAccount)
        /\ sessions = {}
        /\ iam = db.iam
        /\ owner = db.owner
        /\ policy = db.policy
        /\ held = [c \in Keys \cup SessionIds |->
                     IF c = RootKey THEN Root
                     ELSE IF c \in Keys /\ db.accounts[c] # Absent THEN db.accounts[c].parent
                     ELSE NoAsker]
        /\ dead = {}
        /\ at = [p \in Procs |-> "idle"]
        /\ call = [p \in Procs |-> NoCall]
        /\ who = [p \in Procs |-> Nobody]
        /\ eval = [p \in Procs |-> NothingRead]
        /\ writes = 0
        /\ since = [p \in Procs |-> [ever |-> {}, always |-> {}]]

IsExpired(account) == account.expiry = "past"

\* There is no account of the empty key.
Listed(k) == k \in Keys /\ accounts[k] # Absent

Usable(k) == Listed(k) /\ ~accounts[k].disabled /\ ~IsExpired(accounts[k])

\* A key without service account may be written in a user's record; the empty
\* one is that of every record without a key.
InRecord(n, k) == users[n] # Absent /\ users[n].key = k

Enabled(n) == users[n] # Absent /\ ~users[n].disabled

-----------------------------------------------------------------------------
(***************************************************************************)
(* History: for every request, the facts it could have read from the       *)
(* tables at some instant since it began, and those it would have read at  *)
(* every instant.                                                          *)
(***************************************************************************)
Holds(condition, fact) == IF condition THEN {fact} ELSE {}

CredentialFacts(c) ==
    CASE c.by \in {"key", "pair"} ->
            Holds(Usable(c.id) /\ accounts[c.id].parent = c.asker, <<"usable">>)
            \cup Holds(~Listed(c.id), <<"unlisted">>)
            \cup Holds(InRecord(c.asker, c.id), <<"in record">>)
      [] c.by = "token" -> Holds(c.id \in sessions, <<"session">>)
      [] c.by \in {"password", "nothing", "none"} -> {}

UserFacts(n) ==
    IF n \notin Names \/ users[n] = Absent THEN {}
    ELSE {<<"user">>} \cup Holds(Enabled(n), <<"enabled">>) \cup Holds(users[n].isRoot, <<"root">>)

DocFacts(doc, name, user, c) ==
    LET said == evaluatePolicyStatements(doc, user, Asked[c.op.do])
    IN IF doc = Absent THEN {}
       ELSE Holds(said.allowed, <<"allow", name>>) \cup Holds(said.denied, <<"deny", name>>)

\* "open" is what the bucket's policy says of anonymous requests.
PolicyFacts(c) ==
    LET user == [name |-> c.asker, key |-> c.id]
        attached == IF c.asker \notin Names \/ users[c.asker] = Absent THEN {}
                    ELSE {users[c.asker].policies[i] : i \in DOMAIN users[c.asker].policies}
    IN (UNION {DocFacts(iam[q], q, user, c) : q \in PolicyNames})
       \cup {<<"attached", q>> : q \in attached}
       \cup DocFacts(policy, "bucket", user, c) \cup DocFacts(policy, "open", Anonymous, c)
       \cup Holds(owner = c.asker, <<"owner">>)

Facts(p) ==
    CredentialFacts(call[p]) \cup UserFacts(call[p].asker)
    \cup (IF call[p].route = "s3" /\ call[p].op.do # "CreateBucket" THEN PolicyFacts(call[p]) ELSE {})

Watch ==
    since' = [p \in Procs |->
                IF at'[p] = "idle" THEN [ever |-> {}, always |-> {}]
                ELSE IF at[p] = "idle" THEN [ever |-> Facts(p)', always |-> Facts(p)']
                ELSE [ever |-> since[p].ever \cup Facts(p)', always |-> since[p].always \cap Facts(p)']]

\* The variables v stay; every step ends here.
Keep(v) == UNCHANGED v /\ Watch

-----------------------------------------------------------------------------
(***************************************************************************)
(* Requests.  A key of an account or a token is used only by whoever was   *)
(* given it; the signature over the request, its age and the password are  *)
(* the client's to get right.  A request with a key that may be in a       *)
(* record, the empty one included, is sent in the hope to pass as some     *)
(* user, its asker, with that record's secret: empty where nobody set one. *)
(***************************************************************************)
InUse == {call[p].op.id : p \in {q \in Procs : at[q] # "idle" /\ "id" \in DOMAIN call[q].op}}
Fresh(ids) == {i \in ids : held[i] = NoAsker} \ (InUse \cup sessions)

S3Ops == [do : {"GetObject", "CreateBucket", "DeleteBucket", "DeleteBucketPolicy"}]
         \cup [do : {"PutBucketPolicy"}, doc : Docs]

AdminOps == [do : {"CreateUser", "UpdateUser"}, name : Targets, body : Bodies]
            \cup [do : {"PutUserPolicies"}, name : Targets, list : PolicyLists]
            \cup [do : {"DeleteUser"}, name : Targets]
            \cup [do : {"PutIAMPolicy"}, policy : PolicyNames, doc : Docs]
            \cup [do : {"DeleteIAMPolicy"}, policy : PolicyNames]
            \cup [do : {"CreateBucket"}]

ApiOps == [do : {"CreateServiceAccount"}, target : Targets, id : Fresh(Keys), expires : BOOLEAN]
          \cup [do : {"DeleteServiceAccount"}, key : Keys]
          \cup [do : {"ToggleServiceAccountStatus"}, key : Keys, disabled : BOOLEAN]
          \cup [do : {"Logout"}]

LoginOps == [do : {"Login"}, id : Fresh(SessionIds)]

Idle(p) ==
    /\ at' = [at EXCEPT ![p] = "idle"]
    /\ call' = [call EXCEPT ![p] = NoCall]
    /\ who' = [who EXCEPT ![p] = Nobody]
    /\ eval' = [eval EXCEPT ![p] = NothingRead]

Goto(p, step) ==
    /\ at' = [at EXCEPT ![p] = step]
    /\ UNCHANGED <<call, who, eval>>

\* Requests that MaxWrites does not count: reads, and logins, which SessionIds bounds.
Free == {"GetObject", "Login", "Logout"}

Arrive(p, c, w, step) ==
    /\ at[p] = "idle"
    /\ c.op.do \in Free \/ writes < MaxWrites
    /\ writes' = IF c.op.do \in Free THEN writes ELSE writes + 1
    /\ at' = [at EXCEPT ![p] = step]
    /\ call' = [call EXCEPT ![p] = c]
    /\ who' = [who EXCEPT ![p] = w]
    /\ Keep(<<eval, tables, outside>>)

Call(route, by, id, asker, op) ==
    [route |-> route, by |-> by, id |-> id, asker |-> asker, op |-> op]

\* middleware.Auth: without a signature the request is anonymous.
BeginUnsigned(p) ==
    \E op \in {o \in S3Ops : o.do # "CreateBucket"} :
        Arrive(p, Call("s3", "nothing", "", Anonymous.name, op), Anonymous, "owner")

BeginSigned(p) ==
    \E n \in Names : \E k \in RecordKeys[n] \cup {c \in Keys : held[c] = n} :
        \/ \E op \in S3Ops : Arrive(p, Call("s3", "key", k, n, op), Nobody, "account")
        \/ \E op \in AdminOps : Arrive(p, Call("admin", "key", k, n, op), Nobody, "account")

\* ValidateToken comes first and reads no table.  Logout asks for no more.
BeginWithToken(p) ==
    \E s \in {c \in SessionIds : held[c] # NoAsker} \ dead :
        \/ \E op \in AdminOps : Arrive(p, Call("admin", "token", s, held[s], op), Nobody, "session")
        \/ \E op \in ApiOps :
              Arrive(p, Call("api", "token", s, held[s], op), Nobody,
                     IF op.do = "Logout" THEN "act" ELSE "session")

\* The login form takes a user's name and password or a key and its secret.
BeginLogin(p) ==
    \E op \in LoginOps :
        \/ \E n \in Names : Arrive(p, Call("login", "password", n, n, op), Nobody, "name")
        \/ \E k \in {c \in Keys : held[c] # NoAsker} :
              Arrive(p, Call("login", "pair", k, held[k], op), Nobody, "account")

-----------------------------------------------------------------------------
(***************************************************************************)
(* Who is asking.                                                          *)
(***************************************************************************)
\* The user as the request carries it; a service account lends it its key.
AsUser(n, key) ==
    [name |-> n, key |-> key, isRoot |-> users[n].isRoot, policies |-> users[n].policies]

\* Slip: anonymous requests are taken for authenticated ones.
EntranceForAll(c, w) ==
    CASE c.route = "admin" -> IF w.isRoot THEN "act" ELSE "idle"
      [] c.route = "api" /\ c.op.do = "CreateServiceAccount" -> "target"
      [] c.route = "api" /\ c.op.do = "DeleteServiceAccount" -> IF w.isRoot THEN "act" ELSE "list"
      [] c.route = "api" /\ c.op.do = "ToggleServiceAccountStatus" -> IF w.isRoot THEN "act" ELSE "idle"
      [] c.route = "s3" -> IF w.isRoot \/ c.op.do = "CreateBucket" THEN "act" ELSE "owner"
      [] c.route = "login" -> IF w.isRoot THEN "open" ELSE "idle"


\* Where a route leads once its middlewares have found w; "idle" is a refusal.
Entrance(c, w) ==
    CASE c.route = "admin" -> IF w.isRoot THEN "act" ELSE "idle"
      [] c.route = "api" /\ c.op.do = "CreateServiceAccount" -> "target"
      [] c.route = "api" /\ c.op.do = "DeleteServiceAccount" -> IF w.isRoot THEN "act" ELSE "list"
      [] c.route = "api" /\ c.op.do = "ToggleServiceAccountStatus" -> IF w.isRoot THEN "act" ELSE "idle"
      [] c.route = "s3" /\ (w.isRoot \/ c.op.do = "CreateBucket") ->
            IF w = Anonymous THEN "idle" ELSE "act"
      [] c.route = "s3" /\ ~w.isRoot /\ c.op.do # "CreateBucket" -> "owner"
      [] c.route = "login" -> IF w.isRoot THEN "open" ELSE "idle"

Admit(p, w) ==
    LET step == Entrance(call[p], w)
    IN IF step = "idle" THEN Idle(p)
       ELSE /\ at' = [at EXCEPT ![p] = step]
            /\ who' = [who EXCEPT ![p] = w]
            /\ eval' = [eval EXCEPT ![p] = [NothingRead EXCEPT !.todo = w.policies]]
            /\ call' = call

\* lookupByAccessKey and the second half of Login: the service account.
GetServiceAccountByAccessKey(p) ==
    /\ at[p] = "account"
    /\ LET k == call[p].id
       IN CASE Usable(k) -> Goto(p, "parent")
            [] ~Usable(k) /\ call[p].by = "pair" -> Idle(p)
            [] Listed(k) /\ ~Usable(k) /\ call[p].by = "key" -> Admit(p, Anonymous)
            [] ~Listed(k) /\ call[p].by = "key" -> Goto(p, "legacy")
    /\ Keep(<<tables, outside, writes>>)

\* A signature that does not match, or is too old, is refused, in the headers as
\* in the query.
Verified(p, w) == Idle(p) \/ Admit(p, w)

\* The account's user: the key was made for it, once and for all.  A request that
\* hopes to pass as another does not have the account's secret.  Logging in with
\* a pair, Login skips its check of Disabled.
GetParentUser(p) ==
    /\ at[p] = "parent"
    /\ LET n == held[call[p].id]
       IN CASE users[n] = Absent -> Idle(p)
            [] users[n] # Absent /\ call[p].by = "pair" -> Admit(p, AsUser(n, NoKey))
            [] users[n] # Absent /\ call[p].by = "key" ->
                  IF users[n].disabled THEN Admit(p, Anonymous)
                  ELSE Idle(p) \/ (n = call[p].asker /\ Verified(p, AsUser(n, call[p].id)))
    /\ Keep(<<tables, outside, writes>>)

\* The first record with the key, in the order of the names, which is left open:
\* the asker's, or the request is refused.  Disabled is not looked at.
GetUserByAccessKey(p) ==
    /\ at[p] = "legacy"
    /\ LET n == call[p].asker
       IN Idle(p) \/ (InRecord(n, call[p].id) /\ Verified(p, AsUser(n, call[p].id)))
    /\ Keep(<<tables, outside, writes>>)

\* Slip: a token that validates is enough.
GetSessionTrusted(p) ==
    /\ at[p] = "session"
    /\ Goto(p, "tokenUser")
    /\ Keep(<<tables, outside, writes>>)


\* JWTAuthMiddleware and JWTAuthFallbackMiddleware; the latter goes on as
\* whoever signed, which without a signature is nobody an administrator.
GetSession(p) ==
    /\ at[p] = "session"
    /\ IF call[p].id \in sessions THEN Goto(p, "tokenUser") ELSE Idle(p)
    /\ Keep(<<tables, outside, writes>>)

GetTokenUser(p) ==
    /\ at[p] = "tokenUser"
    /\ LET n == call[p].asker
       IN IF Enabled(n) THEN Admit(p, AsUser(n, users[n].key)) ELSE Idle(p)
    /\ Keep(<<tables, outside, writes>>)

\* Login by name needs the password's hash.
GetUserByUsername(p) ==
    /\ at[p] = "name"
    /\ LET n == call[p].asker
       IN IF Enabled(n) /\ users[n].secrets THEN Admit(p, AsUser(n, users[n].key)) ELSE Idle(p)
    /\ Keep(<<tables, outside, writes>>)

-----------------------------------------------------------------------------
(***************************************************************************)
(* May they: CheckPolicy and the policy engine.                            *)
(***************************************************************************)
Decide(p, allowed) ==
    /\ at' = [at EXCEPT ![p] = IF allowed THEN "act" ELSE "denied"]
    /\ eval' = [eval EXCEPT ![p] = NothingRead]
    /\ UNCHANGED <<call, who>>

CheckPolicy(p) ==
    /\ at[p] = "owner"
    /\ IF owner \notin {Absent, ""} /\ owner = who[p].name THEN Decide(p, TRUE)
       ELSE Goto(p, "policies")
    /\ Keep(<<tables, outside, writes>>)

Said(doc, p) ==
    IF doc = Absent THEN [allowed |-> FALSE, denied |-> FALSE]
    ELSE evaluatePolicyStatements(doc, who[p], Asked[call[p].op.do])

EvaluateIAMPolicy(p) ==
    /\ at[p] = "policies" /\ eval[p].todo # <<>>
    /\ LET said == Said(iam[Head(eval[p].todo)], p)
       IN eval' = [eval EXCEPT ![p] = [todo    |-> Tail(eval[p].todo),
                                       allowed |-> eval[p].allowed \/ said.allowed,
                                       denied  |-> eval[p].denied \/ said.denied]]
    /\ Keep(<<at, call, who, tables, outside, writes>>)

\* Slip: an allow found first outweighs a deny of the bucket's policy.
EvaluateBucketPolicyLast(p) ==
    /\ at[p] = "policies" /\ eval[p].todo = <<>>
    /\ LET said == Said(policy, p)
       IN Decide(p, /\ ~eval[p].denied
                    /\ eval[p].allowed \/ (said.allowed /\ ~said.denied))
    /\ Keep(<<tables, outside, writes>>)


EvaluateBucketPolicy(p) ==
    /\ at[p] = "policies" /\ eval[p].todo = <<>>
    /\ LET said == Said(policy, p)
       IN Decide(p, /\ ~(eval[p].denied \/ said.denied)
                    /\ eval[p].allowed \/ said.allowed)
    /\ Keep(<<tables, outside, writes>>)

IsAllowed(p) == EvaluateIAMPolicy(p) \/ EvaluateBucketPolicy(p)

Answer(p) ==
    /\ \/ at[p] = "denied"
       \/ at[p] = "act" /\ call[p].op.do = "GetObject"
    /\ Idle(p)
    /\ Keep(<<tables, outside, writes>>)

-----------------------------------------------------------------------------
(***************************************************************************)
(* What they do: one transaction each.                                     *)
(***************************************************************************)
Act(p, do) == at[p] = "act" /\ call[p].op.do = do /\ Idle(p)

\* A table with record i replaced, if there is one, and without it.
Replaced(table, i, rec) == IF table[i] = Absent THEN table ELSE [table EXCEPT ![i] = rec]
Without(table, i) == [table EXCEPT ![i] = Absent]

CreateUser(p) ==
    /\ Act(p, "CreateUser")
    /\ users' = Filled(users, call[p].op.name, call[p].op.body)
    /\ Keep(<<accounts, sessions, iam, owner, policy, outside, writes>>)

UpdateUser(p) ==
    /\ Act(p, "UpdateUser")
    /\ users' = Replaced(users, call[p].op.name, call[p].op.body)
    /\ Keep(<<accounts, sessions, iam, owner, policy, outside, writes>>)

PutUserPolicies(p) ==
    /\ Act(p, "PutUserPolicies")
    /\ LET n == call[p].op.name
       IN users' = Replaced(users, n, [users[n] EXCEPT !.policies = call[p].op.list])
    /\ Keep(<<accounts, sessions, iam, owner, policy, outside, writes>>)

\* The user's sessions and service accounts stay.
DeleteUser(p) ==
    /\ Act(p, "DeleteUser")
    /\ users' = Without(users, call[p].op.name)
    /\ Keep(<<accounts, sessions, iam, owner, policy, outside, writes>>)

PutIAMPolicy(p) ==
    /\ Act(p, "PutIAMPolicy")
    /\ iam' = [iam EXCEPT ![call[p].op.policy] = call[p].op.doc]
    /\ Keep(<<users, accounts, sessions, owner, policy, outside, writes>>)

DeleteIAMPolicy(p) ==
    /\ Act(p, "DeleteIAMPolicy")
    /\ iam' = Without(iam, call[p].op.policy)
    /\ Keep(<<users, accounts, sessions, owner, policy, outside, writes>>)

PutBucketPolicy(p) ==
    /\ Act(p, "PutBucketPolicy")
    /\ policy' = call[p].op.doc
    /\ Keep(<<users, accounts, sessions, iam, owner, outside, writes>>)

DeleteBucketPolicy(p) ==
    /\ Act(p, "DeleteBucketPolicy")
    /\ policy' = Absent
    /\ Keep(<<users, accounts, sessions, iam, owner, outside, writes>>)

\* A bucket made in the console has no owner.
CreateBucket(p) ==
    /\ Act(p, "CreateBucket")
    /\ owner' = IF owner # Absent THEN owner
                ELSE IF call[p].route = "admin" THEN "" ELSE who[p].name
    /\ Keep(<<users, accounts, sessions, iam, policy, outside, writes>>)

\* The bucket's policy stays, and awaits the next bucket of that name.
DeleteBucket(p) ==
    /\ Act(p, "DeleteBucket")
    /\ owner' = Absent
    /\ Keep(<<users, accounts, sessions, iam, policy, outside, writes>>)

CheckTargetUser(p) ==
    /\ at[p] = "target"
    /\ LET n == call[p].op.target
       IN IF users[n] # Absent /\ (n = who[p].name \/ who[p].isRoot) THEN Goto(p, "act") ELSE Idle(p)
    /\ Keep(<<tables, outside, writes>>)

CreateServiceAccount(p) ==
    /\ Act(p, "CreateServiceAccount")
    /\ LET op == call[p].op
       IN /\ accounts' = Filled(accounts, op.id,
                                [parent   |-> op.target,
                                 disabled |-> FALSE,
                                 expiry   |-> IF op.expires THEN "coming" ELSE "never"])
          /\ held' = [held EXCEPT ![op.id] = op.target]
    /\ Keep(<<users, sessions, iam, owner, policy, dead, writes>>)

\* Slip: the key is looked for, not its user.
CheckExistence(p) ==
    /\ at[p] = "list"
    /\ IF accounts[call[p].op.key] # Absent THEN Goto(p, "act") ELSE Idle(p)
    /\ Keep(<<tables, outside, writes>>)


CheckOwnership(p) ==
    /\ at[p] = "list"
    /\ LET k == call[p].op.key
       IN IF accounts[k] # Absent /\ accounts[k].parent = who[p].name THEN Goto(p, "act") ELSE Idle(p)
    /\ Keep(<<tables, outside, writes>>)

DeleteServiceAccount(p) ==
    /\ Act(p, "DeleteServiceAccount")
    /\ accounts' = Without(accounts, call[p].op.key)
    /\ Keep(<<users, sessions, iam, owner, policy, outside, writes>>)

ToggleServiceAccountStatus(p) ==
    /\ Act(p, "ToggleServiceAccountStatus")
    /\ LET k == call[p].op.key
       IN accounts' = Replaced(accounts, k, [accounts[k] EXCEPT !.disabled = call[p].op.disabled])
    /\ Keep(<<users, sessions, iam, owner, policy, outside, writes>>)

\* Login's last two steps: the session is stored, then its token is made.
CreateSession(p) ==
    /\ at[p] = "open"
    /\ sessions' = sessions \cup {call[p].op.id}
    /\ Goto(p, "issue")
    /\ Keep(<<users, accounts, iam, owner, policy, outside, writes>>)

GenerateToken(p) ==
    /\ at[p] = "issue"
    /\ held' = [held EXCEPT ![call[p].op.id] = call[p].asker]
    /\ Idle(p)
    /\ Keep(<<tables, dead, writes>>)

Logout(p) ==
    /\ Act(p, "Logout")
    /\ sessions' = sessions \ {call[p].id}
    /\ Keep(<<users, accounts, iam, owner, policy, outside, writes>>)

-----------------------------------------------------------------------------
(***************************************************************************)
(* Time, and the end of the process: the key that signs tokens is made     *)
(* anew at every start.                                                    *)
(***************************************************************************)
AccountExpires(k) ==
    /\ accounts[k] # Absent /\ accounts[k].expiry = "coming"
    /\ writes < MaxWrites /\ writes' = writes + 1
    /\ accounts' = [accounts EXCEPT ![k].expiry = "past"]
    /\ Keep(<<users, sessions, iam, owner, policy, outside, progress>>)

TokenExpires(s) ==
    /\ held[s] # NoAsker /\ s \notin dead
    /\ writes < MaxWrites /\ writes' = writes + 1
    /\ dead' = dead \cup {s}
    /\ Keep(<<tables, held, progress>>)

Restart ==
    /\ writes < MaxWrites /\ writes' = writes + 1
    /\ users' = Filled(users, Root, RootRecord)
    /\ accounts' = Filled(accounts, RootKey, RootAccount)
    /\ dead' = {s \in SessionIds : held[s] # NoAsker}
    /\ at' = [p \in Procs |-> "idle"]
    /\ call' = [p \in Procs |-> NoCall]
    /\ who' = [p \in Procs |-> Nobody]
    /\ eval' = [p \in Procs |-> NothingRead]
    /\ Keep(<<sessions, iam, owner, policy, held>>)

Authenticate(p) ==
    \/ GetServiceAccountByAccessKey(p) \/ GetParentUser(p) \/ GetUserByAccessKey(p)
    \/ GetSession(p) \/ GetTokenUser(p) \/ GetUserByUsername(p)

Authorize(p) ==
    CheckPolicy(p) \/ IsAllowed(p) \/ Answer(p) \/ CheckTargetUser(p) \/ CheckOwnership(p)

Operate(p) ==
    \/ CreateUser(p) \/ UpdateUser(p) \/ PutUserPolicies(p) \/ DeleteUser(p)
    \/ PutIAMPolicy(p) \/ DeleteIAMPolicy(p) \/ PutBucketPolicy(p) \/ DeleteBucketPolicy(p)
    \/ CreateBucket(p) \/ DeleteBucket(p)
    \/ CreateServiceAccount(p) \/ DeleteServiceAccount(p) \/ ToggleServiceAccountStatus(p)
    \/ CreateSession(p) \/ GenerateToken(p) \/ Logout(p)

Request(p) ==
    \/ BeginUnsigned(p) \/ BeginSigned(p) \/ BeginWithToken(p) \/ BeginLogin(p)
    \/ Authenticate(p) \/ Authorize(p) \/ Operate(p)

Clock == (\E k \in Keys : AccountExpires(k)) \/ (\E s \in SessionIds : TokenExpires(s))

Next == (\E p \in Procs : Request(p)) \/ Clock \/ Restart

Spec == Init /\ [][Next]_vars

-----------------------------------------------------------------------------
AccessTypeOK ==
    /\ users \in [Names -> Users \cup {Absent}]
    /\ accounts \in [Keys -> Accounts \cup {Absent}]
    /\ sessions \subseteq SessionIds
    /\ iam \in [PolicyNames -> Docs \cup {Absent}]
    /\ owner \in Names \cup {"", Absent}
    /\ policy \in Docs \cup {Absent}
    /\ held \in [Keys \cup SessionIds -> Names \cup {NoAsker}]
    /\ dead \subseteq SessionIds
    /\ \A p \in Procs : who[p].name \in Names \cup {NoAsker, Anonymous.name}
    /\ writes \in 0..MaxWrites

Read(p, fact) == fact \in since[p].ever
Missed(p, fact) == fact \notin since[p].always

\* What a request was let in on, as its asker.  A key that was not in the table
\* of accounts but in the asker's record counts even if that user is disabled;
\* and the empty key is no credential at all, but was in the record of every user
\* without a key.
Stood(p) ==
    CASE call[p].by = "token" -> Read(p, <<"session">>) /\ Read(p, <<"enabled">>)
      [] call[p].by = "password" -> Read(p, <<"enabled">>)
      [] call[p].by = "pair" -> Read(p, <<"usable">>) /\ Read(p, <<"user">>)
      [] call[p].by = "key" /\ call[p].id # NoKey ->
            \/ Read(p, <<"usable">>) /\ Read(p, <<"enabled">>)
            \/ Read(p, <<"unlisted">>) /\ Read(p, <<"in record">>)
      [] call[p].by = "key" /\ call[p].id = NoKey -> Read(p, <<"in record">>)
      [] OTHER -> FALSE

\* A request passes as a user only on a credential and a user that were in
\* force at some instant since it arrived: one withdrawn before, by logging
\* out, disabling, deletion or expiry, lets nobody in.  The exceptions are the
\* keys of records, which disabling does not withdraw, and the empty key, with
\* which a request passes, without any credential, as a user whose record has
\* no key at some instant.
CredentialsStood ==
    \A p \in Procs : who[p].name \in Names =>
        /\ who[p].name = call[p].asker
        /\ who[p].isRoot => Read(p, <<"root">>)
        /\ Stood(p)

\* The policies a decision on p draws on.
Sources(p) == IF who[p] = Anonymous THEN {"open"} ELSE PolicyNames \cup {"bucket"}
Attached(q) == IF q \in PolicyNames THEN {<<"attached", q>>} ELSE {}
Reads(p, word, q) == \A fact \in Attached(q) \cup {<<word, q>>} : Read(p, fact)
Misses(p, word, q) == \E fact \in Attached(q) \cup {<<word, q>>} : Missed(p, fact)

\* A request is let through on an allow that stood at some instant, and past
\* no deny that stood all along; it is turned away only over a deny that
\* stood at some instant or for want of an allow that stood all along.  Which
\* policy it is, and in what order they are read, makes no difference.
DecisionsJustified ==
    \A p \in Procs :
        /\ /\ at[p] = "act" /\ call[p].route = "s3" /\ call[p].op.do # "CreateBucket"
           /\ ~who[p].isRoot
           => \/ Read(p, <<"owner">>)
              \/ /\ \E q \in Sources(p) : Reads(p, "allow", q)
                 /\ \A q \in Sources(p) : Misses(p, "deny", q)
        /\ at[p] = "denied" =>
              /\ who[p] # Anonymous => Missed(p, <<"owner">>)
              /\ \/ \E q \in Sources(p) : Reads(p, "deny", q)
                 \/ \A q \in Sources(p) : Misses(p, "allow", q)

\* Users and IAM policies change, and consoles are opened, only at the hands
\* of a request that was let in as a user who was root meanwhile, on what
\* CredentialsStood says: with a credential, or with the empty key while that
\* root's record had none.  Service accounts change at the hands of root or, by
\* token, of the user they belong to, besides by running out and by the start of
\* the server.
ByRoot ==
    \E p \in Procs : at[p] # "idle" /\ at'[p] # at[p] /\ Read(p, <<"root">>) /\ Stood(p)
ByUser(n) ==
    \E p \in Procs : /\ at[p] = "act" /\ at'[p] = "idle" /\ call[p].asker = n /\ who[p].name = n
                     /\ call[p].by = "token" /\ Stood(p)

WithAuthority ==
    /\ users' \in {users, Filled(users, Root, RootRecord)} \/ ByRoot
    /\ iam' = iam \/ ByRoot
    /\ sessions' \subseteq sessions \/ ByRoot
    /\ \A k \in Keys : accounts'[k] # accounts[k] =>
          \/ ByRoot
          \/ accounts[k] # Absent /\ (\/ ByUser(accounts[k].parent)
                                      \/ accounts' = [accounts EXCEPT ![k].expiry = "past"])
          \/ accounts[k] = Absent /\ (ByUser(accounts'[k].parent) \/ k = RootKey)

AuthorityHeld == [][WithAuthority]_vars

=============================================================================
