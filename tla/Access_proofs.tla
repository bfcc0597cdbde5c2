---------------------------- MODULE Access_proofs ----------------------------
(***************************************************************************)
(* What Access promises, for any users, keys, sessions, policies and       *)
(* number of requests at once: types, CredentialsStood, AuthorityHeld and  *)
(* DecisionsJustified.                                                     *)
(***************************************************************************)
EXTENDS Access, TLAPS

-----------------------------------------------------------------------------
(***************************************************************************)
(* Data.                                                                   *)
(***************************************************************************)
Steps == {"idle", "account", "parent", "legacy", "session", "tokenUser", "name", "owner",
          "policies", "act", "denied", "target", "list", "open", "issue"}

Whos == [name : Names \cup {NoAsker, Anonymous.name}, key : Keys \cup {NoKey},
         isRoot : BOOLEAN, policies : Seq(PolicyNames)]

Evals == [todo : Seq(PolicyNames), allowed : BOOLEAN, denied : BOOLEAN]

\* ApiOps and LoginOps, whatever ids are fresh.
ApiRequests ==
    [do : {"CreateServiceAccount"}, target : Targets, id : Keys, expires : BOOLEAN]
    \cup [do : {"DeleteServiceAccount"}, key : Keys]
    \cup [do : {"ToggleServiceAccountStatus"}, key : Keys, disabled : BOOLEAN]
    \cup [do : {"Logout"}]
LoginRequests == [do : {"Login"}, id : SessionIds]

Unsigned == [route : {"s3"}, by : {"nothing"}, id : {""}, asker : {Anonymous.name}, op : S3Ops]
Signed == [route : {"s3"}, by : {"key"}, id : Keys \cup {NoKey}, asker : Names, op : S3Ops]
          \cup [route : {"admin"}, by : {"key"}, id : Keys \cup {NoKey}, asker : Names, op : AdminOps]
WithToken == [route : {"admin"}, by : {"token"}, id : SessionIds, asker : Names, op : AdminOps]
             \cup [route : {"api"}, by : {"token"}, id : SessionIds, asker : Names, op : ApiRequests]
LoggingIn == [route : {"login"}, by : {"password"}, id : Names, asker : Names, op : LoginRequests]
             \cup [route : {"login"}, by : {"pair"}, id : Keys, asker : Names, op : LoginRequests]
Sent == Unsigned \cup Signed \cup WithToken \cup LoggingIn
Calls == Sent \cup {NoCall}

RootDos == {"CreateUser", "UpdateUser", "PutUserPolicies", "DeleteUser", "PutIAMPolicy",
            "DeleteIAMPolicy"}
S3Dos == {"GetObject", "CreateBucket", "DeleteBucket", "DeleteBucketPolicy", "PutBucketPolicy"}

\* Who sends a call and which operations its route has.
LEMMA CallKinds ==
    ASSUME NEW c \in Sent
    PROVE  /\ c.by \in {"nothing", "key", "token", "password", "pair"}
           /\ c.by = "nothing" => c.id = "" /\ c.asker = Anonymous.name /\ c.route = "s3"
           /\ c.by = "key" => c.id \in Keys \cup {NoKey} /\ c.asker \in Names
           /\ c.by = "pair" => c.id \in Keys /\ c.asker \in Names
           /\ c.by = "token" => c.id \in SessionIds /\ c.asker \in Names /\ c.route # "s3"
           /\ c.by = "password" => c.id \in Names /\ c.asker \in Names
           /\ c.by \in {"password", "pair"} <=> c.route = "login"
           /\ c.route \in {"s3", "admin", "api", "login"}
           /\ c.route = "s3" => c.op \in S3Ops
           /\ c.route = "admin" => c.op \in AdminOps
           /\ c.route = "api" => c.op \in ApiRequests /\ c.by = "token"
           /\ c.route = "login" => c.op \in LoginRequests
           /\ c.op \in S3Ops \cup AdminOps \cup ApiRequests \cup LoginRequests
  BY DEF Sent, Unsigned, Signed, WithToken, LoggingIn

LEMMA S3Kinds ==
    ASSUME NEW op \in S3Ops
    PROVE  op.do \in S3Dos /\ (op.do = "PutBucketPolicy" => op.doc \in Docs) /\ "id" \notin DOMAIN op
  BY DEF S3Ops, S3Dos

LEMMA AdminKinds ==
    ASSUME NEW op \in AdminOps
    PROVE  /\ op.do \in RootDos \cup {"CreateBucket"} /\ "id" \notin DOMAIN op
           /\ op.do \in {"CreateUser", "UpdateUser"} => op.name \in Targets /\ op.body \in Bodies
           /\ op.do = "PutUserPolicies" => op.name \in Targets /\ op.list \in PolicyLists
           /\ op.do = "DeleteUser" => op.name \in Targets
           /\ op.do = "PutIAMPolicy" => op.policy \in PolicyNames /\ op.doc \in Docs
           /\ op.do = "DeleteIAMPolicy" => op.policy \in PolicyNames
  BY DEF AdminOps, RootDos

LEMMA ApiKinds ==
    ASSUME NEW op \in ApiRequests
    PROVE  /\ op.do \in {"CreateServiceAccount", "DeleteServiceAccount",
                         "ToggleServiceAccountStatus", "Logout"}
           /\ op.do = "CreateServiceAccount" =>
                 op.target \in Targets /\ op.id \in Keys /\ op.expires \in BOOLEAN /\ "id" \in DOMAIN op
           /\ op.do # "CreateServiceAccount" => "id" \notin DOMAIN op
           /\ op.do = "DeleteServiceAccount" => op.key \in Keys
           /\ op.do = "ToggleServiceAccountStatus" => op.key \in Keys /\ op.disabled \in BOOLEAN
  BY DEF ApiRequests

LEMMA LoginKinds ==
    ASSUME NEW op \in LoginRequests
    PROVE  op.do = "Login" /\ op.id \in SessionIds /\ "id" \in DOMAIN op
  BY DEF LoginRequests

\* An operation says what comes with it and which route it has.
LEMMA OpKinds ==
    ASSUME NEW c \in Calls
    PROVE  /\ c.op.do \in {"CreateUser", "UpdateUser"} =>
                 c.op.name \in Targets /\ c.op.body \in Bodies /\ c.route = "admin"
           /\ c.op.do = "PutUserPolicies" =>
                 c.op.name \in Targets /\ c.op.list \in PolicyLists /\ c.route = "admin"
           /\ c.op.do = "DeleteUser" => c.op.name \in Targets /\ c.route = "admin"
           /\ c.op.do = "PutIAMPolicy" =>
                 c.op.policy \in PolicyNames /\ c.op.doc \in Docs /\ c.route = "admin"
           /\ c.op.do = "DeleteIAMPolicy" => c.op.policy \in PolicyNames /\ c.route = "admin"
           /\ c.op.do = "PutBucketPolicy" => c.op.doc \in Docs /\ c.route = "s3"
           /\ c.op.do = "CreateServiceAccount" =>
                 /\ c.op.target \in Targets /\ c.op.id \in Keys /\ c.op.expires \in BOOLEAN
                 /\ "id" \in DOMAIN c.op /\ c.route = "api"
           /\ c.op.do = "DeleteServiceAccount" => c.op.key \in Keys /\ c.route = "api"
           /\ c.op.do = "ToggleServiceAccountStatus" =>
                 c.op.key \in Keys /\ c.op.disabled \in BOOLEAN /\ c.route = "api"
           /\ c.op.do = "Login" => c.op.id \in SessionIds /\ "id" \in DOMAIN c.op /\ c.route = "login"
           /\ c.op.do = "CreateBucket" => c.route \in {"s3", "admin"}
           /\ "id" \in DOMAIN c.op => c.op.id \in Keys \cup SessionIds
           /\ c = NoCall \/ c \in Sent
  <1>1. CASE c \in Sent
    BY <1>1, CallKinds, S3Kinds, AdminKinds, ApiKinds, LoginKinds DEF S3Dos, RootDos
  <1>2. CASE c = NoCall
    BY <1>2 DEF NoCall
  <1> QED BY <1>1, <1>2 DEF Calls

LEMMA WhoFacts ==
    /\ Nobody \in Whos /\ Anonymous \in Whos /\ NothingRead \in Evals
    /\ Nobody.name = NoAsker /\ ~Nobody.isRoot /\ Anonymous.name = "anonymous" /\ ~Anonymous.isRoot
    /\ Anonymous.policies = <<>> /\ Nobody.name \notin Names /\ Anonymous.name \notin Names
    /\ NoAsker # Anonymous.name /\ Nobody # Anonymous
  <1>1. <<>> \in Seq(PolicyNames)
    OBVIOUS
  <1> QED BY <1>1, NamesAssumption DEF Nobody, Anonymous, NothingRead, Whos, Evals, NoAsker

-----------------------------------------------------------------------------
(***************************************************************************)
(* What steps do to the requests.                                          *)
(***************************************************************************)
Progress ==
    /\ at \in [Procs -> Steps] /\ call \in [Procs -> Calls]
    /\ who \in [Procs -> Whos] /\ eval \in [Procs -> Evals]

Alone(p) ==
    \A q \in Procs \ {p} :
        at'[q] = at[q] /\ call'[q] = call[q] /\ who'[q] = who[q] /\ eval'[q] = eval[q]

Ends(p) ==
    /\ at'[p] = "idle" /\ call'[p] = NoCall /\ who'[p] = Nobody /\ eval'[p] = NothingRead
    /\ Alone(p)

Moves(p, s) ==
    /\ at'[p] = s /\ call'[p] = call[p] /\ who'[p] = who[p] /\ eval'[p] = eval[p]
    /\ Alone(p)

Enters(p, w) ==
    /\ at'[p] = Entrance(call[p], w) /\ at'[p] # "idle" /\ call'[p] = call[p]
    /\ who'[p] = w /\ eval'[p] = [NothingRead EXCEPT !.todo = w.policies]
    /\ Alone(p)

\* A request arrives; what it was sent as tells where it starts.
Comes(p, c) ==
    /\ at[p] = "idle" /\ call'[p] = c /\ eval'[p] = eval[p] /\ Alone(p)
    /\ c.by = "nothing" => at'[p] = "owner" /\ who'[p] = Anonymous /\ c.op.do # "CreateBucket"
    /\ c.by # "nothing" => who'[p] = Nobody
    /\ c.by \in {"key", "pair"} => at'[p] = "account"
    /\ c.by = "pair" => held[c.id] = c.asker
    /\ c.by = "token" => at'[p] = IF c.op.do = "Logout" THEN "act" ELSE "session"
    /\ c.by = "password" => at'[p] = "name"
    /\ "id" \in DOMAIN c.op => held[c.op.id] = NoAsker /\ c.op.id \notin InUse

LEMMA IdleShape ==
    ASSUME Progress, NEW p \in Procs, Idle(p)
    PROVE  Ends(p) /\ Progress'
  BY WhoFacts DEF Idle, Ends, Alone, Progress, Steps, Calls

LEMMA GotoShape ==
    ASSUME Progress, NEW p \in Procs, NEW s \in Steps, Goto(p, s)
    PROVE  Moves(p, s) /\ Progress'
  BY DEF Goto, Moves, Alone, Progress

\* Where a route leads.
LEMMA EntranceFacts ==
    ASSUME NEW c \in Sent, c.op.do # "Logout", NEW w \in Whos
    PROVE  /\ Entrance(c, w) \in {"idle", "act", "target", "list", "owner", "open"}
           /\ Entrance(c, w) = "act" =>
                 \/ w.isRoot
                 \/ c.route = "s3" /\ c.op.do = "CreateBucket" /\ w # Anonymous
           /\ Entrance(c, w) = "target" => c.op.do = "CreateServiceAccount"
           /\ Entrance(c, w) = "list" => c.op.do = "DeleteServiceAccount"
           /\ Entrance(c, w) = "owner" => c.route = "s3" /\ c.op.do # "CreateBucket" /\ ~w.isRoot
           /\ Entrance(c, w) = "open" => c.route = "login" /\ w.isRoot
  <1>1. w.isRoot \in BOOLEAN
    BY DEF Whos
  <1>2. CASE c.route = "admin"
    BY <1>1, <1>2 DEF Entrance
  <1>3. CASE c.route = "api"
    <2>1. c.op.do \in {"CreateServiceAccount", "DeleteServiceAccount", "ToggleServiceAccountStatus"}
      BY <1>3, CallKinds, ApiKinds
    <2> QED BY <1>1, <1>3, <2>1 DEF Entrance
  <1>4. CASE c.route = "s3"
    BY <1>1, <1>4 DEF Entrance
  <1>5. CASE c.route = "login"
    BY <1>1, <1>5 DEF Entrance
  <1> QED BY <1>2, <1>3, <1>4, <1>5, CallKinds

LEMMA AdmitShape ==
    ASSUME Progress, NEW p \in Procs, call[p] \in Sent, call[p].op.do # "Logout", NEW w \in Whos,
           Admit(p, w)
    PROVE  (Ends(p) \/ Enters(p, w)) /\ Progress'
  <1>1. CASE Entrance(call[p], w) = "idle"
    BY <1>1, IdleShape DEF Admit
  <1>2. CASE Entrance(call[p], w) # "idle"
    <2> DEFINE s == Entrance(call[p], w)
               e == [NothingRead EXCEPT !.todo = w.policies]
    <2>1. s \in Steps
      BY EntranceFacts DEF Steps
    <2>2. e \in Evals
      BY DEF NothingRead, Evals, Whos
    <2>3. at' = [at EXCEPT ![p] = s] /\ who' = [who EXCEPT ![p] = w] /\ eval' = [eval EXCEPT ![p] = e]
          /\ call' = call
      BY <1>2 DEF Admit
    <2>4. s = Entrance(call[p], w) /\ e = [NothingRead EXCEPT !.todo = w.policies]
      OBVIOUS
    <2> HIDE DEF s, e
    <2>5. Progress' /\ Alone(p)
      BY <2>1, <2>2, <2>3 DEF Progress, Alone
    <2>6. at'[p] = s /\ who'[p] = w /\ eval'[p] = e /\ call'[p] = call[p]
      BY <2>3 DEF Progress
    <2> QED BY <1>2, <2>4, <2>5, <2>6 DEF Enters
  <1> QED BY <1>1, <1>2

LEMMA ArriveShape ==
    ASSUME Progress, NEW p \in Procs, NEW c \in Sent, NEW w \in Whos, NEW s \in Steps,
           Arrive(p, c, w, s)
    PROVE  /\ at[p] = "idle" /\ at'[p] = s /\ call'[p] = c /\ who'[p] = w /\ eval'[p] = eval[p]
           /\ Alone(p) /\ Progress'
  <1>1. /\ at[p] = "idle" /\ at' = [at EXCEPT ![p] = s] /\ call' = [call EXCEPT ![p] = c]
        /\ who' = [who EXCEPT ![p] = w] /\ eval' = eval
    BY DEF Arrive, Keep
  <1>2. c \in Calls
    BY DEF Calls
  <1> QED BY <1>1, <1>2 DEF Progress, Alone

LEMMA DecideShape ==
    ASSUME Progress, NEW p \in Procs, NEW allowed \in BOOLEAN, Decide(p, allowed)
    PROVE  /\ at'[p] = IF allowed THEN "act" ELSE "denied"
           /\ call'[p] = call[p] /\ who'[p] = who[p] /\ Alone(p) /\ Progress'
  BY WhoFacts DEF Decide, Progress, Alone, Steps

-----------------------------------------------------------------------------
(***************************************************************************)
(* Types, and what the step a request is at says of it.                    *)
(***************************************************************************)
\* What the clients have been given: a key is its user's, and no id is given
\* out twice.
GivenOnce ==
    /\ held[RootKey] = Root
    /\ \A k \in Keys : accounts[k] # Absent => accounts[k].parent = held[k]
    /\ \A p \in Procs : at[p] # "idle" /\ "id" \in DOMAIN call[p].op => held[call[p].op.id] = NoAsker
    /\ \A p, q \in Procs :
          /\ p # q /\ at[p] # "idle" /\ at[q] # "idle"
          /\ "id" \in DOMAIN call[p].op /\ "id" \in DOMAIN call[q].op
          => call[p].op.id # call[q].op.id

Stage(p) ==
    /\ at[p] = "idle" <=> call[p] = NoCall
    /\ at[p] \in {"idle", "account", "parent", "legacy", "session", "tokenUser", "name"} => who[p] = Nobody
    /\ at[p] \in {"account", "parent"} => call[p].by \in {"key", "pair"}
    /\ at[p] = "legacy" => call[p].by = "key"
    /\ at[p] \in {"session", "tokenUser"} => call[p].by = "token" /\ call[p].op.do # "Logout"
    /\ at[p] = "name" => call[p].by = "password"
    /\ at[p] \in {"owner", "policies", "denied"} =>
          call[p].route = "s3" /\ call[p].op.do # "CreateBucket" /\ ~who[p].isRoot
    /\ at[p] = "target" => call[p].op.do = "CreateServiceAccount"
    /\ at[p] = "list" => call[p].op.do = "DeleteServiceAccount"
    /\ at[p] = "issue" => call[p].route = "login"
    /\ at[p] = "open" => call[p].route = "login" /\ who[p].isRoot
    /\ at[p] = "act" /\ call[p].op.do = "CreateBucket" => who[p].name \in Names
    /\ at[p] = "parent" => call[p].id \in Keys /\ held[call[p].id] # NoAsker
    /\ call[p].by = "pair" => held[call[p].id] = call[p].asker

AccessInv ==
    /\ AccessTypeOK /\ Progress /\ GivenOnce
    /\ \A p \in Procs : Stage(p)

-----------------------------------------------------------------------------
(***************************************************************************)
(* Every step, in these terms.                                             *)
(***************************************************************************)
\* A step that finds out who is asking, with what it has read.
Identifies(p) ==
    LET c == call[p]
    IN  \/ Ends(p)
        \/ at[p] = "account" /\ Usable(c.id) /\ Moves(p, "parent")
        \/ at[p] = "account" /\ c.by = "key" /\ ~Listed(c.id) /\ Moves(p, "legacy")
        \/ at[p] \in {"account", "parent"} /\ c.by = "key" /\ Enters(p, Anonymous)
        \/ at[p] = "parent" /\ c.by = "pair" /\ users[c.asker] # Absent /\ Enters(p, AsUser(c.asker, NoKey))
        \/ /\ at[p] = "parent" /\ c.by = "key" /\ held[c.id] = c.asker
           /\ Enabled(c.asker) /\ Enters(p, AsUser(c.asker, c.id))
        \/ at[p] = "legacy" /\ InRecord(c.asker, c.id) /\ Enters(p, AsUser(c.asker, c.id))
        \/ at[p] = "session" /\ c.id \in sessions /\ Moves(p, "tokenUser")
        \/ at[p] \in {"tokenUser", "name"} /\ Enabled(c.asker)
           /\ \E k \in Keys \cup {NoKey} : Enters(p, AsUser(c.asker, k))

\* A step that finds out whether it may.
Judges(p) ==
    LET c == call[p]
    IN  \/ Ends(p)
        \/ /\ at[p] = "owner" /\ owner \notin {Absent, ""} /\ owner = who[p].name
           /\ at'[p] = "act" /\ call'[p] = c /\ who'[p] = who[p] /\ Alone(p)
        \/ at[p] = "owner" /\ (owner \in {Absent, ""} \/ owner # who[p].name) /\ Moves(p, "policies")
        \/ /\ at[p] = "policies" /\ eval[p].todo # <<>>
           /\ at'[p] = at[p] /\ call'[p] = c /\ who'[p] = who[p] /\ Alone(p)
           /\ eval'[p].todo = Tail(eval[p].todo)
           /\ LET said == Said(iam[Head(eval[p].todo)], p)
              IN  /\ eval'[p].allowed = (eval[p].allowed \/ said.allowed)
                  /\ eval'[p].denied = (eval[p].denied \/ said.denied)
        \/ /\ at[p] = "policies" /\ eval[p].todo = <<>>
           /\ call'[p] = c /\ who'[p] = who[p] /\ Alone(p)
           /\ LET said == Said(policy, p)
              IN  at'[p] = IF ~(eval[p].denied \/ said.denied) /\ (eval[p].allowed \/ said.allowed)
                           THEN "act" ELSE "denied"
        \/ /\ at[p] = "target" /\ Moves(p, "act")
           /\ c.op.target = who[p].name \/ who[p].isRoot
        \/ /\ at[p] = "list" /\ Moves(p, "act")
           /\ accounts[c.op.key] # Absent /\ accounts[c.op.key].parent = who[p].name

LEMMA AsUserFacts ==
    ASSUME AccessTypeOK, NEW n \in Names, users[n] # Absent, NEW k \in Keys \cup {NoKey}
    PROVE  /\ AsUser(n, k) \in Whos /\ AsUser(n, k).name = n /\ AsUser(n, k).key = k
           /\ AsUser(n, k).isRoot = users[n].isRoot /\ AsUser(n, k).policies = users[n].policies
  <1>1. users[n] \in Users
    BY DEF AccessTypeOK
  <1> QED BY <1>1 DEF AsUser, Whos, Users

\* Requests past their arrival were sent by someone.
LEMMA BusySent ==
    ASSUME AccessInv, NEW p \in Procs, at[p] # "idle"
    PROVE  call[p] \in Sent
  BY DEF AccessInv, Progress, Stage, Calls

LEMMA IdentifyShape ==
    ASSUME AccessInv, NEW p \in Procs, Authenticate(p)
    PROVE  Identifies(p) /\ Progress' /\ Watch /\ UNCHANGED <<tables, outside, writes>>
  <1> DEFINE c == call[p]
  <1>1. at[p] # "idle"
    BY DEF Authenticate, GetServiceAccountByAccessKey, GetParentUser, GetUserByAccessKey,
           GetSession, GetTokenUser, GetUserByUsername
  <1>2. c \in Sent
    BY <1>1, BusySent
  <1>3. Progress /\ Stage(p) /\ AccessTypeOK /\ GivenOnce
    BY DEF AccessInv
  <1>4. Watch /\ UNCHANGED <<tables, outside, writes>>
    BY DEF Authenticate, GetServiceAccountByAccessKey, GetParentUser, GetUserByAccessKey,
           GetSession, GetTokenUser, GetUserByUsername, Keep
  <1>5. CASE GetServiceAccountByAccessKey(p)
    <2>1. at[p] = "account" /\ c.by \in {"key", "pair"} /\ c.op.do # "Logout"
      BY <1>2, <1>3, <1>5, CallKinds, S3Kinds, AdminKinds, LoginKinds DEF GetServiceAccountByAccessKey, Stage, S3Dos, RootDos
    <2>2. \/ Usable(c.id) /\ Goto(p, "parent")
          \/ Idle(p)
          \/ c.by = "key" /\ Admit(p, Anonymous)
          \/ c.by = "key" /\ ~Listed(c.id) /\ Goto(p, "legacy")
      BY <1>5, <2>1 DEF GetServiceAccountByAccessKey, Usable
    <2> QED BY <1>2, <1>3, <1>4, <2>1, <2>2, IdleShape, GotoShape, AdmitShape, WhoFacts DEF Identifies, Steps
  <1>6. CASE GetParentUser(p)
    <2>1. at[p] = "parent" /\ c.by \in {"key", "pair"} /\ c.op.do # "Logout"
      BY <1>2, <1>3, <1>6, CallKinds, S3Kinds, AdminKinds, LoginKinds DEF GetParentUser, Stage, S3Dos, RootDos
    <2>2. c.asker \in Names /\ c.id \in Keys /\ (c.by = "pair" => held[c.id] = c.asker)
      BY <1>2, <1>3, <2>1, CallKinds DEF Stage
    <2>3. \/ Idle(p)
          \/ c.by = "pair" /\ users[c.asker] # Absent /\ Admit(p, AsUser(c.asker, NoKey))
          \/ c.by = "key" /\ Admit(p, Anonymous)
          \/ /\ c.by = "key" /\ held[c.id] = c.asker /\ Enabled(c.asker)
             /\ Admit(p, AsUser(c.asker, c.id))
      BY <1>6, <2>1, <2>2 DEF GetParentUser, Verified, Enabled
    <2>4. CASE Idle(p) \/ (c.by = "key" /\ Admit(p, Anonymous))
      BY <1>2, <1>3, <1>4, <2>1, <2>4, IdleShape, AdmitShape, WhoFacts DEF Identifies
    <2>5. CASE c.by = "pair" /\ users[c.asker] # Absent /\ Admit(p, AsUser(c.asker, NoKey))
      <3>1. AsUser(c.asker, NoKey) \in Whos
        BY <1>3, <2>2, <2>5, AsUserFacts
      <3> QED BY <1>2, <1>3, <1>4, <2>1, <2>5, <3>1, AdmitShape DEF Identifies
    <2>6. CASE /\ c.by = "key" /\ held[c.id] = c.asker /\ Enabled(c.asker)
               /\ Admit(p, AsUser(c.asker, c.id))
      <3>1. AsUser(c.asker, c.id) \in Whos
        BY <1>3, <2>2, <2>6, AsUserFacts DEF Enabled
      <3> QED BY <1>2, <1>3, <1>4, <2>1, <2>6, <3>1, AdmitShape DEF Identifies
    <2> QED BY <2>3, <2>4, <2>5, <2>6
  <1>7. CASE GetUserByAccessKey(p)
    <2>1. at[p] = "legacy" /\ c.by = "key" /\ c.op.do # "Logout"
      BY <1>2, <1>3, <1>7, CallKinds, S3Kinds, AdminKinds DEF GetUserByAccessKey, Stage, S3Dos, RootDos
    <2>2. c.asker \in Names /\ c.id \in Keys \cup {NoKey}
      BY <1>2, <2>1, CallKinds
    <2>3. CASE Idle(p)
      BY <1>3, <1>4, <2>3, IdleShape DEF Identifies
    <2>4. CASE InRecord(c.asker, c.id) /\ Verified(p, AsUser(c.asker, c.id))
      <3>1. AsUser(c.asker, c.id) \in Whos
        BY <1>3, <2>2, <2>4, AsUserFacts DEF InRecord
      <3>2. Idle(p) \/ Admit(p, AsUser(c.asker, c.id))
        BY <2>4 DEF Verified
      <3> QED BY <1>2, <1>3, <1>4, <2>1, <2>4, <3>1, <3>2, IdleShape, AdmitShape DEF Identifies
    <2> QED BY <1>7, <2>3, <2>4 DEF GetUserByAccessKey
  <1>8. CASE GetSession(p)
    <2>1. at[p] = "session" /\ (Idle(p) \/ (c.id \in sessions /\ Goto(p, "tokenUser")))
      BY <1>8 DEF GetSession
    <2> QED BY <1>3, <1>4, <2>1, IdleShape, GotoShape DEF Identifies, Steps
  <1>9. CASE GetTokenUser(p) \/ GetUserByUsername(p)
    <2>1. at[p] \in {"tokenUser", "name"} /\ c.by \in {"token", "password"}
      BY <1>3, <1>9 DEF GetTokenUser, GetUserByUsername, Stage
    <2>2. c.asker \in Names /\ c.op.do # "Logout"
      BY <1>2, <1>3, <2>1, CallKinds, LoginKinds DEF Stage
    <2>3. Idle(p) \/ (Enabled(c.asker) /\ Admit(p, AsUser(c.asker, users[c.asker].key)))
      BY <1>9 DEF GetTokenUser, GetUserByUsername
    <2>4. CASE Idle(p)
      BY <1>3, <1>4, <2>4, IdleShape DEF Identifies
    <2>5. CASE Enabled(c.asker) /\ Admit(p, AsUser(c.asker, users[c.asker].key))
      <3>1. users[c.asker].key \in Keys \cup {NoKey}
        BY <1>3, <2>2, <2>5 DEF AccessTypeOK, Users, Enabled
      <3>2. AsUser(c.asker, users[c.asker].key) \in Whos
        BY <1>3, <2>2, <2>5, <3>1, AsUserFacts DEF Enabled
      <3> QED BY <1>2, <1>3, <1>4, <2>1, <2>2, <2>5, <3>1, <3>2, AdmitShape DEF Identifies
    <2> QED BY <2>3, <2>4, <2>5
  <1> QED BY <1>4, <1>5, <1>6, <1>7, <1>8, <1>9 DEF Authenticate

LEMMA SaidFacts ==
    ASSUME NEW doc, NEW p
    PROVE  Said(doc, p).allowed \in BOOLEAN /\ Said(doc, p).denied \in BOOLEAN
  BY DEF Said, evaluatePolicyStatements

LEMMA JudgeShape ==
    ASSUME AccessInv, NEW p \in Procs, Authorize(p)
    PROVE  Judges(p) /\ Progress' /\ Watch /\ UNCHANGED <<tables, outside, writes>>
  <1>1. Progress
    BY DEF AccessInv
  <1>2. Watch /\ UNCHANGED <<tables, outside, writes>>
    BY DEF Authorize, CheckPolicy, IsAllowed, EvaluateIAMPolicy, EvaluateBucketPolicy, Answer,
           CheckTargetUser, CheckOwnership, Keep
  <1>3. CASE CheckPolicy(p)
    <2>1. \/ owner \notin {Absent, ""} /\ owner = who[p].name /\ Decide(p, TRUE)
          \/ (owner \in {Absent, ""} \/ owner # who[p].name) /\ Goto(p, "policies")
      BY <1>3 DEF CheckPolicy
    <2>2. at[p] = "owner"
      BY <1>3 DEF CheckPolicy
    <2> QED BY <1>1, <1>2, <2>1, <2>2, DecideShape, GotoShape DEF Judges, Steps
  <1>4. CASE EvaluateIAMPolicy(p)
    <2> DEFINE said == Said(iam[Head(eval[p].todo)], p)
               e == [todo |-> Tail(eval[p].todo), allowed |-> eval[p].allowed \/ said.allowed,
                     denied |-> eval[p].denied \/ said.denied]
    <2>1. /\ at[p] = "policies" /\ eval[p].todo # <<>>
          /\ eval' = [eval EXCEPT ![p] = e] /\ at' = at /\ call' = call /\ who' = who
      BY <1>4 DEF EvaluateIAMPolicy, Keep
    <2>2. eval[p] \in Evals
      BY <1>1 DEF Progress
    <2>3. e \in Evals
      BY <2>1, <2>2, SaidFacts DEF Evals
    <2>4. /\ e.todo = Tail(eval[p].todo) /\ e.allowed = (eval[p].allowed \/ said.allowed)
          /\ e.denied = (eval[p].denied \/ said.denied)
      OBVIOUS
    <2>5. said = Said(iam[Head(eval[p].todo)], p)
      OBVIOUS
    <2> HIDE DEF said, e
    <2>6. eval'[p] = e /\ Alone(p) /\ Progress'
      BY <1>1, <2>1, <2>3 DEF Progress, Alone
    <2> QED BY <1>2, <2>1, <2>4, <2>5, <2>6 DEF Judges
  <1>5. CASE EvaluateBucketPolicy(p)
    <2> DEFINE said == Said(policy, p)
               allowed == ~(eval[p].denied \/ said.denied) /\ (eval[p].allowed \/ said.allowed)
    <2>1. at[p] = "policies" /\ eval[p].todo = <<>> /\ Decide(p, allowed)
      BY <1>5 DEF EvaluateBucketPolicy
    <2>2. allowed \in BOOLEAN
      OBVIOUS
    <2>3. /\ at'[p] = IF allowed THEN "act" ELSE "denied"
          /\ call'[p] = call[p] /\ who'[p] = who[p] /\ Alone(p) /\ Progress'
      <3> HIDE DEF allowed
      <3> QED BY <1>1, <2>1, <2>2, DecideShape
    <2> QED BY <1>2, <2>1, <2>3 DEF Judges
  <1>6. CASE Answer(p)
    BY <1>1, <1>2, <1>6, IdleShape DEF Answer, Judges
  <1>7. CASE CheckTargetUser(p)
    <2>1. /\ at[p] = "target"
          /\ \/ Idle(p)
             \/ (call[p].op.target = who[p].name \/ who[p].isRoot) /\ Goto(p, "act")
      BY <1>7 DEF CheckTargetUser
    <2> QED BY <1>1, <1>2, <2>1, IdleShape, GotoShape DEF Judges, Steps
  <1>8. CASE CheckOwnership(p)
    <2>1. /\ at[p] = "list"
          /\ \/ Idle(p)
             \/ /\ accounts[call[p].op.key] # Absent /\ accounts[call[p].op.key].parent = who[p].name
                /\ Goto(p, "act")
      BY <1>8 DEF CheckOwnership
    <2> QED BY <1>1, <1>2, <2>1, IdleShape, GotoShape DEF Judges, Steps
  <1> QED BY <1>2, <1>3, <1>4, <1>5, <1>6, <1>7, <1>8 DEF Authorize, IsAllowed

Begin(p) == BeginUnsigned(p) \/ BeginSigned(p) \/ BeginWithToken(p) \/ BeginLogin(p)

\* What clients send is a call, and what it names anew is fresh.
LEMMA SentOps ==
    /\ \A op \in S3Ops : Call("s3", "nothing", "", Anonymous.name, op) \in Sent
    /\ \A k \in Keys \cup {NoKey}, n \in Names :
          /\ \A op \in S3Ops : Call("s3", "key", k, n, op) \in Sent
          /\ \A op \in AdminOps : Call("admin", "key", k, n, op) \in Sent
    /\ \A k \in Keys, n \in Names :
          \A op \in LoginRequests : Call("login", "pair", k, n, op) \in Sent
    /\ \A s \in SessionIds, n \in Names :
          /\ \A op \in AdminOps : Call("admin", "token", s, n, op) \in Sent
          /\ \A op \in ApiRequests : Call("api", "token", s, n, op) \in Sent
    /\ \A n \in Names : \A op \in LoginRequests : Call("login", "password", n, n, op) \in Sent
  <1>1. \A op \in S3Ops : Call("s3", "nothing", "", Anonymous.name, op) \in Unsigned
    BY DEF Call, Unsigned
  <1>2. \A k \in Keys \cup {NoKey}, n \in Names :
          /\ \A op \in S3Ops : Call("s3", "key", k, n, op) \in Signed
          /\ \A op \in AdminOps : Call("admin", "key", k, n, op) \in Signed
    BY DEF Call, Signed
  <1>5. \A k \in Keys, n \in Names :
          \A op \in LoginRequests : Call("login", "pair", k, n, op) \in LoggingIn
    BY DEF Call, LoggingIn
  <1>3. \A s \in SessionIds, n \in Names :
          /\ \A op \in AdminOps : Call("admin", "token", s, n, op) \in WithToken
          /\ \A op \in ApiRequests : Call("api", "token", s, n, op) \in WithToken
    BY DEF Call, WithToken
  <1>4. \A n \in Names : \A op \in LoginRequests : Call("login", "password", n, n, op) \in LoggingIn
    BY DEF Call, LoggingIn
  <1> QED BY <1>1, <1>2, <1>3, <1>4, <1>5 DEF Sent

LEMMA CallFields ==
    ASSUME NEW r, NEW b, NEW i, NEW n, NEW op
    PROVE  /\ Call(r, b, i, n, op).route = r /\ Call(r, b, i, n, op).by = b
           /\ Call(r, b, i, n, op).id = i /\ Call(r, b, i, n, op).asker = n
           /\ Call(r, b, i, n, op).op = op
  BY DEF Call

LEMMA FreshOps ==
    /\ \A op \in ApiOps : /\ op \in ApiRequests
                          /\ "id" \in DOMAIN op => held[op.id] = NoAsker /\ op.id \notin InUse
    /\ \A op \in LoginOps : op \in LoginRequests /\ held[op.id] = NoAsker /\ op.id \notin InUse
  <1>1. Fresh(Keys) \subseteq Keys /\ Fresh(SessionIds) \subseteq SessionIds
        /\ \A i \in Fresh(Keys) \cup Fresh(SessionIds) : held[i] = NoAsker /\ i \notin InUse
    BY DEF Fresh
  <1> DEFINE Creates == [do : {"CreateServiceAccount"}, target : Targets, id : Fresh(Keys), expires : BOOLEAN]
             Rest == [do : {"DeleteServiceAccount"}, key : Keys]
                     \cup [do : {"ToggleServiceAccountStatus"}, key : Keys, disabled : BOOLEAN]
                     \cup [do : {"Logout"}]
  <1>2. ApiOps = Creates \cup Rest
    BY DEF ApiOps
  <1>3. \A op \in Creates : op \in ApiRequests /\ op.id \in Fresh(Keys)
    BY <1>1 DEF ApiRequests
  <1>4. \A op \in Rest : op \in ApiRequests /\ "id" \notin DOMAIN op
    BY DEF ApiRequests
  <1>5. \A op \in LoginOps : op \in LoginRequests /\ op.id \in Fresh(SessionIds)
    BY <1>1 DEF LoginOps, LoginRequests
  <1> QED BY <1>1, <1>2, <1>3, <1>4, <1>5

LEMMA ComesShape ==
    ASSUME AccessInv, NEW p \in Procs, NEW c \in Sent, NEW w \in Whos, NEW s \in Steps,
           Arrive(p, c, w, s),
           c.by = "nothing" => s = "owner" /\ w = Anonymous /\ c.op.do # "CreateBucket",
           c.by # "nothing" => w = Nobody,
           c.by \in {"key", "pair"} => s = "account",
           c.by = "pair" => held[c.id] = c.asker,
           c.by = "token" => s = IF c.op.do = "Logout" THEN "act" ELSE "session",
           c.by = "password" => s = "name",
           "id" \in DOMAIN c.op => held[c.op.id] = NoAsker /\ c.op.id \notin InUse
    PROVE  Comes(p, c) /\ Progress' /\ Watch /\ UNCHANGED <<tables, outside>> /\ writes' \in 0..MaxWrites
  <1>1. Progress /\ AccessTypeOK
    BY DEF AccessInv
  <1>2. /\ at[p] = "idle" /\ at'[p] = s /\ call'[p] = c /\ who'[p] = w /\ eval'[p] = eval[p]
        /\ Alone(p) /\ Progress'
    BY <1>1, ArriveShape
  <1>3. Comes(p, c)
    BY <1>2 DEF Comes
  <1>4. /\ Watch /\ UNCHANGED <<eval, tables, outside>> /\ writes' \in {writes, writes + 1}
        /\ (writes' = writes \/ writes < MaxWrites)
    BY DEF Arrive, Keep
  <1>5. writes \in 0..MaxWrites
    BY <1>1 DEF AccessTypeOK
  <1>6. writes' \in 0..MaxWrites
    BY <1>4, <1>5, BoundAssumption
  <1> QED BY <1>2, <1>3, <1>4, <1>6

LEMMA BeginShape ==
    ASSUME AccessInv, NEW p \in Procs, Begin(p)
    PROVE  /\ \E c \in Sent : Comes(p, c)
           /\ Progress' /\ Watch /\ UNCHANGED <<tables, outside>> /\ writes' \in 0..MaxWrites
  <1>1. \A c \in Keys \cup SessionIds : held[c] # NoAsker => held[c] \in Names
    BY DEF AccessInv, AccessTypeOK
  <1>2. Nobody \in Whos /\ Anonymous \in Whos /\ {"owner", "account", "session", "act", "name"} \subseteq Steps
    BY WhoFacts DEF Steps
  <1>4. CASE BeginUnsigned(p)
    <2>1. PICK op \in S3Ops : op.do # "CreateBucket" /\
            Arrive(p, Call("s3", "nothing", "", Anonymous.name, op), Anonymous, "owner")
      BY <1>4 DEF BeginUnsigned
    <2> DEFINE c == Call("s3", "nothing", "", Anonymous.name, op)
    <2>2. c \in Sent
      BY SentOps
    <2>3. c.by = "nothing" /\ c.op = op
      BY DEF Call
    <2>4. Arrive(p, c, Anonymous, "owner")
      BY <2>1
    <2>5. "id" \notin DOMAIN op
      BY S3Kinds
    <2> HIDE DEF c
    <2> QED BY <1>2, <2>1, <2>2, <2>3, <2>4, <2>5, ComesShape
  <1>5. CASE BeginSigned(p)
    <2>1. PICK n \in Names, k \in Keys \cup {NoKey} :
            \/ \E op \in S3Ops : Arrive(p, Call("s3", "key", k, n, op), Nobody, "account")
            \/ \E op \in AdminOps : Arrive(p, Call("admin", "key", k, n, op), Nobody, "account")
      BY <1>5, RecordKeysAssumption DEF BeginSigned
    <2>3. ASSUME NEW op, NEW r, (op \in S3Ops /\ r = "s3") \/ (op \in AdminOps /\ r = "admin"),
                 Arrive(p, Call(r, "key", k, n, op), Nobody, "account")
          PROVE  \E c \in Sent : Comes(p, c) /\ Arrive(p, c, Nobody, "account") /\ c.by = "key"
      <3> DEFINE c == Call(r, "key", k, n, op)
      <3>1. c \in Sent
        BY <2>3, SentOps
      <3>2. c.by = "key" /\ c.id = k /\ c.asker = n /\ c.op = op
        BY CallFields
      <3>3. "id" \notin DOMAIN op
        BY <2>3, S3Kinds, AdminKinds
      <3>4. Arrive(p, c, Nobody, "account")
        BY <2>3
      <3> HIDE DEF c
      <3> QED BY <1>2, <3>1, <3>2, <3>3, <3>4, ComesShape
    <2>4. PICK c \in Sent : Comes(p, c) /\ Arrive(p, c, Nobody, "account") /\ c.by = "key"
      BY <2>1, <2>3
    <2>5. "id" \in DOMAIN c.op => held[c.op.id] = NoAsker /\ c.op.id \notin InUse
      BY <2>4 DEF Comes
    <2> QED BY <1>2, <2>4, <2>5, ComesShape
  <1>6. CASE BeginWithToken(p)
    <2>1. PICK s \in SessionIds : /\ held[s] # NoAsker
            /\ \/ \E op \in AdminOps : Arrive(p, Call("admin", "token", s, held[s], op), Nobody, "session")
               \/ \E op \in ApiOps : Arrive(p, Call("api", "token", s, held[s], op), Nobody,
                                            IF op.do = "Logout" THEN "act" ELSE "session")
      BY <1>6 DEF BeginWithToken
    <2>2. held[s] \in Names
      BY <1>1, <2>1
    <2>3. ASSUME NEW op, NEW r, NEW t,
                 (op \in AdminOps /\ r = "admin") \/ (op \in ApiOps /\ r = "api"),
                 t = IF op.do = "Logout" THEN "act" ELSE "session",
                 Arrive(p, Call(r, "token", s, held[s], op), Nobody, t)
          PROVE  \E c \in Sent, x \in {"act", "session"} :
                    Comes(p, c) /\ Arrive(p, c, Nobody, x) /\ c.by = "token" 
      <3> DEFINE c == Call(r, "token", s, held[s], op)
      <3>1. c \in Sent
        BY <2>2, <2>3, SentOps, FreshOps
      <3>2. c.by = "token" /\ c.op = op
        BY CallFields
      <3>3. "id" \in DOMAIN op => held[op.id] = NoAsker /\ op.id \notin InUse
        BY <2>3, FreshOps, AdminKinds
      <3>4. Arrive(p, c, Nobody, t) /\ t \in {"act", "session"}
        BY <2>3
      <3> HIDE DEF c
      <3> QED BY <1>2, <2>3, <3>1, <3>2, <3>3, <3>4, ComesShape
    <2>4. \A op \in AdminOps : op.do # "Logout"
      BY AdminKinds DEF RootDos
    <2>5. PICK c \in Sent, x \in {"act", "session"} : Comes(p, c) /\ Arrive(p, c, Nobody, x) /\ c.by = "token"
      <3>1. CASE \E op \in AdminOps : Arrive(p, Call("admin", "token", s, held[s], op), Nobody, "session")
        BY <2>3, <2>4, <3>1
      <3>2. CASE \E op \in ApiOps : Arrive(p, Call("api", "token", s, held[s], op), Nobody,
                                           IF op.do = "Logout" THEN "act" ELSE "session")
        BY <2>3, <3>2
      <3> QED BY <2>1, <3>1, <3>2
    <2>6. /\ x = (IF c.op.do = "Logout" THEN "act" ELSE "session")
          /\ "id" \in DOMAIN c.op => held[c.op.id] = NoAsker /\ c.op.id \notin InUse
      <3>1. at'[p] = x
        BY <1>2, <2>5, ArriveShape DEF AccessInv
      <3> QED BY <2>5, <3>1 DEF Comes
    <2> QED BY <1>2, <2>5, <2>6, ComesShape
  <1>7. CASE BeginLogin(p)
    <2>1. PICK op \in LoginOps :
            \/ \E n \in Names : Arrive(p, Call("login", "password", n, n, op), Nobody, "name")
            \/ \E k \in Keys : held[k] # NoAsker /\ Arrive(p, Call("login", "pair", k, held[k], op), Nobody, "account")
      BY <1>7 DEF BeginLogin
    <2>2. op \in LoginRequests /\ held[op.id] = NoAsker /\ op.id \notin InUse
      BY FreshOps
    <2>3. CASE \E n \in Names : Arrive(p, Call("login", "password", n, n, op), Nobody, "name")
      <3>1. PICK n \in Names : Arrive(p, Call("login", "password", n, n, op), Nobody, "name")
        BY <2>3
      <3> DEFINE c == Call("login", "password", n, n, op)
      <3>2. c \in Sent
        BY <2>2, SentOps
      <3>3. c.by = "password" /\ c.op = op
        BY CallFields
      <3>4. Arrive(p, c, Nobody, "name")
        BY <3>1
      <3> HIDE DEF c
      <3> QED BY <1>2, <2>2, <3>2, <3>3, <3>4, ComesShape
    <2>4. CASE \E k \in Keys : held[k] # NoAsker /\ Arrive(p, Call("login", "pair", k, held[k], op), Nobody, "account")
      <3>1. PICK k \in Keys : held[k] # NoAsker /\ Arrive(p, Call("login", "pair", k, held[k], op), Nobody, "account")
        BY <2>4
      <3> DEFINE c == Call("login", "pair", k, held[k], op)
      <3>2. c \in Sent
        BY <1>1, <2>2, <3>1, SentOps
      <3>3. c.by = "pair" /\ c.op = op /\ c.id = k /\ c.asker = held[k]
        BY CallFields
      <3>4. Arrive(p, c, Nobody, "account")
        BY <3>1
      <3> HIDE DEF c
      <3> QED BY <1>2, <2>2, <3>2, <3>3, <3>4, ComesShape
    <2> QED BY <2>1, <2>3, <2>4
  <1> QED BY <1>4, <1>5, <1>6, <1>7 DEF Begin

-----------------------------------------------------------------------------
(***************************************************************************)
(* What they do.                                                           *)
(***************************************************************************)
UserTable == [Names -> Users \cup {Absent}]
AccountTable == [Keys -> Accounts \cup {Absent}]

LEMMA TableFacts ==
    ASSUME NEW S, NEW R, NEW table \in [S -> R \cup {Absent}], NEW i \in S, NEW rec,
           rec \in R
    PROVE  /\ Filled(table, i, rec) \in [S -> R \cup {Absent}]
           /\ Replaced(table, i, rec) \in [S -> R \cup {Absent}]
           /\ Without(table, i) \in [S -> R \cup {Absent}]
  <1>1. CASE table[i] = Absent
    <2>1. Without(table, i) \in [S -> R \cup {Absent}]
      BY DEF Without
    <2> QED BY <1>1, <2>1 DEF Filled, Replaced
  <1>2. CASE table[i] # Absent
    <2>1. Without(table, i) \in [S -> R \cup {Absent}]
      BY DEF Without
    <2> QED BY <1>2, <2>1 DEF Filled, Replaced
  <1> QED BY <1>1, <1>2

LEMMA ConfiguredRecords == RootRecord \in Users /\ RootAccount \in Accounts
  <1>1. <<>> \in Seq(PolicyNames)
    OBVIOUS
  <1> QED BY <1>1, RootAssumption DEF RootRecord, RootAccount, Users, Accounts

NewAccount(op) ==
    [parent |-> op.target, disabled |-> FALSE, expiry |-> IF op.expires THEN "coming" ELSE "never"]

\* An operation, told by what it does to each table.
Operates(p) ==
    LET op == call[p].op
    IN  /\ at[p] \in {"act", "open", "issue"}
        /\ Ends(p) \/ (at[p] = "open" /\ Moves(p, "issue"))
        /\ users' = users \/ (at[p] = "act" /\ op.do \in {"CreateUser", "UpdateUser", "PutUserPolicies", "DeleteUser"})
        /\ iam' = iam \/ (at[p] = "act" /\ op.do \in {"PutIAMPolicy", "DeleteIAMPolicy"})
        /\ \/ sessions' \subseteq sessions
           \/ at[p] = "open" /\ sessions' = sessions \cup {op.id}
        /\ \/ accounts' = accounts /\ held' = held
           \/ /\ at[p] = "act" /\ op.do = "CreateServiceAccount"
              /\ accounts' = Filled(accounts, op.id, NewAccount(op))
              /\ held' = [held EXCEPT ![op.id] = op.target]
           \/ /\ at[p] = "act" /\ op.do = "DeleteServiceAccount"
              /\ accounts' = Without(accounts, op.key) /\ held' = held
           \/ /\ at[p] = "act" /\ op.do = "ToggleServiceAccountStatus"
              /\ accounts' = Replaced(accounts, op.key, [accounts[op.key] EXCEPT !.disabled = op.disabled])
              /\ held' = held
           \/ /\ at[p] = "issue" /\ accounts' = accounts
              /\ held' = [held EXCEPT ![op.id] = call[p].asker]

TablesTyped ==
    /\ users \in UserTable /\ accounts \in AccountTable /\ sessions \subseteq SessionIds
    /\ iam \in [PolicyNames -> Docs \cup {Absent}]
    /\ owner \in Names \cup {"", Absent} /\ policy \in Docs \cup {Absent}

LEMMA OperateTables ==
    ASSUME AccessInv, NEW p \in Procs, Operate(p)
    PROVE  TablesTyped' /\ Progress' /\ Watch /\ UNCHANGED <<dead, writes>>
  <1> DEFINE c == call[p]
             op == call[p].op
  <1>1. Progress /\ AccessTypeOK /\ TablesTyped
    BY DEF AccessInv, AccessTypeOK, TablesTyped, UserTable, AccountTable
  <1>2. c \in Calls
    BY <1>1 DEF Progress
  <1>3. Targets \subseteq Names /\ Bodies \subseteq Users /\ PolicyLists \subseteq Seq(PolicyNames)
    BY InputsAssumption
  <1>4. Watch /\ UNCHANGED <<dead, writes>>
    BY DEF Operate, Keep, outside, CreateUser, UpdateUser, PutUserPolicies, DeleteUser, PutIAMPolicy, DeleteIAMPolicy,
           PutBucketPolicy, DeleteBucketPolicy, CreateBucket, DeleteBucket, CreateServiceAccount,
           DeleteServiceAccount, ToggleServiceAccountStatus, CreateSession, GenerateToken, Logout
  <1>5. Progress'
    <2>1. Idle(p) \/ Goto(p, "issue")
      BY DEF Operate, Act, CreateUser, UpdateUser, PutUserPolicies, DeleteUser, PutIAMPolicy, DeleteIAMPolicy,
           PutBucketPolicy, DeleteBucketPolicy, CreateBucket, DeleteBucket, CreateServiceAccount,
           DeleteServiceAccount, ToggleServiceAccountStatus, CreateSession, GenerateToken, Logout
    <2> QED BY <1>1, <2>1, IdleShape, GotoShape DEF Steps
  <1>6. CASE CreateUser(p) \/ UpdateUser(p)
    <2>1. op.name \in Names /\ op.body \in Users
      BY <1>2, <1>3, <1>6, OpKinds DEF CreateUser, UpdateUser, Act
    <2>2. users' \in UserTable
      <3> HIDE DEF op
      <3>1. users' = Filled(users, op.name, op.body) \/ users' = Replaced(users, op.name, op.body)
        BY <1>6 DEF CreateUser, UpdateUser, op
      <3>2. users \in UserTable
        BY <1>1 DEF TablesTyped
      <3> QED BY <2>1, <3>1, <3>2 DEF UserTable, Filled, Replaced
    <2> QED BY <1>1, <1>4, <1>5, <1>6, <2>2 DEF CreateUser, UpdateUser, Keep, TablesTyped
  <1>7. CASE PutUserPolicies(p)
    <2>1. op.name \in Names /\ op.list \in Seq(PolicyNames)
      BY <1>2, <1>3, <1>7, OpKinds DEF PutUserPolicies, Act
    <2>2. users' \in UserTable
      <3> DEFINE rec == [users[op.name] EXCEPT !.policies = op.list]
      <3>1. users' = Replaced(users, op.name, rec)
        BY <1>7 DEF PutUserPolicies
      <3>2. users[op.name] \in Users => rec \in Users
        BY <2>1 DEF Users
      <3>3. users[op.name] \in Users \cup {Absent}
        BY <1>1, <2>1 DEF TablesTyped, UserTable
      <3> HIDE DEF op, rec
      <3>4. users[op.name] = Absent \/ rec \in Users
        BY <3>2, <3>3
      <3>5. CASE users[op.name] = Absent
        BY <1>1, <3>1, <3>5 DEF TablesTyped, Replaced
      <3>6. CASE rec \in Users
        BY <1>1, <2>1, <3>1, <3>6, TableFacts DEF TablesTyped, UserTable
      <3> QED BY <3>4, <3>5, <3>6
    <2> QED BY <1>1, <1>4, <1>5, <1>7, <2>2 DEF PutUserPolicies, Keep, TablesTyped
  <1>8. CASE DeleteUser(p)
    <2>1. op.name \in Names
      BY <1>2, <1>3, <1>8, OpKinds DEF DeleteUser, Act
    <2>2. users' \in UserTable
      BY <1>1, <1>8, <2>1 DEF DeleteUser, Without, TablesTyped, UserTable
    <2> QED BY <1>1, <1>4, <1>5, <1>8, <2>2 DEF DeleteUser, Keep, TablesTyped
  <1>9. CASE PutIAMPolicy(p) \/ DeleteIAMPolicy(p)
    <2>1. op.policy \in PolicyNames /\ (PutIAMPolicy(p) => op.doc \in Docs)
      BY <1>2, <1>9, OpKinds DEF PutIAMPolicy, DeleteIAMPolicy, Act
    <2>2. iam' \in [PolicyNames -> Docs \cup {Absent}]
      BY <1>1, <1>9, <2>1 DEF PutIAMPolicy, DeleteIAMPolicy, Without, TablesTyped
    <2> QED BY <1>1, <1>4, <1>5, <1>9, <2>2 DEF PutIAMPolicy, DeleteIAMPolicy, Keep, TablesTyped
  <1>10. CASE PutBucketPolicy(p) \/ DeleteBucketPolicy(p)
    <2>1. PutBucketPolicy(p) => op.doc \in Docs
      BY <1>2, OpKinds DEF PutBucketPolicy, Act
    <2> QED BY <1>1, <1>4, <1>5, <1>10, <2>1 DEF PutBucketPolicy, DeleteBucketPolicy, Keep, TablesTyped
  <1>11. CASE DeleteBucket(p)
    BY <1>1, <1>4, <1>5, <1>11 DEF DeleteBucket, Keep, TablesTyped
  <1>12. CASE CreateServiceAccount(p)
    <2>1. op.target \in Names /\ op.id \in Keys
      BY <1>2, <1>3, <1>12, OpKinds DEF CreateServiceAccount, Act
    <2> DEFINE rec == NewAccount(op)
    <2>2. rec \in Accounts
      BY <2>1 DEF Accounts, NewAccount
    <2>3. accounts' = Filled(accounts, op.id, rec)
      BY <1>12 DEF CreateServiceAccount, NewAccount
    <2>4. accounts' \in AccountTable
      <3> HIDE DEF op, rec
      <3> QED BY <1>1, <2>1, <2>2, <2>3, TableFacts DEF TablesTyped, AccountTable
    <2> QED BY <1>1, <1>4, <1>5, <1>12, <2>4 DEF CreateServiceAccount, Keep, TablesTyped
  <1>13. CASE DeleteServiceAccount(p)
    <2>1. op.key \in Keys
      BY <1>2, <1>13, OpKinds DEF DeleteServiceAccount, Act
    <2>2. accounts' \in AccountTable
      BY <1>1, <1>13, <2>1 DEF DeleteServiceAccount, Without, TablesTyped, AccountTable
    <2> QED BY <1>1, <1>4, <1>5, <1>13, <2>2 DEF DeleteServiceAccount, Keep, TablesTyped
  <1>14. CASE ToggleServiceAccountStatus(p)
    <2>1. op.key \in Keys /\ op.disabled \in BOOLEAN
      BY <1>2, <1>14, OpKinds DEF ToggleServiceAccountStatus, Act
    <2> DEFINE rec == [accounts[op.key] EXCEPT !.disabled = op.disabled]
    <2>2. accounts' = Replaced(accounts, op.key, rec)
      BY <1>14 DEF ToggleServiceAccountStatus
    <2>3. accounts[op.key] \in Accounts => rec \in Accounts
      BY <2>1 DEF Accounts
    <2>4. accounts[op.key] \in Accounts \cup {Absent}
      BY <1>1, <2>1 DEF TablesTyped, AccountTable
    <2>5. accounts' \in AccountTable
      <3> HIDE DEF op, rec
      <3>1. CASE accounts[op.key] = Absent
        BY <1>1, <2>2, <3>1 DEF TablesTyped, Replaced
      <3>2. CASE rec \in Accounts
        BY <1>1, <2>1, <2>2, <3>2, TableFacts DEF TablesTyped, AccountTable
      <3> QED BY <2>3, <2>4, <3>1, <3>2
    <2> QED BY <1>1, <1>4, <1>5, <1>14, <2>5 DEF ToggleServiceAccountStatus, Keep, TablesTyped
  <1>15. CASE CreateSession(p) \/ GenerateToken(p) \/ Logout(p)
    <2>1. CreateSession(p) => op.id \in SessionIds
      <3>1. CreateSession(p) => c \in Sent /\ c.route = "login"
        BY <1>1, BusySent DEF CreateSession, AccessInv, Stage
      <3> QED BY <3>1, CallKinds, LoginKinds
    <2> QED BY <1>1, <1>4, <1>5, <1>15, <2>1 DEF CreateSession, GenerateToken, Logout, Keep, TablesTyped, tables
  <1>16. CASE CreateBucket(p)
    <2>1. owner' \in Names \cup {"", Absent}
      <3>1. CASE owner = Absent /\ c.route # "admin"
        <4>1. c.route = "s3" /\ at[p] = "act" /\ c.op.do = "CreateBucket"
          BY <1>2, <1>16, <3>1, OpKinds DEF CreateBucket, Act
        <4>2. who[p].name \in Names
          BY <1>1, <4>1 DEF AccessInv, Stage
        <4> QED BY <1>16, <3>1, <4>2 DEF CreateBucket
      <3> QED BY <1>1, <1>16, <3>1 DEF CreateBucket, TablesTyped
    <2> QED BY <1>1, <1>4, <1>5, <1>16, <2>1 DEF CreateBucket, Keep, TablesTyped
  <1> QED BY <1>6, <1>7, <1>8, <1>9, <1>10, <1>11, <1>12, <1>13, <1>14, <1>15, <1>16 DEF Operate

\* What a key in a client's hands was made for never changes.
HeldGrows == \A c \in Keys \cup SessionIds : held[c] # NoAsker => held'[c] = held[c]

Carries(p) == at[p] # "idle" /\ "id" \in DOMAIN call[p].op

LEMMA OperateShape ==
    ASSUME AccessInv, NEW p \in Procs, Operate(p)
    PROVE  /\ Operates(p) /\ TablesTyped' /\ Progress' /\ Watch /\ UNCHANGED <<dead, writes>>
  <1> DEFINE op == call[p].op
  <1> SUFFICES Operates(p)
    BY OperateTables
  <1>1. Progress /\ AccessTypeOK
    BY DEF AccessInv
  <1>2. Ends(p) \/ (at[p] = "open" /\ Moves(p, "issue"))
    <2>1. Idle(p) \/ (at[p] = "open" /\ Goto(p, "issue"))
      BY DEF Operate, Act, CreateUser, UpdateUser, PutUserPolicies, DeleteUser, PutIAMPolicy, DeleteIAMPolicy,
           PutBucketPolicy, DeleteBucketPolicy, CreateBucket, DeleteBucket, CreateServiceAccount,
           DeleteServiceAccount, ToggleServiceAccountStatus, CreateSession, GenerateToken, Logout
    <2> QED BY <1>1, <2>1, IdleShape, GotoShape DEF Steps
  <1>3. CASE CreateUser(p) \/ UpdateUser(p) \/ PutUserPolicies(p) \/ DeleteUser(p)
    BY <1>2, <1>3 DEF Operates, Act, CreateUser, UpdateUser, PutUserPolicies, DeleteUser, Keep, outside
  <1>4. CASE PutIAMPolicy(p) \/ DeleteIAMPolicy(p) \/ PutBucketPolicy(p) \/ DeleteBucketPolicy(p)
             \/ CreateBucket(p) \/ DeleteBucket(p)
    BY <1>2, <1>4 DEF Operates, Act, PutIAMPolicy, DeleteIAMPolicy, PutBucketPolicy, DeleteBucketPolicy,
       CreateBucket, DeleteBucket, Keep, outside
  <1>5. CASE CreateServiceAccount(p) \/ DeleteServiceAccount(p) \/ ToggleServiceAccountStatus(p)
    BY <1>2, <1>5 DEF Operates, Act, CreateServiceAccount, DeleteServiceAccount,
       ToggleServiceAccountStatus, NewAccount, Keep, outside
  <1>6. CASE CreateSession(p) \/ GenerateToken(p) \/ Logout(p)
    BY <1>2, <1>6 DEF Operates, Act, CreateSession, GenerateToken, Logout, Keep, outside, tables
  <1> QED BY <1>3, <1>4, <1>5, <1>6 DEF Operate

-----------------------------------------------------------------------------
(***************************************************************************)
(* The invariant holds.                                                    *)
(***************************************************************************)
\* Only an id that p was given to hand out changes hands, and with that p ends.
GivesOut(p) ==
    \/ held' = held
    \/ /\ at'[p] = "idle" /\ Carries(p)
       /\ \A c \in Keys \cup SessionIds : c # call[p].op.id => held'[c] = held[c]

AccountsHeld == \A k \in Keys : accounts[k] # Absent => accounts[k].parent = held[k]

LEMMA IssueKinds ==
    ASSUME AccessInv, NEW p \in Procs, at[p] \in {"open", "issue"}
    PROVE  /\ call[p].asker \in Names /\ call[p].op.id \in SessionIds
           /\ "id" \in DOMAIN call[p].op /\ held[call[p].op.id] = NoAsker
  <1>1. call[p] \in Sent
    BY BusySent
  <1>2. call[p].route = "login"
    BY DEF AccessInv, Stage
  <1> QED BY <1>1, <1>2, CallKinds, LoginKinds DEF AccessInv, GivenOnce

LEMMA OperateHeld ==
    ASSUME AccessInv, NEW p \in Procs, Operates(p)
    PROVE  /\ held' \in [Keys \cup SessionIds -> Names \cup {NoAsker}]
           /\ HeldGrows /\ GivesOut(p) /\ AccountsHeld'
  <1> DEFINE c == call[p]
             op == call[p].op
  <1>1. /\ held \in [Keys \cup SessionIds -> Names \cup {NoAsker}] /\ accounts \in AccountTable
        /\ AccountsHeld /\ c \in Calls
    BY DEF AccessInv, AccessTypeOK, AccountTable, AccountsHeld, GivenOnce, Progress
  <1>2. NoAsker \notin Names
    BY NamesAssumption
  <1>3. CASE accounts' = accounts /\ held' = held
    BY <1>1, <1>3 DEF HeldGrows, GivesOut, AccountsHeld
  <1>4. CASE /\ at[p] = "act" /\ op.do = "CreateServiceAccount"
             /\ accounts' = Filled(accounts, op.id, NewAccount(op))
             /\ held' = [held EXCEPT ![op.id] = op.target]
    <2>1. op.target \in Names /\ op.id \in Keys /\ "id" \in DOMAIN op
      BY <1>1, <1>4, OpKinds, InputsAssumption
    <2>2. Carries(p) /\ held[op.id] = NoAsker
      BY <1>4, <2>1 DEF Carries, AccessInv, GivenOnce
    <2>3. accounts[op.id] = Absent
      <3>1. accounts[op.id] # Absent => accounts[op.id].parent \in Names
        BY <1>1, <2>1 DEF AccountTable, Accounts
      <3> QED BY <1>1, <1>2, <2>1, <2>2, <3>1 DEF AccountsHeld
    <2>4. at'[p] = "idle"
      BY <1>4 DEF Operates, Ends
    <2>5. NewAccount(op).parent = op.target
      BY DEF NewAccount
    <2> DEFINE i == op.id
               n == op.target
               rec == NewAccount(op)
    <2>6. /\ i \in Keys /\ n \in Names /\ held' = [held EXCEPT ![i] = n] /\ held[i] = NoAsker
          /\ accounts' = [accounts EXCEPT ![i] = rec] /\ rec.parent = n
          /\ at'[p] = "idle" /\ Carries(p) /\ i = call[p].op.id
      BY <1>4, <2>1, <2>2, <2>3, <2>4, <2>5 DEF Filled
    <2> HIDE DEF i, n, rec
    <2>7. held' \in [Keys \cup SessionIds -> Names \cup {NoAsker}] /\ HeldGrows /\ GivesOut(p)
      BY <1>1, <2>6 DEF HeldGrows, GivesOut
    <2>8. AccountsHeld'
      BY <1>1, <2>6 DEF AccountsHeld, AccountTable
    <2> QED BY <2>7, <2>8
  <1>5. CASE /\ at[p] = "act" /\ op.do = "DeleteServiceAccount"
             /\ accounts' = Without(accounts, op.key) /\ held' = held
    <2>1. op.key \in Keys
      BY <1>1, <1>5, OpKinds
    <2> QED BY <1>1, <1>5, <2>1 DEF HeldGrows, GivesOut, AccountsHeld, Without, AccountTable
  <1>6. CASE /\ at[p] = "act" /\ op.do = "ToggleServiceAccountStatus"
             /\ accounts' = Replaced(accounts, op.key, [accounts[op.key] EXCEPT !.disabled = op.disabled])
             /\ held' = held
    <2>1. op.key \in Keys
      BY <1>1, <1>6, OpKinds
    <2> DEFINE k == op.key
               rec == [accounts[op.key] EXCEPT !.disabled = op.disabled]
    <2>2. accounts[k] \in Accounts => rec.parent = accounts[k].parent
      BY DEF Accounts
    <2>3. accounts[k] \in Accounts \cup {Absent}
      BY <1>1, <2>1 DEF AccountTable
    <2>4. k \in Keys /\ accounts' = Replaced(accounts, k, rec) /\ held' = held
      BY <1>6, <2>1
    <2> HIDE DEF k, rec
    <2>5. CASE accounts[k] = Absent
      BY <1>1, <2>4, <2>5 DEF HeldGrows, GivesOut, AccountsHeld, Replaced
    <2>6. CASE accounts[k] # Absent
      BY <1>1, <2>2, <2>3, <2>4, <2>6 DEF HeldGrows, GivesOut, AccountsHeld, Replaced, AccountTable
    <2> QED BY <2>5, <2>6
  <1>7. CASE /\ at[p] = "issue" /\ accounts' = accounts
             /\ held' = [held EXCEPT ![op.id] = call[p].asker]
    <2> DEFINE i == op.id
               n == call[p].asker
    <2>1. i \in SessionIds /\ n \in Names /\ held[i] = NoAsker /\ held' = [held EXCEPT ![i] = n]
          /\ Carries(p) /\ i = call[p].op.id
      BY <1>7, IssueKinds DEF Carries
    <2>2. at'[p] = "idle"
      BY <1>7 DEF Operates, Ends
    <2>4. \A k \in Keys : accounts[k] # Absent => accounts[k].parent \in Names
      BY <1>1 DEF AccountTable, Accounts
    <2> HIDE DEF i, n
    <2>3. held' \in [Keys \cup SessionIds -> Names \cup {NoAsker}] /\ HeldGrows /\ GivesOut(p)
      BY <1>1, <2>1, <2>2 DEF HeldGrows, GivesOut
    <2>5. AccountsHeld'
      BY <1>1, <1>2, <1>7, <2>3, <2>4 DEF AccountsHeld, HeldGrows
    <2> QED BY <2>3, <2>5
  <1> QED BY <1>3, <1>4, <1>5, <1>6, <1>7 DEF Operates

LEMMA NoCallFacts ==
    NoCall.by = "none" /\ NoCall.route = "none" /\ NoCall.op.do = "none" /\ NoCall.asker = NoAsker
  BY DEF NoCall

\* A request that goes on, ends or comes disturbs no other and no id.
LEMMA OthersStay ==
    ASSUME AccessInv, NEW p \in Procs, Alone(p), Progress', HeldGrows, GivesOut(p), AccountsHeld',
           \/ at'[p] = "idle"
           \/ at[p] # "idle" /\ call'[p] = call[p]
           \/ \E c \in Sent : Comes(p, c)
    PROVE  GivenOnce' /\ \A q \in Procs \ {p} : Stage(q)'
  <1>1. Progress /\ GivenOnce /\ \A q \in Procs : Stage(q)
    BY DEF AccessInv
  <1>2. held'[RootKey] = Root
    BY <1>1, RootAssumption, NamesAssumption DEF GivenOnce, HeldGrows
  <1>3. ASSUME NEW q \in Procs \ {p}
        PROVE  Stage(q)'
    <2>1. at'[q] = at[q] /\ call'[q] = call[q] /\ who'[q] = who[q]
      BY DEF Alone
    <2>2. call[q].by = "pair" => held'[call[q].id] = call[q].asker
      <3>1. CASE call[q] = NoCall
        BY <3>1, NoCallFacts
      <3>2. CASE call[q] \in Sent /\ call[q].by = "pair"
        <4>1. call[q].id \in Keys /\ call[q].asker \in Names /\ held[call[q].id] = call[q].asker
          BY <1>1, <3>2, CallKinds DEF Stage
        <4> QED BY <4>1, NamesAssumption DEF HeldGrows
      <3> QED BY <1>1, <3>1, <3>2 DEF Progress, Calls
    <2>3. at[q] = "parent" => call[q].id \in Keys /\ held'[call[q].id] # NoAsker
      BY <1>1 DEF Stage, HeldGrows
    <2> QED BY <1>1, <2>1, <2>2, <2>3 DEF Stage
  <1>4. ASSUME NEW q \in Procs, Carries(q)'
        PROVE  \/ Carries(q) /\ call'[q] = call[q] /\ (q = p => at'[p] # "idle")
               \/ q = p /\ held[call'[q].op.id] = NoAsker /\ call'[q].op.id \notin InUse
    BY <1>4 DEF Carries, Alone, Comes
  <1>5. \A q \in Procs : Carries(q) => call[q].op.id \in InUse /\ held[call[q].op.id] = NoAsker
    BY <1>1 DEF Carries, InUse, GivenOnce
  <1>6. ASSUME NEW q \in Procs, Carries(q)'
        PROVE  held'[call'[q].op.id] = NoAsker
    <2>1. held[call'[q].op.id] = NoAsker
      BY <1>4, <1>5, <1>6
    <2>2. call'[q].op.id \in Keys \cup SessionIds
      BY <1>6, OpKinds DEF Carries, Progress
    <2>3. CASE held' = held
      BY <2>1, <2>3
    <2>4. CASE /\ at'[p] = "idle" /\ Carries(p)
               /\ \A c \in Keys \cup SessionIds : c # call[p].op.id => held'[c] = held[c]
      <3>1. q # p
        BY <1>6, <2>4 DEF Carries
      <3>2. Carries(q) /\ call'[q] = call[q]
        BY <1>4, <1>6, <3>1
      <3>3. call[q].op.id # call[p].op.id
        BY <1>1, <2>4, <3>1, <3>2 DEF GivenOnce, Carries
      <3> QED BY <2>1, <2>2, <2>4, <3>2, <3>3
    <2> QED BY <2>3, <2>4 DEF GivesOut
  <1>7. ASSUME NEW q \in Procs, NEW r \in Procs, q # r, Carries(q)', Carries(r)'
        PROVE  call'[q].op.id # call'[r].op.id
    <2>1. CASE Carries(q) /\ call'[q] = call[q] /\ Carries(r) /\ call'[r] = call[r]
      BY <1>1, <1>7, <2>1 DEF GivenOnce, Carries
    <2> QED BY <1>4, <1>5, <1>7, <2>1
  <1> QED BY <1>2, <1>3, <1>6, <1>7 DEF GivenOnce, Carries, AccountsHeld

LEMMA EndsStage ==
    ASSUME NEW p \in Procs, Ends(p)
    PROVE  Stage(p)'
  <1>1. at'[p] = "idle" /\ call'[p] = NoCall /\ who'[p] = Nobody
    BY DEF Ends
  <1>2. NoCall.by = "none"
    BY NoCallFacts
  <1> QED BY <1>1, <1>2 DEF Stage

LEMMA CallNotNone ==
    ASSUME NEW c \in Sent
    PROVE  c # NoCall
  BY CallKinds, NoCallFacts

\* Entering, a request is at a step that its route and its asker lead to.
LEMMA EntersStage ==
    ASSUME AccessInv, NEW p \in Procs, at[p] # "idle", call[p].op.do # "Logout", NEW w \in Whos,
           w.name \in Names \/ w = Anonymous, held' = held, Enters(p, w)
    PROVE  Stage(p)'
  <1>1. call[p] \in Sent /\ call[p] # NoCall
    BY BusySent, CallNotNone
  <1>2. Stage(p)
    BY DEF AccessInv
  <1>3. at'[p] = Entrance(call[p], w) /\ at'[p] # "idle" /\ call'[p] = call[p] /\ who'[p] = w
    BY DEF Enters
  <1>4. at'[p] = "act" /\ call[p].op.do = "CreateBucket" => w.name \in Names
    BY <1>1, <1>3, EntranceFacts, WhoFacts
  <1>5. call[p].by = "pair" => held'[call[p].id] = call[p].asker
    BY <1>2 DEF Stage
  <1> QED BY <1>1, <1>3, <1>4, <1>5, EntranceFacts DEF Stage

\* Finding out who asks ends the request, goes on, or lets somebody in.
IsAsker(p, w) ==
    /\ w.name \in Names /\ w.name = call[p].asker /\ users[w.name] # Absent
    /\ w.policies = users[w.name].policies
    /\ call[p].route = "s3" => w.key = call[p].id

LetsIn(p, w) ==
    /\ at[p] # "idle" /\ call[p] \in Sent /\ call[p].op.do # "Logout"
    /\ w \in Whos /\ (IsAsker(p, w) \/ w = Anonymous)
    /\ Enters(p, w)

LEMMA IdentifiesOutcome ==
    ASSUME AccessInv, NEW p \in Procs, Identifies(p)
    PROVE  \/ Ends(p)
           \/ at[p] = "account" /\ Listed(call[p].id) /\ Moves(p, "parent")
           \/ at[p] = "account" /\ call[p].by = "key" /\ Moves(p, "legacy")
           \/ at[p] = "session" /\ Moves(p, "tokenUser")
           \/ \E w : LetsIn(p, w)
  <1> DEFINE c == call[p]
  <1>1. Stage(p) /\ AccessTypeOK
    BY DEF AccessInv
  <1>4. ASSUME NEW w, at[p] \in {"account", "parent", "legacy", "tokenUser", "name"}, Enters(p, w),
               \/ w = Anonymous
               \/ c.by # "nothing" /\ users[c.asker] # Absent /\ \E k \in Keys \cup {NoKey}  :
                     w = AsUser(c.asker, k) /\ (c.route = "s3" => k = c.id)
        PROVE  LetsIn(p, w)
    <2>1. c \in Sent
      BY <1>4, BusySent
    <2>2. c.op.do # "Logout"
      BY <1>1, <1>4, <2>1, CallKinds, S3Kinds, AdminKinds, LoginKinds DEF Stage, S3Dos, RootDos
    <2>3. w \in Whos /\ (IsAsker(p, w) \/ w = Anonymous)
      <3>1. CASE w = Anonymous
        BY <3>1, WhoFacts
      <3>2. CASE c.by # "nothing" /\ users[c.asker] # Absent /\ \E k \in Keys \cup {NoKey}  :
                   w = AsUser(c.asker, k) /\ (c.route = "s3" => k = c.id)
        <4>1. PICK k \in Keys \cup {NoKey} : w = AsUser(c.asker, k) /\ (c.route = "s3" => k = c.id)
          BY <3>2
        <4>2. c.asker \in Names
          BY <2>1, <3>2, CallKinds
        <4> QED BY <1>1, <3>2, <4>1, <4>2, AsUserFacts DEF IsAsker
      <3> QED BY <1>4, <3>1, <3>2
    <2> QED BY <1>4, <2>1, <2>2, <2>3 DEF LetsIn
  <1>5. /\ at[p] \in {"parent", "legacy", "tokenUser", "name"} => c.by # "nothing"
        /\ at[p] = "parent" /\ c.by = "pair" => c.route # "s3"
        /\ at[p] \in {"tokenUser", "name"} => c.route # "s3"
    BY <1>1, BusySent, CallKinds DEF Stage
  <1>6. CASE \/ at[p] \in {"account", "parent"} /\ Enters(p, Anonymous)
    BY <1>4, <1>6
  <1>7. CASE at[p] = "parent" /\ c.by = "pair" /\ users[c.asker] # Absent /\ Enters(p, AsUser(c.asker, NoKey))
    BY <1>4, <1>5, <1>7
  <1>8. CASE /\ at[p] = "parent" /\ c.by = "key" /\ held[c.id] = c.asker
             /\ Enabled(c.asker) /\ Enters(p, AsUser(c.asker, c.id))
    <2>1. c.id \in Keys \cup {NoKey}
      BY <1>8, BusySent, CallKinds
    <2> QED BY <1>4, <1>5, <1>8, <2>1 DEF Enabled
  <1>9. CASE at[p] = "legacy" /\ InRecord(c.asker, c.id) /\ Enters(p, AsUser(c.asker, c.id))
    <2>1. c.id \in Keys \cup {NoKey}
      BY <1>1, <1>9, BusySent, CallKinds DEF Stage
    <2> QED BY <1>4, <1>5, <1>9, <2>1 DEF InRecord
  <1>10. CASE at[p] \in {"tokenUser", "name"} /\ Enabled(c.asker)
              /\ \E k \in Keys \cup {NoKey} : Enters(p, AsUser(c.asker, k))
    <2>1. PICK k \in Keys \cup {NoKey} : Enters(p, AsUser(c.asker, k))
      BY <1>10
    <2> QED BY <1>4, <1>5, <1>10, <2>1 DEF Enabled
  <1> QED BY <1>6, <1>7, <1>8, <1>9, <1>10 DEF Identifies, Usable

\* The key of a listed account was made for somebody.
LEMMA AccountsNamed ==
    ASSUME AccessInv, NEW k, Listed(k)
    PROVE  k \in Keys /\ accounts[k].parent = held[k] /\ held[k] \in Names /\ held[k] # NoAsker
  <1>1. k \in Keys /\ accounts[k] \in Accounts /\ accounts[k].parent = held[k]
    BY DEF Listed, AccessInv, AccessTypeOK, GivenOnce
  <1> QED BY <1>1, NamesAssumption DEF Accounts

LEMMA IdentifiesStage ==
    ASSUME AccessInv, NEW p \in Procs, Identifies(p), held' = held
    PROVE  Stage(p)' /\ (at'[p] = "idle" \/ (at[p] # "idle" /\ call'[p] = call[p])) /\ Alone(p)
  <1>1. Stage(p)
    BY DEF AccessInv
  <1>2. CASE Ends(p)
    BY <1>2, EndsStage DEF Ends
  <1>3. CASE at[p] = "account" /\ Listed(call[p].id) /\ Moves(p, "parent")
    <2>1. call[p].id \in Keys /\ held[call[p].id] # NoAsker
      BY <1>3, AccountsNamed
    <2> QED BY <1>1, <1>3, <2>1 DEF Stage, Moves
  <1>5. CASE \/ at[p] = "account" /\ call[p].by = "key" /\ Moves(p, "legacy")
             \/ at[p] = "session" /\ Moves(p, "tokenUser")
    BY <1>1, <1>5 DEF Stage, Moves
  <1>4. CASE \E w : LetsIn(p, w)
    BY <1>4, EntersStage DEF LetsIn, IsAsker, Enters
  <1> QED BY <1>2, <1>3, <1>4, <1>5, IdentifiesOutcome

LEMMA JudgesStage ==
    ASSUME AccessInv, NEW p \in Procs, Judges(p), held' = held
    PROVE  Stage(p)' /\ (at'[p] = "idle" \/ (at[p] # "idle" /\ call'[p] = call[p])) /\ Alone(p)
  <1> DEFINE c == call[p]
  <1>1. Stage(p)
    BY DEF AccessInv
  <1>2. CASE Ends(p)
    BY <1>2, EndsStage DEF Ends
  <1>3. CASE /\ at[p] \in {"owner", "policies"} /\ at'[p] \in {"act", "policies", "denied"}
             /\ call'[p] = c /\ who'[p] = who[p] /\ Alone(p)
    BY <1>1, <1>3 DEF Stage
  <1>4. CASE at[p] \in {"target", "list"} /\ Moves(p, "act")
    BY <1>1, <1>4 DEF Stage, Moves
  <1> QED BY <1>2, <1>3, <1>4 DEF Judges, Moves

LEMMA ComesStage ==
    ASSUME AccessInv, NEW p \in Procs, NEW c \in Sent, Comes(p, c), held' = held
    PROVE  Stage(p)' /\ Alone(p)
  <1>1. c # NoCall /\ c.by \in {"nothing", "key", "token", "password", "pair"}
    BY CallNotNone, CallKinds
  <1>2. c.by = "nothing" => c.route = "s3" /\ ~Anonymous.isRoot
    BY CallKinds, WhoFacts
  <1> QED BY <1>1, <1>2 DEF Comes, Stage

LEMMA OperatesStage ==
    ASSUME AccessInv, NEW p \in Procs, Operates(p)
    PROVE  Stage(p)' /\ (at'[p] = "idle" \/ (at[p] # "idle" /\ call'[p] = call[p])) /\ Alone(p)
  <1>1. Stage(p)
    BY DEF AccessInv
  <1>2. CASE Ends(p)
    BY <1>2, EndsStage DEF Ends
  <1>3. CASE at[p] = "open" /\ Moves(p, "issue")
    <2>1. call[p].route = "login" /\ call[p] \in Sent
      BY <1>1, <1>3, BusySent DEF Stage
    <2>2. call[p].by = "pair" => held'[call[p].id] = call[p].asker
      <3>1. ASSUME call[p].by = "pair"
            PROVE  held'[call[p].id] = call[p].asker
        <4>1. call[p].id \in Keys /\ call[p].asker \in Names /\ held[call[p].id] = call[p].asker
          BY <1>1, <2>1, <3>1, CallKinds DEF Stage
        <4> QED BY <4>1, NamesAssumption, OperateHeld DEF HeldGrows
      <3> QED BY <3>1
    <2> QED BY <1>1, <1>3, <2>1, <2>2 DEF Stage, Moves
  <1> QED BY <1>2, <1>3 DEF Operates, Ends, Moves

\* The tables as the server finds and fills them.
LEMMA InitInv == Init => AccessInv
  <1> SUFFICES ASSUME Init PROVE AccessInv
    OBVIOUS
  <1>1. PICK db \in Databases :
          /\ users = Filled(db.users, Root, RootRecord)
          /\ accounts = Filled(db.accounts, RootKey, RootAccount)
          /\ iam = db.iam /\ owner = db.owner /\ policy = db.policy
          /\ held = [c \in Keys \cup SessionIds |->
                       IF c = RootKey THEN Root
                       ELSE IF c \in Keys /\ db.accounts[c] # Absent THEN db.accounts[c].parent
                       ELSE NoAsker]
    BY DEF Init
  <1>2. /\ sessions = {} /\ dead = {} /\ writes = 0
        /\ at = [p \in Procs |-> "idle"] /\ call = [p \in Procs |-> NoCall]
        /\ who = [p \in Procs |-> Nobody] /\ eval = [p \in Procs |-> NothingRead]
    BY DEF Init
  <1>3. /\ db.users \in [Names -> Users \cup {Absent}]
        /\ db.accounts \in [Keys -> Accounts \cup {Absent}]
        /\ db.iam \in [PolicyNames -> Docs \cup {Absent}]
        /\ db.owner \in Names \cup {"", Absent} /\ db.policy \in Docs \cup {Absent}
        /\ db.accounts[RootKey] # Absent => db.accounts[RootKey].parent = Root
    BY DatabasesAssumption
  <1>4. Root \in Names /\ RootKey \in Keys /\ MaxWrites \in Nat
    BY RootAssumption, BoundAssumption
  <1>5. users \in [Names -> Users \cup {Absent}] /\ accounts \in [Keys -> Accounts \cup {Absent}]
    BY <1>1, <1>3, <1>4, ConfiguredRecords DEF Filled
  <1>6. \A k \in Keys : db.accounts[k] # Absent => db.accounts[k].parent \in Names
    BY <1>3 DEF Accounts
  <1>7. held \in [Keys \cup SessionIds -> Names \cup {NoAsker}]
    BY <1>1, <1>4, <1>6
  <1>8. AccountsHeld
    <2>1. RootAccount.parent = Root
      BY DEF RootAccount
    <2>2. \A k \in Keys : k # RootKey => accounts[k] = db.accounts[k]
      BY <1>1, <1>3, <1>4 DEF Filled
    <2>3. accounts[RootKey].parent = Root \/ accounts[RootKey] = Absent
      BY <1>1, <1>3, <1>4, <2>1 DEF Filled
    <2> QED BY <1>1, <1>4, <2>2, <2>3 DEF AccountsHeld
  <1>9. Progress /\ \A p \in Procs : at[p] = "idle" /\ call[p] = NoCall /\ who[p] = Nobody
    BY <1>2, WhoFacts DEF Progress, Steps, Calls
  <1>10. AccessTypeOK
    <2>1. writes \in 0..MaxWrites
      BY <1>2, <1>4
    <2>2. \A p \in Procs : who[p].name \in Names \cup {NoAsker, Anonymous.name}
      BY <1>9, WhoFacts
    <2>3. iam \in [PolicyNames -> Docs \cup {Absent}] /\ owner \in Names \cup {"", Absent}
          /\ policy \in Docs \cup {Absent} /\ sessions \subseteq SessionIds /\ dead \subseteq SessionIds
      BY <1>1, <1>2, <1>3
    <2> QED BY <1>5, <1>7, <2>1, <2>2, <2>3 DEF AccessTypeOK
  <1>11. GivenOnce
    BY <1>1, <1>4, <1>8, <1>9 DEF GivenOnce, AccountsHeld
  <1>12. \A p \in Procs : Stage(p)
    BY <1>9, NoCallFacts DEF Stage
  <1> QED BY <1>9, <1>10, <1>11, <1>12 DEF AccessInv

\* What a request does keeps the invariant.
LEMMA RequestInv ==
    ASSUME AccessInv, NEW p \in Procs, Request(p)
    PROVE  AccessInv'
  <1>1. AccessTypeOK /\ Progress /\ AccountsHeld
    BY DEF AccessInv, GivenOnce, AccountsHeld
  <1>2. Begin(p) \/ Authenticate(p) \/ Authorize(p) \/ Operate(p)
    BY DEF Request, Begin
  <1>3. /\ Progress' /\ dead' = dead /\ writes' \in 0..MaxWrites /\ TablesTyped'
        /\ held' \in [Keys \cup SessionIds -> Names \cup {NoAsker}]
        /\ HeldGrows /\ GivesOut(p) /\ AccountsHeld' /\ Stage(p)' /\ Alone(p)
        /\ \/ at'[p] = "idle"
           \/ at[p] # "idle" /\ call'[p] = call[p]
           \/ \E c \in Sent : Comes(p, c)
    <2>1. UNCHANGED <<tables, outside>> =>
             /\ dead' = dead /\ TablesTyped' /\ held' = held /\ HeldGrows /\ GivesOut(p) /\ AccountsHeld'
             /\ held' \in [Keys \cup SessionIds -> Names \cup {NoAsker}]
      BY <1>1 DEF tables, outside, AccessTypeOK, TablesTyped, UserTable, AccountTable, HeldGrows, GivesOut, AccountsHeld
    <2>2. writes \in 0..MaxWrites
      BY <1>1 DEF AccessTypeOK
    <2>3. CASE Begin(p)
      <3>1. PICK c \in Sent : Comes(p, c)
        BY <2>3, BeginShape
      <3> QED BY <2>1, <2>3, <3>1, BeginShape, ComesStage
    <2>4. CASE Authenticate(p)
      BY <2>1, <2>2, <2>4, IdentifyShape, IdentifiesStage
    <2>5. CASE Authorize(p)
      BY <2>1, <2>2, <2>5, JudgeShape, JudgesStage
    <2>6. CASE Operate(p)
      BY <2>2, <2>6, OperateShape, OperateHeld, OperatesStage
    <2> QED BY <1>2, <2>3, <2>4, <2>5, <2>6
  <1>4. GivenOnce' /\ \A q \in Procs \ {p} : Stage(q)'
    BY <1>3, OthersStay
  <1>5. AccessTypeOK'
    <2>1. \A q \in Procs : who'[q].name \in Names \cup {NoAsker, Anonymous.name}
      BY <1>3 DEF Progress, Whos
    <2>2. dead' \subseteq SessionIds
      BY <1>1, <1>3 DEF AccessTypeOK
    <2> QED BY <1>3, <2>1, <2>2 DEF AccessTypeOK, TablesTyped, UserTable, AccountTable
  <1> QED BY <1>3, <1>4, <1>5 DEF AccessInv

\* So do time, and the end of the process.
LEMMA ClockInv ==
    ASSUME AccessInv, Clock
    PROVE  AccessInv' /\ Watch /\ UNCHANGED <<users, sessions, iam, owner, policy, held, at, call, who, eval>>
  <1>1. AccessTypeOK /\ Progress /\ GivenOnce /\ \A p \in Procs : Stage(p)
    BY DEF AccessInv
  <1>2. /\ Watch /\ UNCHANGED <<users, sessions, iam, owner, policy, held, at, call, who, eval>>
        /\ writes < MaxWrites /\ writes' = writes + 1 /\ dead' \subseteq SessionIds
    BY <1>1 DEF Clock, AccountExpires, TokenExpires, Keep, outside, progress, tables, AccessTypeOK
  <1>3. accounts' \in AccountTable /\ \A k \in Keys : accounts'[k] # Absent => accounts'[k].parent = held[k]
    <2>1. CASE accounts' = accounts
      BY <1>1, <2>1 DEF AccessTypeOK, GivenOnce, AccountTable
    <2>2. ASSUME NEW k \in Keys, AccountExpires(k)
          PROVE  accounts' \in AccountTable /\ \A j \in Keys : accounts'[j] # Absent => accounts'[j].parent = held[j]
      <3> DEFINE rec == [accounts[k] EXCEPT !.expiry = "past"]
      <3>1. accounts' = [accounts EXCEPT ![k] = rec] /\ accounts[k] # Absent
        BY <2>2 DEF AccountExpires
      <3>2. accounts[k] \in Accounts
        BY <1>1, <3>1 DEF AccessTypeOK
      <3>3. rec \in Accounts /\ rec.parent = accounts[k].parent
        BY <3>2 DEF Accounts
      <3> HIDE DEF rec
      <3> QED BY <1>1, <3>1, <3>3 DEF AccessTypeOK, GivenOnce, AccountTable
    <2>3. ASSUME NEW s \in SessionIds, TokenExpires(s)
          PROVE  accounts' = accounts
      BY <2>3 DEF TokenExpires, Keep, tables
    <2> QED BY <2>1, <2>2, <2>3 DEF Clock
  <1>4. writes' \in 0..MaxWrites
    <2>1. writes \in 0..MaxWrites
      BY <1>1 DEF AccessTypeOK
    <2> QED BY <1>2, <2>1, BoundAssumption
  <1>5. AccessTypeOK' /\ Progress'
    BY <1>1, <1>2, <1>3, <1>4 DEF AccessTypeOK, AccountTable, Progress
  <1>6. GivenOnce'
    BY <1>1, <1>2, <1>3 DEF GivenOnce
  <1>7. \A p \in Procs : Stage(p)'
    BY <1>1, <1>2 DEF Stage
  <1> QED BY <1>2, <1>5, <1>6, <1>7 DEF AccessInv

LEMMA RestartInv ==
    ASSUME AccessInv, Restart
    PROVE  AccessInv' /\ \A p \in Procs : at'[p] = "idle"
  <1>1. AccessTypeOK /\ AccountsHeld /\ GivenOnce
    BY DEF AccessInv, GivenOnce, AccountsHeld
  <1>2. /\ at' = [p \in Procs |-> "idle"] /\ call' = [p \in Procs |-> NoCall]
        /\ who' = [p \in Procs |-> Nobody] /\ eval' = [p \in Procs |-> NothingRead]
        /\ UNCHANGED <<sessions, iam, owner, policy, held>> /\ dead' \subseteq SessionIds
        /\ users' = Filled(users, Root, RootRecord) /\ accounts' = Filled(accounts, RootKey, RootAccount)
        /\ writes < MaxWrites /\ writes' = writes + 1
    BY DEF Restart, Keep
  <1>3. users' \in UserTable /\ accounts' \in AccountTable
    BY <1>1, <1>2, RootAssumption, ConfiguredRecords DEF AccessTypeOK, Filled, UserTable, AccountTable
  <1>4. AccountsHeld'
    <2>1. RootAccount.parent = Root
      BY DEF RootAccount
    <2> QED BY <1>1, <1>2, <2>1, RootAssumption DEF AccountsHeld, Filled, GivenOnce, AccessTypeOK
  <1>5. Progress' /\ \A p \in Procs : at'[p] = "idle" /\ call'[p] = NoCall /\ who'[p] = Nobody
    BY <1>2, WhoFacts DEF Progress, Steps, Calls
  <1>6. AccessTypeOK'
    <2>1. writes \in 0..MaxWrites
      BY <1>1 DEF AccessTypeOK
    <2>2. writes' \in 0..MaxWrites
      BY <1>2, <2>1, BoundAssumption
    <2>3. \A p \in Procs : who'[p].name \in Names \cup {NoAsker, Anonymous.name}
      BY <1>5, WhoFacts
    <2> QED BY <1>1, <1>2, <1>3, <2>2, <2>3 DEF AccessTypeOK, UserTable, AccountTable
  <1>7. GivenOnce'
    BY <1>1, <1>2, <1>4, <1>5 DEF GivenOnce, AccountsHeld
  <1>8. \A p \in Procs : Stage(p)'
    BY <1>5, NoCallFacts DEF Stage
  <1> QED BY <1>5, <1>6, <1>7, <1>8 DEF AccessInv

LEMMA StutterInv ==
    ASSUME AccessInv, UNCHANGED vars
    PROVE  AccessInv'
  <1>1. UNCHANGED <<users, accounts, sessions, iam, owner, policy, held, dead, at, call, who, eval, writes>>
    BY DEF vars, tables, outside, progress
  <1>2. AccessTypeOK' /\ Progress'
    BY <1>1 DEF AccessInv, AccessTypeOK, Progress
  <1>3. GivenOnce' /\ \A p \in Procs : Stage(p)'
    BY <1>1 DEF AccessInv, GivenOnce, Stage
  <1> QED BY <1>2, <1>3 DEF AccessInv

LEMMA AccessInvariant == Spec => []AccessInv
  <1>1. AccessInv /\ [Next]_vars => AccessInv'
    BY RequestInv, ClockInv, RestartInv, StutterInv DEF Next
  <1> QED BY InitInv, <1>1, PTL DEF Spec

\* Whatever the requests, in whatever order their steps come, the tables and
\* the requests in progress keep their types.
THEOREM AccessTypeCorrect == Spec => []AccessTypeOK
  <1>1. AccessInv => AccessTypeOK
    BY DEF AccessInv
  <1> QED BY AccessInvariant, <1>1, PTL

-----------------------------------------------------------------------------
(***************************************************************************)
(* What a request has read is in its history.                              *)
(***************************************************************************)
Witnessed == \A p \in Procs : at[p] # "idle" => Facts(p) \subseteq since[p].ever /\ since[p].always \subseteq Facts(p)

LEMMA WatchFacts ==
    ASSUME Watch, NEW p \in Procs, at'[p] # "idle"
    PROVE  /\ (Facts(p))' \subseteq since'[p].ever /\ since'[p].always \subseteq (Facts(p))'
           /\ at[p] # "idle" => /\ since[p].ever \subseteq since'[p].ever
                                /\ since'[p].always \subseteq since[p].always
  <1>1. since'[p] = IF at'[p] = "idle" THEN [ever |-> {}, always |-> {}]
                    ELSE IF at[p] = "idle" THEN [ever |-> (Facts(p))', always |-> (Facts(p))']
                    ELSE [ever |-> since[p].ever \cup (Facts(p))', always |-> since[p].always \cap (Facts(p))']
    BY DEF Watch
  <1> QED BY <1>1

LEMMA FactsStay ==
    ASSUME NEW p \in Procs, UNCHANGED vars
    PROVE  (Facts(p))' = Facts(p)
  <1>1. UNCHANGED <<users, accounts, sessions, iam, owner, policy, call>>
    BY DEF vars, tables, outside, progress
  <1> QED BY <1>1 DEF Facts, CredentialFacts, UserFacts, PolicyFacts, Usable, Listed, InRecord, Enabled, IsExpired

\* The facts about a credential and its user.
LEMMA CredentialRead ==
    ASSUME Witnessed, NEW p \in Procs, at[p] # "idle"
    PROVE  /\ call[p].by \in {"key", "pair"} =>
                 /\ Usable(call[p].id) /\ accounts[call[p].id].parent = call[p].asker => Read(p, <<"usable">>)
                 /\ ~Listed(call[p].id) => Read(p, <<"unlisted">>)
                 /\ InRecord(call[p].asker, call[p].id) => Read(p, <<"in record">>)
           /\ call[p].by = "token" /\ call[p].id \in sessions => Read(p, <<"session">>)
           /\ call[p].asker \in Names /\ users[call[p].asker] # Absent =>
                 /\ Read(p, <<"user">>)
                 /\ Enabled(call[p].asker) => Read(p, <<"enabled">>)
                 /\ users[call[p].asker].isRoot => Read(p, <<"root">>)
  <1> DEFINE c == call[p]
  <1>1. CredentialFacts(c) \cup UserFacts(c.asker) \subseteq since[p].ever
    BY DEF Witnessed, Facts
  <1>2. c.by \in {"key", "pair"} =>
           /\ Usable(c.id) /\ accounts[c.id].parent = c.asker => <<"usable">> \in CredentialFacts(c)
           /\ ~Listed(c.id) => <<"unlisted">> \in CredentialFacts(c)
           /\ InRecord(c.asker, c.id) => <<"in record">> \in CredentialFacts(c)
    BY DEF CredentialFacts, Holds
  <1>3. c.by = "token" /\ c.id \in sessions => <<"session">> \in CredentialFacts(c)
    BY DEF CredentialFacts, Holds
  <1>4. c.asker \in Names /\ users[c.asker] # Absent =>
           /\ <<"user">> \in UserFacts(c.asker)
           /\ Enabled(c.asker) => <<"enabled">> \in UserFacts(c.asker)
           /\ users[c.asker].isRoot => <<"root">> \in UserFacts(c.asker)
    BY DEF UserFacts, Holds
  <1> QED BY <1>1, <1>2, <1>3, <1>4 DEF Read

Asks(p) ==
    /\ Alone(p)
    /\ (\E c \in Sent : Comes(p, c)) \/ Identifies(p) \/ Judges(p) \/ Operates(p)

LEMMA NextShape ==
    ASSUME AccessInv, [Next]_vars
    PROVE  /\ AccessInv'
           /\ \/ UNCHANGED vars
              \/ /\ Watch
                 /\ \/ \E p \in Procs : Asks(p)
                    \/ UNCHANGED progress
                    \/ \A p \in Procs : at'[p] = "idle" /\ who'[p] = Nobody /\ eval'[p] = NothingRead
  <1>1. CASE UNCHANGED vars
    BY <1>1, StutterInv
  <1>2. ASSUME NEW p \in Procs, Request(p)
        PROVE  AccessInv' /\ Watch /\ Asks(p)
    <2>1. Begin(p) \/ Authenticate(p) \/ Authorize(p) \/ Operate(p)
      BY <1>2 DEF Request, Begin
    <2> QED BY <1>2, <2>1, RequestInv, BeginShape, ComesStage, IdentifyShape, IdentifiesStage, JudgeShape,
               JudgesStage, OperateShape, OperatesStage DEF Asks, Comes, tables, outside
  <1>3. CASE Clock
    BY <1>3, ClockInv DEF progress
  <1>4. CASE Restart
    <2>1. AccessInv' /\ \A p \in Procs : at'[p] = "idle"
      BY <1>4, RestartInv
    <2>2. \A p \in Procs : who'[p] = Nobody
      BY <2>1 DEF AccessInv, Stage
    <2> QED BY <1>4, <2>1, <2>2 DEF Restart, Keep
  <1> QED BY <1>1, <1>2, <1>3, <1>4 DEF Next

LEMMA WitnessedInvariant == Spec => []Witnessed
  <1>1. Init => Witnessed
    BY DEF Init, Witnessed
  <1>2. ASSUME AccessInv, Witnessed, [Next]_vars
        PROVE  Witnessed'
    <2>1. CASE UNCHANGED vars
      BY <1>2, <2>1, FactsStay DEF vars, progress, Witnessed
    <2>2. CASE Watch
      BY <2>2, WatchFacts DEF Witnessed
    <2> QED BY <1>2, <2>1, <2>2, NextShape
  <1> QED BY <1>1, <1>2, AccessInvariant, PTL DEF Spec

-----------------------------------------------------------------------------
(***************************************************************************)
(* Whoever passes as a user has shown a credential of that user's.         *)
(***************************************************************************)
LEMMA NextHeldGrows ==
    ASSUME AccessInv, [Next]_vars
    PROVE  HeldGrows
  <1>1. ASSUME NEW p \in Procs, Request(p)
        PROVE  HeldGrows
    <2>1. Begin(p) \/ Authenticate(p) \/ Authorize(p) \/ Operate(p)
      BY <1>1 DEF Request, Begin
    <2> QED BY <2>1, BeginShape, IdentifyShape, JudgeShape, OperateShape, OperateHeld DEF outside, HeldGrows
  <1> QED BY <1>1, ClockInv DEF Next, Restart, Keep, HeldGrows, vars, outside

StoodFor(p) ==
    /\ who[p].name = call[p].asker /\ call[p].by \in {"token", "password", "pair", "key"}
    /\ who[p].isRoot => Read(p, <<"root">>)
    /\ Stood(p)

Shown(p) ==
    /\ at[p] = "parent" /\ held[call[p].id] = call[p].asker => Read(p, <<"usable">>)
    /\ at[p] = "legacy" => Read(p, <<"unlisted">>)
    /\ at[p] = "tokenUser" => Read(p, <<"session">>)
    /\ who[p].name \in Names => StoodFor(p)

\* While a request goes on, what it has read stays read.
LEMMA ShownStays ==
    ASSUME AccessInv, NEW p \in Procs, Shown(p), at[p] # "idle", at'[p] # "idle", Watch, HeldGrows,
           call'[p] = call[p], who'[p] = who[p],
           at'[p] = at[p] \/ at'[p] \notin {"parent", "legacy", "tokenUser"}
    PROVE  Shown(p)'
  <1>1. \A f : Read(p, f) => Read(p, f)'
    BY WatchFacts DEF Read
  <1>2. StoodFor(p) => StoodFor(p)'
    <2>1. CASE call[p].by = "token"
      BY <1>1, <2>1 DEF StoodFor, Stood
    <2>2. CASE call[p].by = "password"
      BY <1>1, <2>2 DEF StoodFor, Stood
    <2>3. CASE call[p].by = "pair"
      BY <1>1, <2>3 DEF StoodFor, Stood
    <2>4. CASE call[p].by = "key" /\ call[p].id # NoKey
      BY <1>1, <2>4 DEF StoodFor, Stood
    <2>5. CASE call[p].by = "key" /\ call[p].id = NoKey
      BY <1>1, <2>5 DEF StoodFor, Stood
    <2> QED BY <2>1, <2>2, <2>3, <2>4, <2>5 DEF StoodFor
  <1>3. at'[p] = "parent" => at[p] = "parent" /\ held'[call[p].id] = held[call[p].id]
    BY DEF AccessInv, Stage, HeldGrows
  <1> QED BY <1>1, <1>2, <1>3 DEF Shown

LEMMA NobodyShown ==
    ASSUME NEW p \in Procs, at'[p] \notin {"parent", "legacy", "tokenUser"},
           who'[p] = Nobody \/ who'[p] = Anonymous
    PROVE  Shown(p)'
  BY WhoFacts DEF Shown

\* A request that is let in as a user.
LEMMA EntersShown ==
    ASSUME AccessInv, Witnessed, NEW p \in Procs, Shown(p), at[p] # "idle", Watch,
           NEW k \in Keys \cup {NoKey}, Enters(p, AsUser(call[p].asker, k)),
           call[p].asker \in Names, users[call[p].asker] # Absent,
           \/ at[p] = "tokenUser" /\ call[p].by = "token" /\ Enabled(call[p].asker)
           \/ at[p] = "name" /\ call[p].by = "password" /\ Enabled(call[p].asker)
           \/ at[p] = "parent" /\ call[p].by = "pair"
           \/ at[p] = "parent" /\ call[p].by = "key" /\ held[call[p].id] = call[p].asker /\ Enabled(call[p].asker)
           \/ at[p] = "legacy" /\ call[p].by = "key" /\ InRecord(call[p].asker, call[p].id)
    PROVE  Shown(p)'
  <1> DEFINE c == call[p]
             w == AsUser(c.asker, k)
  <1>1. /\ call'[p] = c /\ who'[p] = w /\ at'[p] = Entrance(c, w) /\ at'[p] # "idle"
    BY DEF Enters
  <1>2. w \in Whos /\ w.name = c.asker /\ w.isRoot = users[c.asker].isRoot
    BY AsUserFacts DEF AccessInv
  <1>3. c \in Sent /\ c.op.do # "Logout"
    <2>1. c \in Sent /\ Stage(p)
      BY BusySent DEF AccessInv
    <2> QED BY <2>1, CallKinds, S3Kinds, AdminKinds, LoginKinds DEF Stage, S3Dos, RootDos
  <1>4. at'[p] \notin {"parent", "legacy", "tokenUser"}
    BY <1>1, <1>2, <1>3, EntranceFacts
  <1>5. \A f : Read(p, f) => Read(p, f)'
    BY <1>1, WatchFacts DEF Read
  <1>6. w.isRoot => Read(p, <<"root">>)'
    BY <1>2, <1>5, CredentialRead
  <1>7. CASE at[p] = "tokenUser" /\ c.by = "token" /\ Enabled(c.asker)
    <2>1. Read(p, <<"session">>)' /\ Read(p, <<"enabled">>)'
      BY <1>5, <1>7, CredentialRead DEF Shown
    <2> QED BY <1>1, <1>2, <1>4, <1>6, <1>7, <2>1 DEF Shown, StoodFor, Stood
  <1>8. CASE at[p] = "name" /\ c.by = "password" /\ Enabled(c.asker)
    <2>1. Read(p, <<"enabled">>)'
      BY <1>5, <1>8, CredentialRead
    <2> QED BY <1>1, <1>2, <1>4, <1>6, <1>8, <2>1 DEF Shown, StoodFor, Stood
  <1>9. CASE at[p] = "parent" /\ c.by = "pair"
    <2>1. held[c.id] = c.asker
      BY <1>9 DEF AccessInv, Stage
    <2>2. Read(p, <<"usable">>)' /\ Read(p, <<"user">>)'
      BY <1>5, <1>9, <2>1, CredentialRead DEF Shown
    <2> QED BY <1>1, <1>2, <1>4, <1>6, <1>9, <2>2 DEF Shown, StoodFor, Stood
  <1>10. CASE at[p] = "parent" /\ c.by = "key" /\ held[c.id] = c.asker /\ Enabled(c.asker)
    <2>1. Read(p, <<"usable">>)' /\ Read(p, <<"enabled">>)'
      BY <1>5, <1>10, CredentialRead DEF Shown
    <2>2. c.id # NoKey
      BY <1>10, NamesAssumption DEF AccessInv, Stage
    <2> QED BY <1>1, <1>2, <1>4, <1>6, <1>10, <2>1, <2>2 DEF Shown, StoodFor, Stood
  <1>11. CASE at[p] = "legacy" /\ c.by = "key" /\ InRecord(c.asker, c.id)
    <2>1. Read(p, <<"unlisted">>)' /\ Read(p, <<"in record">>)'
      BY <1>5, <1>11, CredentialRead DEF Shown
    <2>2. Stood(p)'
      <3>1. CASE c.id = NoKey
        BY <1>1, <1>11, <2>1, <3>1 DEF Stood
      <3>2. CASE c.id # NoKey
        BY <1>1, <1>11, <2>1, <3>2 DEF Stood
      <3> QED BY <3>1, <3>2
    <2> QED BY <1>1, <1>2, <1>4, <1>6, <1>11, <2>2 DEF Shown, StoodFor
  <1> QED BY <1>7, <1>8, <1>9, <1>10, <1>11

LEMMA IdentifiesShown ==
    ASSUME AccessInv, Witnessed, NEW p \in Procs, Shown(p), Identifies(p), Watch, HeldGrows
    PROVE  Shown(p)'
  <1> DEFINE c == call[p]
  <1>1. Stage(p) /\ AccessTypeOK
    BY DEF AccessInv
  <1>2. CASE Ends(p)
    BY <1>2, NobodyShown DEF Ends
  <1>3. CASE \/ at[p] = "account" /\ Usable(c.id) /\ Moves(p, "parent")
             \/ at[p] = "account" /\ c.by = "key" /\ ~Listed(c.id) /\ Moves(p, "legacy")
             \/ at[p] = "session" /\ c.id \in sessions /\ Moves(p, "tokenUser")
    <2>1. at[p] # "idle" /\ at'[p] # "idle" /\ who'[p] = Nobody
      BY <1>1, <1>3 DEF Stage, Moves
    <2>2. \A f : Read(p, f) => Read(p, f)'
      BY <2>1, WatchFacts DEF Read
    <2>3. /\ at'[p] = "legacy" => Read(p, <<"unlisted">>)'
          /\ at'[p] = "tokenUser" => Read(p, <<"session">>)'
      BY <1>1, <1>3, <2>1, <2>2, CredentialRead DEF Stage, Moves
    <2>4. at'[p] = "parent" /\ held'[call'[p].id] = call'[p].asker => Read(p, <<"usable">>)'
      <3>1. SUFFICES ASSUME at'[p] = "parent", held'[call'[p].id] = call'[p].asker
                     PROVE  Read(p, <<"usable">>)'
        OBVIOUS
      <3>2. at[p] = "account" /\ Usable(c.id) /\ call'[p] = c
        BY <1>3, <3>1 DEF Moves
      <3>3. c.id \in Keys /\ accounts[c.id].parent = held[c.id] /\ held[c.id] # NoAsker
        BY <3>2, AccountsNamed DEF Usable
      <3>4. accounts[c.id].parent = c.asker
        BY <3>1, <3>2, <3>3 DEF HeldGrows
      <3> QED BY <1>1, <2>1, <2>2, <3>2, <3>4, CredentialRead DEF Stage
    <2> QED BY <2>1, <2>3, <2>4, WhoFacts DEF Shown
  <1>4. CASE at[p] \in {"account", "parent"} /\ c.by = "key" /\ Enters(p, Anonymous)
    <2>1. c \in Sent /\ c.op.do # "Logout"
      BY <1>4, BusySent, CallKinds, S3Kinds, AdminKinds DEF S3Dos, RootDos
    <2>2. at'[p] \notin {"parent", "legacy", "tokenUser"} /\ who'[p] = Anonymous
      BY <1>4, <2>1, EntranceFacts, WhoFacts DEF Enters
    <2> QED BY <2>2, NobodyShown
  <1>5. ASSUME NEW k \in Keys \cup {NoKey}, Enters(p, AsUser(c.asker, k)), users[c.asker] # Absent,
               \/ at[p] = "parent" /\ c.by = "pair"
               \/ at[p] = "parent" /\ c.by = "key" /\ held[c.id] = c.asker /\ Enabled(c.asker)
               \/ at[p] = "legacy" /\ InRecord(c.asker, c.id)
               \/ at[p] \in {"tokenUser", "name"} /\ Enabled(c.asker)
        PROVE  Shown(p)'
    <2>1. at[p] # "idle" /\ c \in Sent
      BY <1>5, BusySent
    <2>2. /\ at[p] = "legacy" => c.by = "key"
          /\ at[p] = "name" => c.by = "password"
          /\ at[p] = "tokenUser" => c.by = "token"
      BY <1>1 DEF Stage
    <2>3. c.asker \in Names
      BY <1>5, <2>1, <2>2, CallKinds
    <2> QED BY <1>5, <2>1, <2>2, <2>3, EntersShown
  <1>6. CASE at[p] = "parent" /\ c.by = "pair" /\ users[c.asker] # Absent /\ Enters(p, AsUser(c.asker, NoKey))
    BY <1>5, <1>6
  <1>7. CASE /\ at[p] = "parent" /\ c.by = "key" /\ held[c.id] = c.asker
             /\ Enabled(c.asker) /\ Enters(p, AsUser(c.asker, c.id))
    <2>1. c.id \in Keys \cup {NoKey}
      BY <1>7, BusySent, CallKinds
    <2> QED BY <1>5, <1>7, <2>1 DEF Enabled
  <1>8. CASE at[p] = "legacy" /\ InRecord(c.asker, c.id) /\ Enters(p, AsUser(c.asker, c.id))
    <2>1. c.id \in Keys \cup {NoKey}
      BY <1>1, <1>8, BusySent, CallKinds DEF Stage
    <2> QED BY <1>5, <1>8, <2>1 DEF InRecord
  <1>9. CASE at[p] \in {"tokenUser", "name"} /\ Enabled(c.asker)
             /\ \E k \in Keys \cup {NoKey} : Enters(p, AsUser(c.asker, k))
    BY <1>5, <1>9 DEF Enabled
  <1> QED BY <1>2, <1>3, <1>4, <1>6, <1>7, <1>8, <1>9 DEF Identifies

EveryoneShown == \A p \in Procs : Shown(p)

LEMMA ShownInvariant == Spec => []EveryoneShown
  <1>1. Init => EveryoneShown
    BY WhoFacts DEF Init, Shown, EveryoneShown
  <1>2. ASSUME AccessInv, Witnessed, EveryoneShown, [Next]_vars, NEW q \in Procs
        PROVE  Shown(q)'
    <2> USE DEF EveryoneShown
    <2>8. HeldGrows
      BY <1>2, NextHeldGrows
    <2>1. CASE UNCHANGED vars
      <3>1. /\ at' = at /\ call' = call /\ who' = who /\ since' = since /\ held' = held
        BY <2>1 DEF vars, progress, outside
      <3>2. Stood(q)' <=> Stood(q)
        BY <3>1 DEF Stood, Read
      <3> QED BY <1>2, <3>1, <3>2 DEF Shown, StoodFor, Read
    <2>2. CASE Watch /\ at[q] # "idle" /\ at'[q] = at[q] /\ call'[q] = call[q] /\ who'[q] = who[q]
      BY <1>2, <2>2, <2>8, ShownStays
    <2>3. CASE Watch /\ at[q] = "idle" /\ at'[q] = at[q] /\ call'[q] = call[q] /\ who'[q] = who[q]
      <3>1. who[q] = Nobody
        BY <1>2, <2>3 DEF AccessInv, Stage
      <3> QED BY <2>3, <3>1, NobodyShown
    <2>4. CASE Watch /\ Asks(q)
      <3>1. ASSUME NEW c \in Sent, Comes(q, c)
            PROVE  Shown(q)'
        <4>1. at'[q] \notin {"parent", "legacy", "tokenUser"} /\ (who'[q] = Nobody \/ who'[q] = Anonymous)
          BY <3>1, CallKinds DEF Comes
        <4> QED BY <4>1, NobodyShown
      <3>2. CASE Identifies(q)
        BY <1>2, <2>4, <2>8, <3>2, IdentifiesShown
      <3>3. CASE Ends(q)
        BY <3>3, NobodyShown DEF Ends
      <3>4. CASE /\ at[q] \in {"owner", "policies", "target", "list", "open"}
                 /\ at'[q] \in {"act", "policies", "denied", "issue"}
                 /\ call'[q] = call[q] /\ who'[q] = who[q]
        BY <1>2, <2>4, <2>8, <3>4, ShownStays
      <3>5. Judges(q) \/ Operates(q) => Ends(q) \/ (/\ at[q] \in {"owner", "policies", "target", "list", "open"}
                                                    /\ at'[q] \in {"act", "policies", "denied", "issue"}
                                                    /\ call'[q] = call[q] /\ who'[q] = who[q])
        BY DEF Judges, Operates, Moves
      <3> QED BY <2>4, <3>1, <3>2, <3>3, <3>4, <3>5 DEF Asks
    <2>5. CASE Watch /\ at'[q] = "idle" /\ who'[q] = Nobody
      BY <2>5, NobodyShown
    <2>6. CASE Watch /\ UNCHANGED progress
      BY <2>2, <2>3, <2>6 DEF progress
    <2>7. CASE Watch /\ \E p \in Procs : Asks(p)
      <3>1. PICK p \in Procs : Asks(p)
        BY <2>7
      <3>2. q # p => at'[q] = at[q] /\ call'[q] = call[q] /\ who'[q] = who[q]
        BY <3>1 DEF Asks, Alone
      <3> QED BY <2>2, <2>3, <2>4, <2>7, <3>1, <3>2
    <2> QED BY <1>2, <2>1, <2>5, <2>6, <2>7, NextShape
  <1>3. AccessInv /\ Witnessed /\ EveryoneShown /\ [Next]_vars => EveryoneShown'
    BY <1>2 DEF EveryoneShown
  <1> QED BY <1>1, <1>3, AccessInvariant, WitnessedInvariant, PTL DEF Spec

\* No request passes as a user but on a credential and a user that were in
\* force since it arrived, or with the empty key as a user whose record had none,
\* whatever changes around it.
THEOREM NobodyPassesOnWithdrawnCredentials == Spec => []CredentialsStood
  <1>1. EveryoneShown => CredentialsStood
    BY DEF EveryoneShown, Shown, StoodFor, CredentialsStood
  <1> QED BY ShownInvariant, <1>1, PTL

-----------------------------------------------------------------------------
(***************************************************************************)
(* What changes tables is done with authority.                             *)
(***************************************************************************)
Authorized(p) ==
    LET op == call[p].op
    IN  /\ who[p] \in {Nobody, Anonymous} \/ who[p].name \in Names
        /\ at[p] = "act" /\ op.do \in RootDos \cup {"ToggleServiceAccountStatus"} => who[p].isRoot
        /\ at[p] = "act" /\ op.do = "CreateServiceAccount" => who[p].isRoot \/ op.target = who[p].name
        /\ at[p] = "act" /\ op.do = "DeleteServiceAccount" =>
              who[p].isRoot \/ (held[op.key] = who[p].name /\ who[p].name # NoAsker)
        /\ at[p] \in {"open", "issue"} => who[p].isRoot

EveryoneAuthorized == \A p \in Procs : Authorized(p)

NoOneActs(p) == at'[p] \notin {"act", "open", "issue"} /\ (who'[p] \in {Nobody, Anonymous} \/ who'[p].name \in Names)

LEMMA NoOneActsAuthorized ==
    ASSUME NEW p \in Procs, NoOneActs(p)
    PROVE  Authorized(p)'
  BY DEF NoOneActs, Authorized

\* Going on unchanged, a request keeps its authority.
LEMMA AuthorizedStays ==
    ASSUME AccessInv, NEW p \in Procs, Authorized(p), HeldGrows, at'[p] = at[p], call'[p] = call[p], who'[p] = who[p]
    PROVE  Authorized(p)'
  <1>1. call[p].op.do = "DeleteServiceAccount" => call[p].op.key \in Keys
    BY OpKinds DEF AccessInv, Progress
  <1> QED BY <1>1 DEF Authorized, HeldGrows

\* Where a request enters, its authority goes with it.
LEMMA EntersAuthorized ==
    ASSUME NEW p \in Procs, call[p] \in Sent, call[p].op.do # "Logout", NEW w \in Whos,
           w.name \in Names \/ w = Anonymous, Enters(p, w)
    PROVE  Authorized(p)'
  <1> DEFINE c == call[p]
  <1>1. at'[p] = Entrance(c, w) /\ call'[p] = c /\ who'[p] = w
    BY DEF Enters
  <1>2. at'[p] # "issue"
    BY <1>1, EntranceFacts
  <1>3. at'[p] = "act" => w.isRoot \/ (c.route = "s3" /\ c.op.do = "CreateBucket")
    BY <1>1, EntranceFacts
  <1>4. at'[p] = "open" => w.isRoot
    BY <1>1, EntranceFacts
  <1> QED BY <1>1, <1>2, <1>3, <1>4 DEF Authorized, RootDos

LEMMA IdentifiesAuthorized ==
    ASSUME AccessInv, NEW p \in Procs, Identifies(p)
    PROVE  Authorized(p)'
  <1>1. CASE Ends(p)
    BY <1>1, NoOneActsAuthorized DEF Ends, NoOneActs
  <1>2. CASE at[p] \in {"account", "session"} /\ \E s \in {"parent", "legacy", "tokenUser"} : Moves(p, s)
    BY <1>2, NoOneActsAuthorized DEF AccessInv, Stage, Moves, NoOneActs
  <1>3. CASE \E w : LetsIn(p, w)
    BY <1>3, EntersAuthorized DEF LetsIn, IsAsker
  <1> QED BY <1>1, <1>2, <1>3, IdentifiesOutcome

LEMMA JudgesAuthorized ==
    ASSUME AccessInv, NEW p \in Procs, Judges(p), Authorized(p), HeldGrows
    PROVE  Authorized(p)'
  <1> DEFINE c == call[p]
  <1>1. Stage(p) /\ AccountsHeld /\ c \in Calls /\ accounts \in AccountTable
    BY DEF AccessInv, AccessTypeOK, GivenOnce, AccountsHeld, Progress, AccountTable
  <1>2. CASE Ends(p)
    BY <1>2, NoOneActsAuthorized DEF Ends, NoOneActs
  <1>3. CASE /\ at[p] \in {"owner", "policies"} /\ at'[p] \in {"act", "policies", "denied"}
             /\ call'[p] = c /\ who'[p] = who[p]
    <2>1. c.op.do \notin RootDos \cup {"ToggleServiceAccountStatus", "CreateServiceAccount", "DeleteServiceAccount"}
      BY <1>1, <1>3, OpKinds DEF Stage, RootDos
    <2> QED BY <1>3, <2>1 DEF Authorized
  <1>4. CASE at[p] = "target" /\ Moves(p, "act") /\ (c.op.target = who[p].name \/ who[p].isRoot)
    <2>1. c.op.do = "CreateServiceAccount"
      BY <1>1, <1>4 DEF Stage
    <2> QED BY <1>4, <2>1 DEF Authorized, Moves, RootDos
  <1>5. CASE /\ at[p] = "list" /\ Moves(p, "act")
             /\ accounts[c.op.key] # Absent /\ accounts[c.op.key].parent = who[p].name
    <2>1. c.op.do = "DeleteServiceAccount" /\ c.op.key \in Keys
      BY <1>1, <1>5, OpKinds DEF Stage
    <2>2. accounts[c.op.key] \in Accounts
      BY <1>1, <1>5, <2>1 DEF AccountTable
    <2>3. held[c.op.key] = who[p].name /\ who[p].name # NoAsker
      BY <1>1, <1>5, <2>1, <2>2, NamesAssumption DEF AccountsHeld, Accounts
    <2>4. held'[c.op.key] = held[c.op.key]
      BY <2>1, <2>3 DEF HeldGrows
    <2> QED BY <1>5, <2>1, <2>3, <2>4 DEF Authorized, Moves, RootDos
  <1> QED BY <1>2, <1>3, <1>4, <1>5 DEF Judges, Moves

LEMMA AuthorizedInvariant == Spec => []EveryoneAuthorized
  <1>1. Init => EveryoneAuthorized
    BY DEF Init, EveryoneAuthorized, Authorized
  <1>2. ASSUME AccessInv, EveryoneAuthorized, [Next]_vars, NEW q \in Procs
        PROVE  Authorized(q)'
    <2>1. Authorized(q) /\ HeldGrows
      BY <1>2, NextHeldGrows DEF EveryoneAuthorized
    <2>2. CASE at'[q] = at[q] /\ call'[q] = call[q] /\ who'[q] = who[q]
      BY <1>2, <2>1, <2>2, AuthorizedStays
    <2>3. CASE Asks(q)
      <3>1. ASSUME NEW c \in Sent, Comes(q, c)
            PROVE  Authorized(q)'
        <4>1. at'[q] = "act" => c.op.do = "Logout"
          BY <3>1, CallKinds DEF Comes
        <4>2. at'[q] \notin {"open", "issue"} /\ who'[q] \in {Nobody, Anonymous} /\ call'[q] = c
          BY <3>1, CallKinds DEF Comes
        <4> QED BY <4>1, <4>2 DEF Authorized, RootDos
      <3>2. CASE Ends(q)
        BY <3>2, NoOneActsAuthorized DEF Ends, NoOneActs
      <3>3. CASE at[q] = "open" /\ Moves(q, "issue")
        BY <2>1, <3>3 DEF Moves, Authorized
      <3> QED BY <1>2, <2>1, <2>3, <3>1, <3>2, <3>3, IdentifiesAuthorized, JudgesAuthorized DEF Asks, Operates
    <2>4. CASE at'[q] = "idle" /\ who'[q] = Nobody
      BY <2>4, NoOneActsAuthorized DEF NoOneActs
    <2>5. CASE \E p \in Procs : Asks(p)
      <3>1. PICK p \in Procs : Asks(p)
        BY <2>5
      <3>2. q # p => at'[q] = at[q] /\ call'[q] = call[q] /\ who'[q] = who[q]
        BY <3>1 DEF Asks, Alone
      <3> QED BY <2>2, <2>3, <3>1, <3>2
    <2> QED BY <1>2, <2>2, <2>4, <2>5, NextShape DEF vars, progress
  <1>3. AccessInv /\ EveryoneAuthorized /\ [Next]_vars => EveryoneAuthorized'
    BY <1>2 DEF EveryoneAuthorized
  <1> QED BY <1>1, <1>3, AccessInvariant, PTL DEF Spec

\* An operation of somebody who may.
LEMMA OperatesWithAuthority ==
    ASSUME AccessInv, NEW p \in Procs, Operates(p), Shown(p), Authorized(p)
    PROVE  WithAuthority
  <1> DEFINE op == call[p].op
             n == who[p].name
  <1>1. at[p] # "idle" /\ at'[p] # at[p] /\ (at[p] = "act" => at'[p] = "idle")
    BY DEF Operates, Ends, Moves
  <1>2. who[p].isRoot => ByRoot
    <2>1. who[p].isRoot => who[p].name \in Names
      BY WhoFacts DEF Authorized
    <2> QED BY <1>1, <2>1 DEF Shown, StoodFor, ByRoot
  <1>3. at[p] = "act" /\ n \in Names /\ op.do \in {"CreateServiceAccount", "DeleteServiceAccount"} => ByUser(n)
    <2>1. op.do \in {"CreateServiceAccount", "DeleteServiceAccount"} => call[p].by = "token"
      BY OpKinds, CallKinds, NoCallFacts DEF AccessInv, Progress
    <2> QED BY <1>1, <2>1 DEF Shown, StoodFor, ByUser
  <1>4. call[p] \in Calls /\ accounts \in AccountTable /\ AccountsHeld
    BY DEF AccessInv, AccessTypeOK, GivenOnce, AccountsHeld, Progress, AccountTable
  <1>5. users' = users \/ ByRoot
    BY <1>2 DEF Operates, Authorized, RootDos
  <1>6. iam' = iam \/ ByRoot
    BY <1>2 DEF Operates, Authorized, RootDos
  <1>7. sessions' \subseteq sessions \/ ByRoot
    BY <1>2 DEF Operates, Authorized
  <1>8. ASSUME NEW k \in Keys, accounts'[k] # accounts[k], ~ByRoot
        PROVE  \/ accounts[k] # Absent /\ ByUser(accounts[k].parent)
               \/ accounts[k] = Absent /\ ByUser(accounts'[k].parent)
    <2>1. ~who[p].isRoot
      BY <1>2, <1>8
    <2>2. CASE at[p] = "act" /\ op.do = "CreateServiceAccount" /\ accounts' = Filled(accounts, op.id, NewAccount(op))
      <3>1. op.id \in Keys /\ op.target = n /\ op.target \in Names
        BY <1>4, <2>1, <2>2, OpKinds, InputsAssumption DEF Authorized
      <3>2. k = op.id /\ accounts[k] = Absent /\ accounts'[k] = NewAccount(op)
        BY <1>4, <1>8, <2>2, <3>1 DEF Filled, AccountTable
      <3>3. accounts'[k].parent = n
        BY <3>1, <3>2 DEF NewAccount
      <3> QED BY <1>3, <2>2, <3>1, <3>2, <3>3
    <2>3. CASE at[p] = "act" /\ op.do = "DeleteServiceAccount" /\ accounts' = Without(accounts, op.key)
      <3>1. op.key \in Keys /\ held[op.key] = n
        BY <1>4, <2>1, <2>3, OpKinds DEF Authorized
      <3>2. k = op.key /\ accounts[k] # Absent
        BY <1>4, <1>8, <2>3, <3>1 DEF Without, AccountTable
      <3>3. accounts[k].parent = n /\ accounts[k].parent \in Names
        BY <1>4, <3>1, <3>2 DEF AccountsHeld, AccountTable, Accounts
      <3> QED BY <1>3, <2>3, <3>2, <3>3
    <2>4. ~(at[p] = "act" /\ op.do = "ToggleServiceAccountStatus")
      BY <2>1 DEF Authorized
    <2> QED BY <1>8, <2>2, <2>3, <2>4 DEF Operates
  <1> QED BY <1>5, <1>6, <1>7, <1>8 DEF WithAuthority

LEMMA NextWithAuthority ==
    ASSUME AccessInv, EveryoneShown, EveryoneAuthorized, Next
    PROVE  WithAuthority
  <1>1. ASSUME UNCHANGED tables
        PROVE  WithAuthority
    BY <1>1 DEF WithAuthority, tables
  <1>2. ASSUME NEW p \in Procs, Request(p)
        PROVE  WithAuthority
    <2>1. Begin(p) \/ Authenticate(p) \/ Authorize(p) \/ Operate(p)
      BY <1>2 DEF Request, Begin
    <2> QED BY <1>1, <2>1, BeginShape, IdentifyShape, JudgeShape, OperateShape, OperatesWithAuthority
            DEF EveryoneShown, EveryoneAuthorized
  <1>3. ASSUME NEW k \in Keys, AccountExpires(k)
        PROVE  WithAuthority
    <2>1. /\ accounts' = [accounts EXCEPT ![k].expiry = "past"] /\ accounts[k] # Absent
          /\ UNCHANGED <<users, iam, sessions>>
      BY <1>3 DEF AccountExpires, Keep
    <2>2. \A j \in Keys : accounts'[j] # accounts[j] => j = k
      BY <2>1 DEF AccessInv, AccessTypeOK
    <2> QED BY <2>1, <2>2 DEF WithAuthority
  <1>4. ASSUME NEW s \in SessionIds, TokenExpires(s)
        PROVE  WithAuthority
    BY <1>1, <1>4 DEF TokenExpires, Keep
  <1>5. CASE Restart
    <2>1. /\ users' = Filled(users, Root, RootRecord) /\ accounts' = Filled(accounts, RootKey, RootAccount)
          /\ UNCHANGED <<iam, sessions>>
      BY <1>5 DEF Restart, Keep
    <2>2. \A k \in Keys : accounts'[k] # accounts[k] => k = RootKey /\ accounts[k] = Absent
      BY <2>1 DEF AccessInv, AccessTypeOK, Filled
    <2> QED BY <2>1, <2>2 DEF WithAuthority
  <1> QED BY <1>2, <1>3, <1>4, <1>5 DEF Next, Clock

\* Users, policies, sessions and service accounts change only at the hands of
\* somebody with the authority to change them, where root may be whoever sends
\* the empty key while a root's record has none.
THEOREM TablesChangeWithAuthority == Spec => AuthorityHeld
  <1>1. AccessInv /\ EveryoneShown /\ EveryoneAuthorized /\ [Next]_vars => [WithAuthority]_vars
    BY NextWithAuthority
  <1> QED BY <1>1, AccessInvariant, ShownInvariant, AuthorizedInvariant, PTL DEF Spec, AuthorityHeld

-----------------------------------------------------------------------------
(***************************************************************************)
(* What the policies said.                                                 *)
(***************************************************************************)
LEMMA Tuples ==
    /\ \A a, b, q, r : <<a, q>> = <<b, r>> <=> a = b /\ q = r
    /\ \A a, b : <<a>> = <<b>> <=> a = b
    /\ \A a, b, q : <<a>> # <<b, q>>
  <1>1. \A a, b, q, r : <<a, q>> = <<b, r>> <=> a = b /\ q = r
    OBVIOUS
  <1>2. \A a, b : <<a>> = <<b>> <=> a = b
    OBVIOUS
  <1>3. \A a, b, q : <<a>> # <<b, q>>
    <2> SUFFICES ASSUME NEW a, NEW b, NEW q, <<a>> = <<b, q>> PROVE FALSE
      OBVIOUS
    <2>1. Len(<<a>>) = 1 /\ Len(<<b, q>>) = 2
      OBVIOUS
    <2> QED BY <2>1
  <1> QED BY <1>1, <1>2, <1>3

\* A policy asks for no more of a user than the name and the key.
LEMMA SameSaid ==
    ASSUME NEW doc, NEW u, NEW v, NEW asked, u.name = v.name, u.key = v.key
    PROVE  evaluatePolicyStatements(doc, u, asked) = evaluatePolicyStatements(doc, v, asked)
  <1>1. \A principal : matchPrincipal(principal, u) <=> matchPrincipal(principal, v)
    BY DEF matchPrincipal
  <1>2. \A stmt : Applies(stmt, u, asked) <=> Applies(stmt, v, asked)
    BY <1>1 DEF Applies
  <1> QED BY <1>2 DEF evaluatePolicyStatements

\* A document says what it says to whoever asks in call c.
Allows(doc, user, c) == doc # Absent /\ evaluatePolicyStatements(doc, user, Asked[c.op.do]).allowed
Denies(doc, user, c) == doc # Absent /\ evaluatePolicyStatements(doc, user, Asked[c.op.do]).denied

LEMMA DocRead ==
    ASSUME NEW doc, NEW name, NEW user, NEW c
    PROVE  /\ DocFacts(doc, name, user, c) \subseteq {<<"allow", name>>, <<"deny", name>>}
           /\ <<"allow", name>> \in DocFacts(doc, name, user, c) <=> Allows(doc, user, c)
           /\ <<"deny", name>> \in DocFacts(doc, name, user, c) <=> Denies(doc, user, c)
  <1>1. <<"allow", name>> # <<"deny", name>>
    BY Tuples
  <1> QED BY <1>1 DEF DocFacts, Allows, Denies, Holds

LEMMA SingleFacts ==
    ASSUME NEW c, NEW n, NEW f \in CredentialFacts(c) \cup UserFacts(n),
           c.by \in {"nothing", "key", "token", "password", "pair"}
    PROVE  /\ \A a, b : f # <<a, b>>
           /\ f # <<"owner">>
  <1>1. f \in {<<"usable">>, <<"unlisted">>, <<"in record">>, <<"session">>, <<"user">>, <<"enabled">>, <<"root">>}
    BY DEF CredentialFacts, UserFacts, Holds
  <1> DEFINE Words == {"usable", "unlisted", "in record", "session", "user", "enabled", "root"}
  <1>2. \E x \in Words : f = <<x>>
    BY <1>1
  <1>3. PICK x \in Words : f = <<x>>
    BY <1>2
  <1> QED BY <1>3, Tuples

Attachment(c) == IF c.asker \notin Names \/ users[c.asker] = Absent THEN {}
                 ELSE {users[c.asker].policies[i] : i \in DOMAIN users[c.asker].policies}
Sender(c) == [name |-> c.asker, key |-> c.id]

LEMMA PolicyParts ==
    ASSUME NEW c
    PROVE  PolicyFacts(c) =
             (UNION {DocFacts(iam[q], q, Sender(c), c) : q \in PolicyNames})
             \cup {<<"attached", q>> : q \in Attachment(c)}
             \cup DocFacts(policy, "bucket", Sender(c), c) \cup DocFacts(policy, "open", Anonymous, c)
             \cup Holds(owner = c.asker, <<"owner">>)
  BY DEF PolicyFacts, Attachment, Sender

\* Exactly these facts about policies hold.
LEMMA PolicyRead ==
    ASSUME NEW p \in Procs, call[p] \in Sent, call[p].route = "s3", call[p].op.do # "CreateBucket",
           NEW c, c = call[p]
    PROVE  /\ <<"owner">> \in Facts(p) <=> owner = c.asker
           /\ \A q \in PolicyNames : /\ <<"attached", q>> \in Facts(p) <=> q \in Attachment(c)
                                     /\ <<"allow", q>> \in Facts(p) <=> Allows(iam[q], Sender(c), c)
                                     /\ <<"deny", q>> \in Facts(p) <=> Denies(iam[q], Sender(c), c)
           /\ <<"allow", "bucket">> \in Facts(p) <=> Allows(policy, Sender(c), c)
           /\ <<"deny", "bucket">> \in Facts(p) <=> Denies(policy, Sender(c), c)
           /\ <<"allow", "open">> \in Facts(p) <=> Allows(policy, Anonymous, c)
           /\ <<"deny", "open">> \in Facts(p) <=> Denies(policy, Anonymous, c)
  <1> DEFINE Own == CredentialFacts(c) \cup UserFacts(c.asker)
             Iam == UNION {DocFacts(iam[q], q, Sender(c), c) : q \in PolicyNames}
             Att == {<<"attached", q>> : q \in Attachment(c)}
             Bkt == DocFacts(policy, "bucket", Sender(c), c)
             Opn == DocFacts(policy, "open", Anonymous, c)
             Own2 == Holds(owner = c.asker, <<"owner">>)
  <1>1. Facts(p) = Own \cup (Iam \cup Att \cup Bkt \cup Opn \cup Own2)
    <2>1. PolicyFacts(c) = Iam \cup Att \cup Bkt \cup Opn \cup Own2
      BY PolicyParts
    <2>2. Facts(p) = Own \cup PolicyFacts(c)
      BY DEF Facts
    <2> QED BY <2>1, <2>2
  <1>2. \A f \in Own : (\A a, b : f # <<a, b>>) /\ f # <<"owner">>
    <2>1. c.by \in {"nothing", "key", "token", "password", "pair"}
      BY CallKinds
    <2> QED BY <2>1, SingleFacts
  <1>3. \A f : f \in Iam <=> \E q \in PolicyNames : f \in DocFacts(iam[q], q, Sender(c), c)
    OBVIOUS
  <1>4. \A f \in Iam : \E q \in PolicyNames : f = <<"allow", q>> \/ f = <<"deny", q>>
    <2>1. \A q \in PolicyNames : DocFacts(iam[q], q, Sender(c), c) \subseteq {<<"allow", q>>, <<"deny", q>>}
      BY DocRead
    <2> HIDE DEF Iam
    <2> QED BY <1>3, <2>1
  <1>5. \A q \in PolicyNames : /\ <<"allow", q>> \in Iam <=> Allows(iam[q], Sender(c), c)
                               /\ <<"deny", q>> \in Iam <=> Denies(iam[q], Sender(c), c)
    <2> TAKE q \in PolicyNames
    <2>1. \A r \in PolicyNames : r # q => DocFacts(iam[r], r, Sender(c), c) \cap {<<"allow", q>>, <<"deny", q>>} = {}
      <3>1. \A r \in PolicyNames : DocFacts(iam[r], r, Sender(c), c) \subseteq {<<"allow", r>>, <<"deny", r>>}
        BY DocRead
      <3> QED BY <3>1, Tuples
    <2> QED BY <1>3, <2>1, DocRead
  <1>6. Bkt \subseteq {<<"allow", "bucket">>, <<"deny", "bucket">>} /\ Opn \subseteq {<<"allow", "open">>, <<"deny", "open">>}
    BY DocRead
  <1>7. /\ <<"allow", "bucket">> \in Bkt <=> Allows(policy, Sender(c), c)
        /\ <<"deny", "bucket">> \in Bkt <=> Denies(policy, Sender(c), c)
        /\ <<"allow", "open">> \in Opn <=> Allows(policy, Anonymous, c)
        /\ <<"deny", "open">> \in Opn <=> Denies(policy, Anonymous, c)
    BY DocRead
  <1>8. Own2 \subseteq {<<"owner">>} /\ (<<"owner">> \in Own2 <=> owner = c.asker)
    BY DEF Holds
  <1>9. \A q : <<"attached", q>> \in Att <=> q \in Attachment(c)
    <2> TAKE q
    <2> HIDE DEF Attachment
    <2> QED BY Tuples
  <1>10. \A f \in Att : \E q : f = <<"attached", q>>
    OBVIOUS
  <1>11. "bucket" \notin PolicyNames /\ "open" \notin PolicyNames
    BY NamesAssumption
  <1> HIDE DEF Own, Iam, Att, Bkt, Opn, Own2
  <1>12. <<"owner">> \in Facts(p) <=> owner = c.asker
    BY <1>1, <1>2, <1>4, <1>6, <1>8, <1>10, Tuples
  <1>13. ASSUME NEW q \in PolicyNames
         PROVE  /\ <<"attached", q>> \in Facts(p) <=> q \in Attachment(c)
                /\ <<"allow", q>> \in Facts(p) <=> Allows(iam[q], Sender(c), c)
                /\ <<"deny", q>> \in Facts(p) <=> Denies(iam[q], Sender(c), c)
    <2>1. <<"attached", q>> \notin Own \cup Iam \cup Bkt \cup Opn \cup Own2
      BY <1>2, <1>4, <1>6, <1>8, Tuples
    <2>2. {<<"allow", q>>, <<"deny", q>>} \cap (Own \cup Att \cup Bkt \cup Opn \cup Own2) = {}
      BY <1>2, <1>6, <1>8, <1>10, <1>11, Tuples
    <2> QED BY <1>1, <1>5, <1>9, <2>1, <2>2
  <1>14. {<<"allow", "bucket">>, <<"deny", "bucket">>} \cap (Own \cup Iam \cup Att \cup Opn \cup Own2) = {}
    BY <1>2, <1>4, <1>6, <1>8, <1>10, <1>11, Tuples
  <1>15. {<<"allow", "open">>, <<"deny", "open">>} \cap (Own \cup Iam \cup Att \cup Bkt \cup Own2) = {}
    BY <1>2, <1>4, <1>6, <1>8, <1>10, <1>11, Tuples
  <1> QED BY <1>1, <1>7, <1>12, <1>13, <1>14, <1>15

-----------------------------------------------------------------------------
(***************************************************************************)
(* How a request is weighed.                                               *)
(***************************************************************************)
Judgeable(p) == call[p].route = "s3" /\ call[p].op.do # "CreateBucket" /\ ~who[p].isRoot

Unread(p, q) == \E i \in DOMAIN eval[p].todo : eval[p].todo[i] = q

\* What the policies read so far said of p, and what is yet to read.
Weighs(p) ==
    /\ who[p] = Anonymous => eval[p] = NothingRead
    /\ who[p] # Anonymous =>
          /\ at[p] = "policies" => Missed(p, <<"owner">>)
          /\ \A i \in DOMAIN eval[p].todo : Read(p, <<"attached", eval[p].todo[i]>>)
          /\ eval[p].allowed => \E q \in PolicyNames : Reads(p, "allow", q)
          /\ eval[p].denied => \E q \in PolicyNames : Reads(p, "deny", q)
          /\ \A q \in PolicyNames :
                \/ Unread(p, q)
                \/ /\ eval[p].allowed \/ Misses(p, "allow", q)
                   /\ eval[p].denied \/ Misses(p, "deny", q)

Allowable(p) ==
    \/ Read(p, <<"owner">>)
    \/ /\ \E q \in Sources(p) : Reads(p, "allow", q)
       /\ \A q \in Sources(p) : Misses(p, "deny", q)
Deniable(p) ==
    /\ who[p] # Anonymous => Missed(p, <<"owner">>)
    /\ \/ \E q \in Sources(p) : Reads(p, "deny", q)
       \/ \A q \in Sources(p) : Misses(p, "allow", q)

Weighed(p) ==
    /\ at[p] = "idle" => eval[p] = NothingRead
    /\ call[p].route = "s3" /\ who[p].name \in Names => who[p].key = call[p].id
    /\ at[p] \in {"owner", "policies"} => Weighs(p) /\ (who[p] = Anonymous \/ who[p].name \in Names)
    /\ at[p] = "act" /\ Judgeable(p) => Allowable(p)
    /\ at[p] = "denied" => Deniable(p)

EveryoneWeighed == \A p \in Procs : Weighed(p)

\* Reads and Misses, for a policy attached to a user and for a bucket's.
LEMMA ReadsFacts ==
    ASSUME NEW p, NEW word
    PROVE  /\ \A q \in PolicyNames :
                 /\ Reads(p, word, q) <=> Read(p, <<"attached", q>>) /\ Read(p, <<word, q>>)
                 /\ Misses(p, word, q) <=> Missed(p, <<"attached", q>>) \/ Missed(p, <<word, q>>)
           /\ \A q \in {"bucket", "open"} :
                 /\ Reads(p, word, q) <=> Read(p, <<word, q>>)
                 /\ Misses(p, word, q) <=> Missed(p, <<word, q>>)
  BY NamesAssumption DEF Reads, Misses, Attached

\* What is read stays read, and what was missing once stays missed.
LEMMA HistoryGrows ==
    ASSUME NEW p \in Procs, Watch, at[p] # "idle", at'[p] # "idle"
    PROVE  /\ \A f : Read(p, f) => Read(p, f)'
           /\ \A f : Missed(p, f) => Missed(p, f)'
           /\ \A word, q : Reads(p, word, q) => Reads(p, word, q)'
           /\ \A word, q : Misses(p, word, q) => Misses(p, word, q)'
  <1>1. \A f : Read(p, f) => Read(p, f)'
    BY WatchFacts DEF Read
  <1>2. \A f : Missed(p, f) => Missed(p, f)'
    BY WatchFacts DEF Missed
  <1>3. ASSUME NEW word, NEW q, Reads(p, word, q)
        PROVE  Reads(p, word, q)'
    BY <1>1, <1>3 DEF Reads, Attached
  <1>4. ASSUME NEW word, NEW q, Misses(p, word, q)
        PROVE  Misses(p, word, q)'
    BY <1>2, <1>4 DEF Misses, Attached
  <1> QED BY <1>1, <1>2, <1>3, <1>4

\* What the tables say now has been read, and what they do not was missed.
LEMMA NowRead ==
    ASSUME Witnessed, NEW p \in Procs, at[p] # "idle"
    PROVE  /\ \A f \in Facts(p) : Read(p, f)
           /\ \A f : f \notin Facts(p) => Missed(p, f)
  BY DEF Witnessed, Read, Missed

\* What a document says to the request is what the facts say it says.
LEMMA SaidRead ==
    ASSUME AccessInv, Witnessed, NEW p \in Procs, Shown(p), Weighed(p), at[p] \in {"owner", "policies"}
    PROVE  /\ who[p] # Anonymous => \A q \in PolicyNames :
                 /\ Said(iam[q], p).allowed => Read(p, <<"allow", q>>)
                 /\ ~Said(iam[q], p).allowed => Missed(p, <<"allow", q>>)
                 /\ Said(iam[q], p).denied => Read(p, <<"deny", q>>)
                 /\ ~Said(iam[q], p).denied => Missed(p, <<"deny", q>>)
           /\ \A q \in {"bucket", "open"} : (q = "open" <=> who[p] = Anonymous) =>
                 /\ Said(policy, p).allowed => Read(p, <<"allow", q>>)
                 /\ ~Said(policy, p).allowed => Missed(p, <<"allow", q>>)
                 /\ Said(policy, p).denied => Read(p, <<"deny", q>>)
                 /\ ~Said(policy, p).denied => Missed(p, <<"deny", q>>)
  <1> DEFINE c == call[p]
  <1>1. c \in Sent /\ c.route = "s3" /\ c.op.do # "CreateBucket"
    BY BusySent DEF AccessInv, Stage
  <1>2. ASSUME NEW doc
        PROVE  /\ Said(doc, p).allowed <=> Allows(doc, who[p], c)
               /\ Said(doc, p).denied <=> Denies(doc, who[p], c)
    BY DEF Said, Allows, Denies, evaluatePolicyStatements
  <1>3. ASSUME NEW doc, who[p] # Anonymous
        PROVE  /\ Allows(doc, who[p], c) <=> Allows(doc, Sender(c), c)
               /\ Denies(doc, who[p], c) <=> Denies(doc, Sender(c), c)
    <2>1. who[p].name = c.asker /\ who[p].key = c.id
      BY <1>1, <1>3 DEF Weighed, Shown, StoodFor
    <2>2. Sender(c).name = c.asker /\ Sender(c).key = c.id
      BY DEF Sender
    <2>3. evaluatePolicyStatements(doc, who[p], Asked[c.op.do]) = evaluatePolicyStatements(doc, Sender(c), Asked[c.op.do])
      BY <2>1, <2>2, SameSaid
    <2> QED BY <2>3 DEF Allows, Denies
  <1>4. ASSUME NEW q \in PolicyNames, who[p] # Anonymous
        PROVE  /\ Said(iam[q], p).allowed <=> <<"allow", q>> \in Facts(p)
               /\ Said(iam[q], p).denied <=> <<"deny", q>> \in Facts(p)
    BY <1>1, <1>2, <1>3, <1>4, PolicyRead
  <1>5. ASSUME NEW q \in {"bucket", "open"}, q = "open" <=> who[p] = Anonymous
        PROVE  /\ Said(policy, p).allowed <=> <<"allow", q>> \in Facts(p)
               /\ Said(policy, p).denied <=> <<"deny", q>> \in Facts(p)
    BY <1>1, <1>2, <1>3, <1>5, PolicyRead
  <1> QED BY <1>4, <1>5, NowRead

LEMMA NothingReadFacts ==
    NothingRead.todo = <<>> /\ ~NothingRead.allowed /\ ~NothingRead.denied
  BY DEF NothingRead

\* Let in, a request begins to be weighed with all its policies to read.
LEMMA EntersWeighed ==
    ASSUME AccessInv, Witnessed, NEW p \in Procs, NEW w, LetsIn(p, w), Watch
    PROVE  Weighed(p)'
  <1> DEFINE c == call[p]
  <1>1. /\ call'[p] = c /\ who'[p] = w /\ at'[p] = Entrance(c, w) /\ at'[p] # "idle" /\ at[p] # "idle"
        /\ c \in Sent /\ c.op.do # "Logout" /\ w \in Whos /\ (IsAsker(p, w) \/ w = Anonymous)
    BY DEF LetsIn, Enters
  <1>2. eval'[p] = [NothingRead EXCEPT !.todo = w.policies]
    BY DEF LetsIn, Enters
  <1>3. eval'[p].todo = w.policies /\ ~eval'[p].allowed /\ ~eval'[p].denied
    BY <1>2 DEF NothingRead
  <1>4. w = Anonymous => eval'[p] = NothingRead
    BY <1>2, WhoFacts DEF NothingRead
  <1>5. /\ at'[p] \notin {"policies", "denied"}
        /\ at'[p] = "act" => w.isRoot \/ c.op.do = "CreateBucket"
        /\ at'[p] = "owner" => c.route = "s3" /\ c.op.do # "CreateBucket"
    BY <1>1, EntranceFacts
  <1>6. ASSUME at'[p] = "owner", w # Anonymous
        PROVE  /\ \A i \in DOMAIN w.policies : Read(p, <<"attached", w.policies[i]>>)'
               /\ \A q \in PolicyNames : Unread(p, q)' \/ Missed(p, <<"attached", q>>)'
    <2>1. /\ w.name \in Names /\ w.name = c.asker /\ users[w.name] # Absent /\ w.policies = users[w.name].policies
      BY <1>1, <1>6 DEF IsAsker
    <2>2. Attachment(c) = {w.policies[i] : i \in DOMAIN w.policies}
      BY <2>1 DEF Attachment
    <2>3. \A q \in PolicyNames : <<"attached", q>> \in Facts(p) <=> q \in Attachment(c)
      BY <1>1, <1>5, <1>6, PolicyRead
    <2>4. w.policies \in Seq(PolicyNames)
      BY <1>1 DEF Whos
    <2>5. \A i \in DOMAIN w.policies : w.policies[i] \in PolicyNames
      BY <2>4
    <2>6. \A f : (f \in Facts(p) => Read(p, f)') /\ (f \notin Facts(p) => Missed(p, f)')
      BY <1>1, NowRead, HistoryGrows
    <2>7. \A i \in DOMAIN w.policies : Read(p, <<"attached", w.policies[i]>>)'
      BY <2>2, <2>3, <2>5, <2>6
    <2>8. \A q \in PolicyNames : (\E i \in DOMAIN w.policies : w.policies[i] = q) \/ Missed(p, <<"attached", q>>)'
      BY <2>2, <2>3, <2>6
    <2>9. \A q : Unread(p, q)' <=> \E i \in DOMAIN w.policies : w.policies[i] = q
      BY <1>3 DEF Unread
    <2> QED BY <1>3, <2>7, <2>8, <2>9
  <1>7. ASSUME NEW q \in PolicyNames, Missed(p, <<"attached", q>>)'
        PROVE  Misses(p, "allow", q)' /\ Misses(p, "deny", q)'
    BY <1>7 DEF Misses, Attached
  <1>8. at'[p] = "owner" => Weighs(p)'
    BY <1>1, <1>3, <1>4, <1>6, <1>7 DEF Weighs
  <1>9. c.route = "s3" /\ w.name \in Names => w.key = c.id
    BY <1>1, WhoFacts DEF IsAsker
  <1>10. w = Anonymous \/ w.name \in Names
    BY <1>1 DEF IsAsker
  <1> QED BY <1>1, <1>5, <1>8, <1>9, <1>10 DEF Weighed, Judgeable

\* A request that is not being weighed.
LEMMA IdleWeighed ==
    ASSUME NEW p \in Procs, at'[p] \notin {"owner", "policies", "act", "denied"}, who'[p] = Nobody,
           at'[p] = "idle" => eval'[p] = NothingRead
    PROVE  Weighed(p)'
  BY WhoFacts DEF Weighed

\* One that is, and stays as it is.
LEMMA WeighedStays ==
    ASSUME NEW p \in Procs, Weighed(p), Watch, at[p] # "idle",
           at'[p] = at[p], call'[p] = call[p], who'[p] = who[p], eval'[p] = eval[p]
    PROVE  Weighed(p)'
  <1>1. /\ \A f : Read(p, f) => Read(p, f)'
        /\ \A f : Missed(p, f) => Missed(p, f)'
        /\ \A word, q : Reads(p, word, q) => Reads(p, word, q)'
        /\ \A word, q : Misses(p, word, q) => Misses(p, word, q)'
    BY HistoryGrows
  <1>2. (Sources(p))' = Sources(p)
    BY DEF Sources
  <1>3. \A q : Unread(p, q) => Unread(p, q)'
    BY DEF Unread
  <1>4. Weighs(p) => Weighs(p)'
    BY <1>1, <1>3 DEF Weighs
  <1>5. Allowable(p) => Allowable(p)'
    BY <1>1, <1>2 DEF Allowable
  <1>6. Deniable(p) => Deniable(p)'
    BY <1>1, <1>2 DEF Deniable
  <1> QED BY <1>4, <1>5, <1>6 DEF Weighed, Judgeable

\* The owner passes, and whoever is not the owner was not at that instant.
LEMMA OwnerWeighed ==
    ASSUME AccessInv, Witnessed, NEW p \in Procs, Shown(p), Weighed(p), Watch, at[p] = "owner",
           call'[p] = call[p], who'[p] = who[p],
           \/ owner \notin {Absent, ""} /\ owner = who[p].name /\ at'[p] = "act"
           \/ (owner \in {Absent, ""} \/ owner # who[p].name) /\ at'[p] = "policies" /\ eval'[p] = eval[p]
    PROVE  Weighed(p)'
  <1> DEFINE c == call[p]
  <1>1. c \in Sent /\ c.route = "s3" /\ c.op.do # "CreateBucket"
    BY BusySent DEF AccessInv, Stage
  <1>2. <<"owner">> \in Facts(p) <=> owner = c.asker
    BY <1>1, PolicyRead
  <1>3. \A f : (f \in Facts(p) => Read(p, f)') /\ (f \notin Facts(p) => Missed(p, f)')
    BY NowRead, HistoryGrows
  <1>4. who[p] = Anonymous \/ (who[p].name \in Names /\ who[p].name = c.asker)
    BY DEF Weighed, Shown, StoodFor
  <1>5. CASE owner \notin {Absent, ""} /\ owner = who[p].name /\ at'[p] = "act"
    <2>1. who[p].name \in Names
      BY <1>5, <1>4, WhoFacts DEF AccessInv, AccessTypeOK
    <2>2. Read(p, <<"owner">>)'
      BY <1>2, <1>3, <1>4, <1>5, <2>1, WhoFacts
    <2>3. Allowable(p)'
      BY <2>2 DEF Allowable
    <2> QED BY <1>5, <2>3 DEF Weighed
  <1>6. CASE (owner \in {Absent, ""} \/ owner # who[p].name) /\ at'[p] = "policies" /\ eval'[p] = eval[p]
    <2>1. who[p] # Anonymous => Missed(p, <<"owner">>)'
      BY <1>2, <1>3, <1>4, <1>6, AbsentAssumption, NamesAssumption DEF NoAsker
    <2>2. /\ \A f : Read(p, f) => Read(p, f)'
          /\ \A word, q : Reads(p, word, q) => Reads(p, word, q)'
          /\ \A word, q : Misses(p, word, q) => Misses(p, word, q)'
      BY <1>6, HistoryGrows
    <2>3. \A q : Unread(p, q) => Unread(p, q)'
      BY <1>6 DEF Unread
    <2>4. Weighs(p)
      BY DEF Weighed
    <2>5. Weighs(p)'
      BY <1>6, <2>1, <2>2, <2>3, <2>4 DEF Weighs
    <2> QED BY <1>6, <2>5 DEF Weighed
  <1> QED BY <1>5, <1>6

\* One more of the user's policies is read.
LEMMA PolicyWeighed ==
    ASSUME AccessInv, Witnessed, NEW p \in Procs, Shown(p), Weighed(p), Watch,
           at[p] = "policies", eval[p].todo # <<>>,
           at'[p] = at[p], call'[p] = call[p], who'[p] = who[p],
           eval'[p].todo = Tail(eval[p].todo),
           eval'[p].allowed = (eval[p].allowed \/ Said(iam[Head(eval[p].todo)], p).allowed),
           eval'[p].denied = (eval[p].denied \/ Said(iam[Head(eval[p].todo)], p).denied)
    PROVE  Weighed(p)'
  <1>todo. PICK todo : todo = eval[p].todo
    OBVIOUS
  <1>h. PICK h : h = Head(todo)
    OBVIOUS
  <1>1. Weighs(p) /\ who[p] # Anonymous
    BY NothingReadFacts DEF Weighed, Weighs
  <1>2. todo \in Seq(PolicyNames) /\ todo # <<>>
    BY <1>todo DEF AccessInv, Progress, Evals
  <1>3. /\ h \in PolicyNames /\ h = todo[1] /\ 1 \in DOMAIN todo
        /\ \A i \in DOMAIN Tail(todo) : i + 1 \in DOMAIN todo /\ Tail(todo)[i] = todo[i + 1]
        /\ \A i \in DOMAIN todo : i # 1 => i - 1 \in DOMAIN Tail(todo) /\ Tail(todo)[i - 1] = todo[i]
    BY <1>2, <1>h
  <1>4. /\ \A f : Read(p, f) => Read(p, f)'
        /\ \A f : Missed(p, f) => Missed(p, f)'
        /\ \A word, q : Reads(p, word, q) => Reads(p, word, q)'
        /\ \A word, q : Misses(p, word, q) => Misses(p, word, q)'
    BY HistoryGrows
  <1>5. Read(p, <<"attached", h>>)'
    BY <1>1, <1>3, <1>4, <1>todo DEF Weighs
  <1>6. /\ Said(iam[h], p).allowed => Read(p, <<"allow", h>>)'
        /\ ~Said(iam[h], p).allowed => Missed(p, <<"allow", h>>)'
        /\ Said(iam[h], p).denied => Read(p, <<"deny", h>>)'
        /\ ~Said(iam[h], p).denied => Missed(p, <<"deny", h>>)'
    BY <1>1, <1>3, <1>4, SaidRead
  <1>7. /\ Said(iam[h], p).allowed => Reads(p, "allow", h)'
        /\ ~Said(iam[h], p).allowed => Misses(p, "allow", h)'
        /\ Said(iam[h], p).denied => Reads(p, "deny", h)'
        /\ ~Said(iam[h], p).denied => Misses(p, "deny", h)'
    BY <1>3, <1>5, <1>6 DEF Reads, Misses, Attached
  <1>8. \A q : Unread(p, q) => q = h \/ Unread(p, q)'
    <2>1. eval'[p].todo = Tail(todo)
      BY <1>todo
    <2>2. \A q : Unread(p, q) => \E i \in DOMAIN todo : todo[i] = q
      BY <1>todo DEF Unread
    <2>3. \A q : (\E i \in DOMAIN Tail(todo) : Tail(todo)[i] = q) => Unread(p, q)'
      BY <2>1 DEF Unread
    <2>4. ASSUME NEW q, Unread(p, q)
          PROVE  q = h \/ Unread(p, q)'
      <3>1. PICK i \in DOMAIN todo : todo[i] = q
        BY <2>2, <2>4
      <3>2. CASE i = 1
        BY <1>3, <3>1, <3>2
      <3>3. CASE i # 1
        <4>1. PICK j \in DOMAIN Tail(todo) : Tail(todo)[j] = q
          BY <1>3, <3>1, <3>3
        <4> QED BY <2>3, <4>1
      <3> QED BY <3>2, <3>3
    <2> QED BY <2>4
  <1>9. /\ eval'[p].allowed <=> eval[p].allowed \/ Said(iam[h], p).allowed
        /\ eval'[p].denied <=> eval[p].denied \/ Said(iam[h], p).denied
    BY <1>todo, <1>h
  <1>10. \A i \in DOMAIN Tail(todo) : Read(p, <<"attached", Tail(todo)[i]>>)'
    BY <1>1, <1>3, <1>4, <1>todo DEF Weighs
  <1>11. /\ eval'[p].allowed => \E q \in PolicyNames : Reads(p, "allow", q)'
         /\ eval'[p].denied => \E q \in PolicyNames : Reads(p, "deny", q)'
    BY <1>1, <1>3, <1>4, <1>7, <1>9 DEF Weighs
  <1>12. ASSUME NEW q \in PolicyNames
         PROVE  \/ Unread(p, q)'
                \/ /\ eval'[p].allowed \/ Misses(p, "allow", q)'
                   /\ eval'[p].denied \/ Misses(p, "deny", q)'
    BY <1>1, <1>4, <1>7, <1>8, <1>9 DEF Weighs
  <1>13. Missed(p, <<"owner">>)'
    BY <1>1, <1>4 DEF Weighs
  <1>14. eval'[p].todo = Tail(todo)
    BY <1>todo
  <1>15. Weighs(p)'
    BY <1>1, <1>10, <1>11, <1>12, <1>13, <1>14 DEF Weighs
  <1> QED BY <1>15 DEF Weighed

\* The bucket's policy comes last, and decides.
LEMMA BucketWeighed ==
    ASSUME AccessInv, Witnessed, NEW p \in Procs, Shown(p), Weighed(p), Watch,
           at[p] = "policies", eval[p].todo = <<>>, call'[p] = call[p], who'[p] = who[p],
           at'[p] = IF /\ ~(eval[p].denied \/ Said(policy, p).denied)
                       /\ eval[p].allowed \/ Said(policy, p).allowed
                    THEN "act" ELSE "denied"
    PROVE  Weighed(p)'
  <1>src. PICK src : src = IF who[p] = Anonymous THEN "open" ELSE "bucket"
    OBVIOUS
  <1>1. Weighs(p)
    BY DEF Weighed
  <1>2. /\ \A f : Read(p, f) => Read(p, f)'
        /\ \A f : Missed(p, f) => Missed(p, f)'
        /\ \A word, q : Reads(p, word, q) => Reads(p, word, q)'
        /\ \A word, q : Misses(p, word, q) => Misses(p, word, q)'
    BY HistoryGrows
  <1>3. (Sources(p))' = IF who[p] = Anonymous THEN {"open"} ELSE PolicyNames \cup {"bucket"}
    BY DEF Sources
  <1>4. /\ Said(policy, p).allowed => Read(p, <<"allow", src>>)'
        /\ ~Said(policy, p).allowed => Missed(p, <<"allow", src>>)'
        /\ Said(policy, p).denied => Read(p, <<"deny", src>>)'
        /\ ~Said(policy, p).denied => Missed(p, <<"deny", src>>)'
    BY <1>2, <1>src, SaidRead
  <1>5. src \notin PolicyNames
    BY <1>src, NamesAssumption
  <1>6. /\ Said(policy, p).allowed => Reads(p, "allow", src)'
        /\ ~Said(policy, p).allowed => Misses(p, "allow", src)'
        /\ Said(policy, p).denied => Reads(p, "deny", src)'
        /\ ~Said(policy, p).denied => Misses(p, "deny", src)'
    BY <1>4, <1>5 DEF Reads, Misses, Attached
  <1>7. src \in (Sources(p))' /\ \A q \in (Sources(p))' : q = src \/ (who[p] # Anonymous /\ q \in PolicyNames)
    BY <1>3, <1>src
  <1>8. who[p] = Anonymous => ~eval[p].allowed /\ ~eval[p].denied
    BY <1>1, NothingReadFacts DEF Weighs
  <1>9. who[p] # Anonymous => PolicyNames \subseteq (Sources(p))'
    BY <1>3
  <1>10. ASSUME who[p] # Anonymous
         PROVE  /\ eval[p].allowed => \E q \in PolicyNames : Reads(p, "allow", q)'
                /\ eval[p].denied => \E q \in PolicyNames : Reads(p, "deny", q)'
                /\ ~eval[p].allowed => \A q \in PolicyNames : Misses(p, "allow", q)'
                /\ ~eval[p].denied => \A q \in PolicyNames : Misses(p, "deny", q)'
    BY <1>1, <1>2, <1>10 DEF Weighs, Unread
  <1>11. CASE at'[p] = "act"
    <2>1. ~eval[p].denied /\ ~Said(policy, p).denied /\ (eval[p].allowed \/ Said(policy, p).allowed)
      BY <1>11
    <2>2. \E q \in (Sources(p))' : Reads(p, "allow", q)'
      BY <1>6, <1>7, <1>8, <1>9, <1>10, <2>1
    <2>3. \A q \in (Sources(p))' : Misses(p, "deny", q)'
      BY <1>6, <1>7, <1>10, <2>1
    <2>4. Allowable(p)'
      BY <2>2, <2>3 DEF Allowable
    <2> QED BY <1>11, <2>4 DEF Weighed
  <1>12. CASE at'[p] = "denied"
    <2>1. who[p] # Anonymous => Missed(p, <<"owner">>)'
      BY <1>1, <1>2 DEF Weighs
    <2>2. \/ eval[p].denied \/ Said(policy, p).denied
          \/ ~eval[p].allowed /\ ~Said(policy, p).allowed
      BY <1>12
    <2>3. \/ \E q \in (Sources(p))' : Reads(p, "deny", q)'
          \/ \A q \in (Sources(p))' : Misses(p, "allow", q)'
      <3>1. CASE eval[p].denied \/ Said(policy, p).denied
        BY <1>6, <1>7, <1>8, <1>9, <1>10, <3>1
      <3>2. CASE ~eval[p].allowed /\ ~Said(policy, p).allowed
        BY <1>6, <1>7, <1>10, <3>2
      <3> QED BY <2>2, <3>1, <3>2
    <2>4. Deniable(p)'
      BY <2>1, <2>3 DEF Deniable
    <2> QED BY <1>12, <2>4 DEF Weighed
  <1> QED BY <1>11, <1>12

LEMMA JudgesWeighed ==
    ASSUME AccessInv, Witnessed, NEW p \in Procs, Shown(p), Weighed(p), Watch, Judges(p)
    PROVE  Weighed(p)'
  <1>1. CASE Ends(p)
    BY <1>1, IdleWeighed DEF Ends
  <1>2. CASE at[p] = "owner"
    BY <1>1, <1>2, OwnerWeighed DEF Judges, Moves
  <1>3. CASE at[p] = "policies" /\ eval[p].todo # <<>>
    BY <1>1, <1>3, PolicyWeighed DEF Judges, Moves
  <1>4. CASE at[p] = "policies" /\ eval[p].todo = <<>>
    BY <1>1, <1>4, BucketWeighed DEF Judges, Moves
  <1>5. CASE at[p] \in {"target", "list"} /\ Moves(p, "act")
    <2>1. call[p].route # "s3"
      <3>1. call[p].op.do \in {"CreateServiceAccount", "DeleteServiceAccount"}
        BY <1>5 DEF AccessInv, Stage
      <3> QED BY <3>1, OpKinds DEF AccessInv, Progress
    <2> QED BY <1>5, <2>1 DEF Moves, Weighed, Judgeable
  <1> QED BY <1>1, <1>2, <1>3, <1>4, <1>5 DEF Judges, Moves

LEMMA WeighedInvariant == Spec => []EveryoneWeighed
  <1>1. Init => EveryoneWeighed
    BY WhoFacts DEF Init, EveryoneWeighed, Weighed
  <1>2. ASSUME AccessInv, Witnessed, EveryoneShown, EveryoneWeighed, [Next]_vars, NEW q \in Procs
        PROVE  Weighed(q)'
    <2>1. Weighed(q) /\ Shown(q) /\ Stage(q)
      BY <1>2 DEF EveryoneWeighed, EveryoneShown, AccessInv
    <2>2. CASE Watch /\ at'[q] = at[q] /\ call'[q] = call[q] /\ who'[q] = who[q] /\ eval'[q] = eval[q]
      <3>1. CASE at[q] = "idle"
        BY <2>1, <2>2, <3>1, IdleWeighed DEF Stage, Weighed
      <3>2. CASE at[q] # "idle"
        BY <2>1, <2>2, <3>2, WeighedStays
      <3> QED BY <3>1, <3>2
    <2>3. CASE Watch /\ Asks(q)
      <3>1. ASSUME NEW c \in Sent, Comes(q, c)
            PROVE  Weighed(q)'
        <4>1. CASE c.by = "nothing"
          <5>1. at'[q] = "owner" /\ who'[q] = Anonymous /\ eval'[q] = NothingRead
            BY <2>1, <3>1, <4>1 DEF Comes, Weighed
          <5>2. Weighs(q)'
            BY <5>1 DEF Weighs
          <5> QED BY <5>1, <5>2, WhoFacts DEF Weighed
        <4>2. CASE c.by # "nothing"
          <5>1. /\ who'[q] = Nobody /\ call'[q] = c /\ at'[q] \in {"account", "session", "act", "name"}
                /\ at'[q] = "act" => c.by = "token"
            BY <3>1, <4>2, CallKinds DEF Comes
          <5>2. c.by = "token" => c.route # "s3"
            BY CallKinds
          <5> QED BY <5>1, <5>2, WhoFacts DEF Weighed, Judgeable
        <4> QED BY <4>1, <4>2
      <3>2. CASE Identifies(q)
        <4>1. CASE Ends(q)
          BY <4>1, IdleWeighed DEF Ends
        <4>2. CASE at[q] \in {"account", "session"} /\ \E s \in {"parent", "legacy", "tokenUser"} : Moves(q, s)
          BY <2>1, <4>2, IdleWeighed DEF Stage, Moves
        <4>3. CASE \E w : LetsIn(q, w)
          BY <1>2, <2>3, <4>3, EntersWeighed
        <4> QED BY <1>2, <3>2, <4>1, <4>2, <4>3, IdentifiesOutcome
      <3>3. CASE Judges(q)
        BY <1>2, <2>1, <2>3, <3>3, JudgesWeighed
      <3>4. CASE Operates(q)
        <4>1. CASE Ends(q)
          BY <4>1, IdleWeighed DEF Ends
        <4>2. CASE at[q] = "open" /\ Moves(q, "issue")
          BY <2>1, <4>2 DEF Moves, Weighed
        <4> QED BY <3>4, <4>1, <4>2 DEF Operates
      <3> QED BY <2>3, <3>1, <3>2, <3>3, <3>4 DEF Asks
    <2>4. CASE at'[q] = "idle" /\ who'[q] = Nobody /\ eval'[q] = NothingRead
      BY <2>4, IdleWeighed
    <2>5. CASE Watch /\ \E p \in Procs : Asks(p)
      <3>1. PICK p \in Procs : Asks(p)
        BY <2>5
      <3>2. q # p => at'[q] = at[q] /\ call'[q] = call[q] /\ who'[q] = who[q] /\ eval'[q] = eval[q]
        BY <3>1 DEF Asks, Alone
      <3> QED BY <2>2, <2>3, <2>5, <3>1, <3>2
    <2>6. CASE Watch /\ UNCHANGED progress
      BY <2>2, <2>6 DEF progress
    <2>7. CASE UNCHANGED vars
      BY <2>1, <2>7 DEF vars, progress, Weighed, Weighs, Unread, Judgeable, Allowable, Deniable, Sources, Reads, Misses,
                        Attached, Read, Missed
    <2> QED BY <1>2, <2>4, <2>5, <2>6, <2>7, NextShape
  <1>3. AccessInv /\ Witnessed /\ EveryoneShown /\ EveryoneWeighed /\ [Next]_vars => EveryoneWeighed'
    BY <1>2 DEF EveryoneWeighed
  <1> QED BY <1>1, <1>3, AccessInvariant, WitnessedInvariant, ShownInvariant, PTL DEF Spec

\* Whatever policies, and whoever changes them meanwhile, a decision is one
\* that what stood since the request arrived justifies.
THEOREM DecisionsAreJustified == Spec => []DecisionsJustified
  <1>1. EveryoneWeighed => DecisionsJustified
    BY DEF EveryoneWeighed, Weighed, DecisionsJustified, Judgeable, Allowable, Deniable
  <1> QED BY WeighedInvariant, <1>1, PTL
=============================================================================
