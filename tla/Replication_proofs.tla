------------------------- MODULE Replication_proofs -------------------------
(***************************************************************************)
(* Theorems about Replication, for any number of keys, requests, workers   *)
(* and targets: its types; that only a full queue, a restart or MaxTries   *)
(* failed calls lose the last event of a key; and that targets converge.   *)
(***************************************************************************)
EXTENDS Replication, TLAPS

USE TargetsAssumption, QueueAssumption, SizesAssumption, BoundsAssumption DEF MaxTries

LEMMA EventFields ==
    ASSUME NEW e \in Events
    PROVE  /\ e.type \in {"put", "delete"}
           /\ e.k \in Keys
           /\ e.n \in 1..MaxChanges
           /\ e.type = "put" => e.size \in Sizes
BY DEF Events

LEMMA DeleteEvent ==
    ASSUME NEW k \in Keys, NEW n \in 1..MaxChanges
    PROVE  [type |-> "delete", k |-> k, n |-> n] \in Events
BY DEF Events

LEMMA PutEvent ==
    ASSUME NEW k \in Keys, NEW n \in 1..MaxChanges, NEW s \in Sizes
    PROVE  [type |-> "put", k |-> k, n |-> n, size |-> s] \in Events
BY DEF Events

\* An attempt begins as a job.
LEMMA AttemptIsJob ==
    ASSUME NEW ev \in Events, NEW t \in Targets, NEW try \in 1..MaxTries
    PROVE  /\ Attempt(ev, t, try) \in Jobs
           /\ Attempt(ev, t, try).ev = ev
           /\ Attempt(ev, t, try).t = t
           /\ Attempt(ev, t, try).try = try
           /\ Attempt(ev, t, try).at \in {"read", "call"}
           /\ Attempt(ev, t, try).at = "read" => ev.type = "put"
           /\ ev.type = "put" => Attempt(ev, t, try).at = "read"
<1>1. CASE ev.type = "put"
  BY <1>1 DEF Attempt, Jobs
<1>2. CASE ev.type # "put"
  BY <1>2 DEF Attempt, Jobs
<1> QED
  BY <1>1, <1>2

\* The deletions that a request takes on are events.
LEMMA ListIsTodo ==
    ASSUME NEW ks \in Lists, changes \in 0..MaxChanges, changes + Len(ks) <= MaxChanges,
           NEW todo, todo = [i \in DOMAIN ks |-> [type |-> "delete", k |-> ks[i], n |-> changes + i]]
    PROVE  /\ todo \in Seq(Events)
           /\ Len(ks) \in Nat
           /\ \A i \in DOMAIN todo : /\ todo[i].type = "delete"
                                     /\ todo[i].n \in (changes + 1)..(changes + Len(ks))
<1>1. ks \in Seq(Keys)
  <2>1. CASE \E k \in Keys : ks = <<k>>
    BY <2>1
  <2>2. CASE \E a, b \in Keys : ks = <<a, b>>
    BY <2>2
  <2> QED
    BY <2>1, <2>2 DEF Lists
<1>2. Len(ks) \in Nat /\ DOMAIN ks = 1..Len(ks) /\ \A i \in 1..Len(ks) : ks[i] \in Keys
  BY <1>1
<1>3. \A i \in 1..Len(ks) : [type |-> "delete", k |-> ks[i], n |-> changes + i] \in Events
  BY <1>2, DeleteEvent
<1>4. todo \in [1..Len(ks) -> Events]
  BY <1>2, <1>3
<1> QED
  BY <1>2, <1>4

\* A worker that carries an event has a job.
LEMMA WorkerHasJob ==
    ASSUME TypeOK, NEW w \in Workers, worker[w].at \in {"read", "call", "wait"}
    PROVE  worker[w] \in Jobs
<1>1. worker[w] \in {Idle} \cup Jobs
  BY DEF TypeOK
<1>2. worker[w] # Idle
  BY DEF Idle
<1> QED
  BY <1>1, <1>2

LEMMA JobFields ==
    ASSUME NEW r \in Jobs
    PROVE  /\ r.at \in {"read", "call", "wait"}
           /\ r.ev \in Events
           /\ r.t \in Targets
           /\ r.try \in 1..MaxTries
           /\ r.body \in Objects \cup {None}
           /\ r # Idle
           /\ r.at = "read" => r.ev.type = "put"
           /\ r.at = "call" /\ r.ev.type = "put" => r.body \in Objects
BY DEF Jobs, Idle

\* Where NextTarget leaves a worker.
LEMMA NextTargetJob ==
    ASSUME NEW r \in Jobs
    PROVE  r.t # NumTargets => r.t + 1 \in Targets
BY JobFields DEF Targets

-----------------------------------------------------------------------------
(***************************************************************************)
(* Types.                                                                  *)
(***************************************************************************)
ReqType == req \in [Procs -> Requests]
QueueType == queue \in Seq(Events) /\ Len(queue) <= QueueSize
WorkerType == worker \in [Workers -> {Idle} \cup Jobs]
TargetType == target \in [Targets -> [Keys -> Copies]]
LateType == late \subseteq [t : Targets, k : Keys, ev : Events, obj : Copies]
SiteType == /\ source \in [Keys -> Objects \cup {None}]
            /\ changes \in 0..MaxChanges
            /\ latest \in [Keys -> 0..MaxChanges]
            /\ untold \subseteq Keys
HistoryType == /\ raced \subseteq Keys
               /\ lost \subseteq Targets \X Keys
               /\ calm \in BOOLEAN
               /\ failures \in 0..MaxTries

LEMMA TypeParts ==
    /\ TypeOK <=> /\ ReqType /\ QueueType /\ WorkerType /\ TargetType /\ LateType
                  /\ SiteType /\ HistoryType
    /\ TypeOK' <=> /\ ReqType' /\ QueueType' /\ WorkerType' /\ TargetType' /\ LateType'
                   /\ SiteType' /\ HistoryType'
BY DEF TypeOK, ReqType, QueueType, WorkerType, TargetType, LateType, SiteType, HistoryType

\* A request is replaced by another.
SetReq(p, r) == req' = [req EXCEPT ![p] = r]
SetWorker(w, r) == worker' = [worker EXCEPT ![w] = r]

LEMMA SetReqType ==
    ASSUME ReqType, NEW p \in Procs, NEW r \in Requests, SetReq(p, r)
    PROVE  ReqType'
BY DEF ReqType, SetReq

LEMMA SetWorkerType ==
    ASSUME WorkerType, NEW w \in Workers, NEW r \in {Idle} \cup Jobs, SetWorker(w, r)
    PROVE  WorkerType'
BY DEF WorkerType, SetWorker

LEMMA ReqParts ==
    ASSUME ReqType, NEW p \in Procs
    PROVE  /\ req[p] \in Requests
           /\ req[p].todo \in Seq(Events) /\ req[p].news \in Seq(Events)
BY DEF ReqType, Requests

\* A request has two fields; one of them is replaced.
LEMMA OneField ==
    ASSUME NEW r \in Requests, NEW todo, NEW news
    PROVE  /\ [r EXCEPT !.news = news] = [todo |-> r.todo, news |-> news]
           /\ [r EXCEPT !.todo = todo] = [todo |-> todo, news |-> r.news]
BY DEF Requests

LEMMA InitType == Init => TypeOK
<1> SUFFICES ASSUME Init PROVE TypeOK
  OBVIOUS
<1>1. NoRequest \in Requests
  BY DEF NoRequest, Requests
<1>2. ReqType /\ WorkerType /\ LateType /\ HistoryType
  BY <1>1 DEF Init, ReqType, WorkerType, LateType, HistoryType
<1>3. QueueType
  BY DEF Init, QueueType
<1>4. TargetType /\ SiteType
  BY DEF Init, TargetType, SiteType, Copies
<1> QED
  BY <1>2, <1>3, <1>4, TypeParts

\* Announcing a change keeps the types of what it sets.
LEMMA AnnounceType ==
    ASSUME SiteType, HistoryType, NEW k \in Keys, NEW n \in 1..MaxChanges, Announce(k, n)
    PROVE  /\ latest' \in [Keys -> 0..MaxChanges]
           /\ lost' \subseteq Targets \X Keys
           /\ raced' \subseteq Keys
BY DEF SiteType, HistoryType, Announce

LEMMA PutObjectType ==
    ASSUME TypeOK, NEW p \in Procs, NEW k \in Keys, NEW s \in Sizes, NEW l \in Sizes, PutObject(p, k, s, l)
    PROVE  TypeOK'
<1> DEFINE n == changes + 1
           ev == [type |-> "put", k |-> k, n |-> n, size |-> l]
           r == [todo |-> <<>>, news |-> <<ev>>]
<1>0. ReqType /\ QueueType /\ WorkerType /\ TargetType /\ LateType /\ SiteType /\ HistoryType
  BY TypeParts
<1>1. n \in 1..MaxChanges
  BY <1>0 DEF PutObject, SiteType
<1>2. ev \in Events
  BY <1>1, PutEvent
<1>3. r \in Requests
  BY <1>2 DEF Requests
<1>4. SetReq(p, r)
  <2>1. req[p] = NoRequest /\ req \in [Procs -> Requests]
    BY <1>0 DEF PutObject, ReqType
  <2>2. req' = [req EXCEPT ![p] = [req[p] EXCEPT !.news = <<ev>>]]
    BY DEF PutObject
  <2>3. [req[p] EXCEPT !.news = <<ev>>] = r
    BY <2>1 DEF NoRequest
  <2> QED
    BY <2>2, <2>3 DEF SetReq
<1>5. ReqType'
  BY <1>0, <1>3, <1>4, SetReqType
<1>6. Announce(k, n)
  BY DEF PutObject
<1>7. SiteType' /\ HistoryType'
  <2>1. [n |-> n, size |-> s] \in Objects
    BY <1>1 DEF Objects
  <2>2. source' \in [Keys -> Objects \cup {None}]
    BY <1>0, <2>1 DEF PutObject, SiteType
  <2> QED
    BY <1>0, <1>1, <1>6, <2>2, AnnounceType DEF PutObject, SiteType, HistoryType
<1>8. QueueType' /\ WorkerType' /\ TargetType' /\ LateType'
  BY <1>0 DEF PutObject, QueueType, WorkerType, TargetType, LateType
<1> QED
  BY <1>5, <1>7, <1>8, TypeParts

LEMMA BeginDeleteType ==
    ASSUME TypeOK, NEW p \in Procs, NEW ks \in Lists, BeginDelete(p, ks)
    PROVE  TypeOK'
<1> DEFINE todo == [i \in DOMAIN ks |-> [type |-> "delete", k |-> ks[i], n |-> changes + i]]
           r == [todo |-> todo, news |-> <<>>]
<1>0. ReqType /\ QueueType /\ WorkerType /\ TargetType /\ LateType /\ SiteType /\ HistoryType
  BY TypeParts
<1>1. changes \in 0..MaxChanges /\ changes + Len(ks) <= MaxChanges
  BY <1>0 DEF BeginDelete, SiteType
<1>2. todo \in Seq(Events) /\ Len(ks) \in Nat
  BY <1>1, ListIsTodo
<1>3. r \in Requests
  BY <1>2 DEF Requests
<1>4. SetReq(p, r)
  <2>1. req[p] = NoRequest /\ req \in [Procs -> Requests]
    BY <1>0 DEF BeginDelete, ReqType
  <2>2. req' = [req EXCEPT ![p] = [req[p] EXCEPT !.todo = todo]]
    BY DEF BeginDelete
  <2> HIDE DEF todo
  <2>3. [req[p] EXCEPT !.todo = todo] = r
    BY <2>1 DEF NoRequest
  <2> QED
    BY <2>2, <2>3 DEF SetReq
<1>5. ReqType'
  BY <1>0, <1>3, <1>4, SetReqType
<1>6. SiteType' /\ HistoryType'
  BY <1>0, <1>1, <1>2 DEF BeginDelete, SiteType, HistoryType, history
<1>7. QueueType' /\ WorkerType' /\ TargetType' /\ LateType'
  BY <1>0 DEF BeginDelete, QueueType, WorkerType, TargetType, LateType
<1> QED
  BY <1>5, <1>6, <1>7, TypeParts

LEMMA DeleteNextType ==
    ASSUME TypeOK, NEW p \in Procs, DeleteNext(p)
    PROVE  TypeOK'
<1> DEFINE ev == Head(req[p].todo)
           r == [todo |-> Tail(req[p].todo), news |-> Append(req[p].news, ev)]
<1>0. ReqType /\ QueueType /\ WorkerType /\ TargetType /\ LateType /\ SiteType /\ HistoryType
  BY TypeParts
<1>1. req[p].todo \in Seq(Events) /\ req[p].todo # <<>> /\ req[p].news \in Seq(Events)
  BY <1>0, ReqParts DEF DeleteNext
<1>2. ev \in Events /\ r \in Requests
  BY <1>1 DEF Requests
<1>3. ev.k \in Keys /\ ev.n \in 1..MaxChanges
  BY <1>2, EventFields
<1>4. SetReq(p, r)
  BY DEF DeleteNext, SetReq
<1>5. ReqType'
  BY <1>0, <1>2, <1>4, SetReqType
<1>6. Announce(ev.k, ev.n)
  BY DEF DeleteNext
<1>7. source' \in [Keys -> Objects \cup {None}] /\ untold' \subseteq Keys
  <2>1. CASE source' = [source EXCEPT ![ev.k] = None] /\ untold' = untold \ {ev.k}
    BY <1>0, <2>1 DEF SiteType
  <2>2. CASE UNCHANGED source /\ untold' = untold \cup {ev.k}
    BY <1>0, <1>3, <2>2 DEF SiteType
  <2>3. CASE /\ \E s \in Sizes : source' = [source EXCEPT ![ev.k] = [n |-> ev.n, size |-> s]]
             /\ untold' = untold \cup {ev.k}
    <3>1. PICK s \in Sizes : source' = [source EXCEPT ![ev.k] = [n |-> ev.n, size |-> s]]
      BY <2>3
    <3>2. [n |-> ev.n, size |-> s] \in Objects
      BY <1>3 DEF Objects
    <3> QED
      BY <1>0, <1>3, <2>3, <3>1, <3>2 DEF SiteType
  <2> QED
    BY <2>1, <2>2, <2>3 DEF DeleteNext
<1>8. SiteType' /\ HistoryType'
  BY <1>0, <1>3, <1>6, <1>7, AnnounceType DEF DeleteNext, SiteType, HistoryType
<1>9. QueueType' /\ WorkerType' /\ TargetType' /\ LateType'
  BY <1>0 DEF DeleteNext, QueueType, WorkerType, TargetType, LateType
<1> QED
  BY <1>5, <1>8, <1>9, TypeParts

LEMMA DeleteRefusedType ==
    ASSUME TypeOK, NEW p \in Procs, DeleteRefused(p)
    PROVE  TypeOK'
<1> DEFINE r == [todo |-> Tail(req[p].todo), news |-> req[p].news]
<1>0. ReqType /\ QueueType /\ WorkerType /\ TargetType /\ LateType /\ SiteType /\ HistoryType
  BY TypeParts
<1>1. req[p].todo \in Seq(Events) /\ req[p].todo # <<>> /\ req[p].news \in Seq(Events)
  BY <1>0, ReqParts DEF DeleteRefused
<1>2. r \in Requests
  BY <1>1 DEF Requests
<1>3. SetReq(p, r)
  <2>1. req[p] \in Requests
    BY <1>0, ReqParts
  <2>2. req' = [req EXCEPT ![p] = [req[p] EXCEPT !.todo = Tail(req[p].todo)]]
    BY DEF DeleteRefused
  <2> QED
    BY <2>1, <2>2, OneField DEF SetReq
<1>4. ReqType'
  BY <1>0, <1>2, <1>3, SetReqType
<1>5. QueueType' /\ WorkerType' /\ TargetType' /\ LateType' /\ SiteType' /\ HistoryType'
  BY <1>0 DEF DeleteRefused, QueueType, WorkerType, TargetType, LateType, SiteType,
              HistoryType, site, history
<1> QED
  BY <1>4, <1>5, TypeParts

LEMMA SilentChangeType ==
    ASSUME TypeOK, NEW k \in Keys, SilentChange(k)
    PROVE  TypeOK'
<1>0. ReqType /\ QueueType /\ WorkerType /\ TargetType /\ LateType /\ SiteType /\ HistoryType
  BY TypeParts
<1>1. changes + 1 \in 1..MaxChanges
  BY <1>0 DEF SilentChange, SiteType
<1>2. source' \in [Keys -> Objects \cup {None}]
  <2>1. CASE source' = [source EXCEPT ![k] = None]
    BY <1>0, <2>1 DEF SiteType
  <2>2. CASE \E s \in Sizes : source' = [source EXCEPT ![k] = [n |-> changes + 1, size |-> s]]
    <3>1. PICK s \in Sizes : source' = [source EXCEPT ![k] = [n |-> changes + 1, size |-> s]]
      BY <2>2
    <3>2. [n |-> changes + 1, size |-> s] \in Objects
      BY <1>1 DEF Objects
    <3> QED
      BY <1>0, <3>1, <3>2 DEF SiteType
  <2> QED
    BY <2>1, <2>2 DEF SilentChange
<1>3. SiteType' /\ HistoryType'
  BY <1>0, <1>1, <1>2 DEF SilentChange, SiteType, HistoryType, history
<1>4. ReqType' /\ QueueType' /\ WorkerType' /\ TargetType' /\ LateType'
  BY <1>0 DEF SilentChange, ReqType, QueueType, WorkerType, TargetType, LateType
<1> QED
  BY <1>3, <1>4, TypeParts

LEMMA LostWithType ==
    ASSUME NEW ev \in Events, NEW ts \in SUBSET Targets
    PROVE  LostWith(ev, ts) \subseteq Targets \X Keys
BY EventFields DEF LostWith

LEMMA EnqueueType ==
    ASSUME TypeOK, NEW p \in Procs, Enqueue(p)
    PROVE  TypeOK'
<1> DEFINE ev == Head(req[p].news)
           r == [todo |-> req[p].todo, news |-> Tail(req[p].news)]
<1>0. ReqType /\ QueueType /\ WorkerType /\ TargetType /\ LateType /\ SiteType /\ HistoryType
  BY TypeParts
<1>1. req[p].todo \in Seq(Events) /\ req[p].news \in Seq(Events) /\ req[p].news # <<>>
  BY <1>0, ReqParts DEF Enqueue
<1>2. ev \in Events /\ r \in Requests
  BY <1>1 DEF Requests
<1>3. SetReq(p, r)
  <2>1. req[p] \in Requests
    BY <1>0, ReqParts
  <2>2. req' = [req EXCEPT ![p] = [req[p] EXCEPT !.news = Tail(req[p].news)]]
    BY DEF Enqueue
  <2> QED
    BY <2>1, <2>2, OneField DEF SetReq
<1>4. ReqType'
  BY <1>0, <1>2, <1>3, SetReqType
<1>5. QueueType' /\ lost' \subseteq Targets \X Keys /\ calm' \in BOOLEAN
  <2>1. CASE Len(queue) < QueueSize
    <3>1. queue' = Append(queue, ev) /\ UNCHANGED <<lost, calm>>
      BY <2>1 DEF Enqueue
    <3> QED
      BY <1>0, <1>2, <2>1, <3>1 DEF QueueType, HistoryType
  <2>2. CASE ~(Len(queue) < QueueSize)
    <3>1. queue' = queue /\ lost' = lost \cup LostWith(ev, Targets) /\ calm' = FALSE
      BY <2>2 DEF Enqueue
    <3>2. LostWith(ev, Targets) \subseteq Targets \X Keys
      BY <1>2, LostWithType
    <3> QED
      BY <1>0, <3>1, <3>2 DEF QueueType, HistoryType
  <2> QED
    BY <2>1, <2>2
<1>6. HistoryType'
  BY <1>0, <1>5 DEF Enqueue, HistoryType
<1>7. WorkerType' /\ TargetType' /\ LateType' /\ SiteType'
  BY <1>0 DEF Enqueue, WorkerType, TargetType, LateType, SiteType, site
<1> QED
  BY <1>4, <1>5, <1>6, <1>7, TypeParts

LEMMA TakeEventType ==
    ASSUME TypeOK, NEW w \in Workers, TakeEvent(w)
    PROVE  TypeOK'
<1> DEFINE ev == Head(queue)
           r == Attempt(ev, 1, 1)
<1>0. ReqType /\ QueueType /\ WorkerType /\ TargetType /\ LateType /\ SiteType /\ HistoryType
  BY TypeParts
<1>1. ev \in Events /\ Tail(queue) \in Seq(Events) /\ Len(Tail(queue)) = Len(queue) - 1
  BY <1>0 DEF TakeEvent, QueueType
<1>2. 1 \in Targets /\ 1 \in 1..MaxTries
  BY DEF Targets
<1>3. r \in Jobs
  BY <1>1, <1>2, AttemptIsJob
<1>4. SetWorker(w, r)
  BY DEF TakeEvent, SetWorker
<1>5. WorkerType'
  BY <1>0, <1>3, <1>4, SetWorkerType
<1>6. QueueType'
  BY <1>0, <1>1 DEF TakeEvent, QueueType
<1>7. ev.k \in Keys
  BY <1>1, EventFields
<1>8. HistoryType'
  BY <1>0, <1>7 DEF TakeEvent, HistoryType
<1>9. ReqType' /\ TargetType' /\ LateType' /\ SiteType'
  BY <1>0 DEF TakeEvent, ReqType, TargetType, LateType, SiteType, site
<1> QED
  BY <1>5, <1>6, <1>8, <1>9, TypeParts

\* Going on to the next target, or to rest.
LEMMA NextTargetSets ==
    ASSUME NEW w \in Workers, worker[w] \in Jobs, NextTarget(w)
    PROVE  \E r \in {Idle} \cup Jobs :
              /\ SetWorker(w, r)
              /\ IF worker[w].t = NumTargets THEN r = Idle ELSE r # Idle /\ r.t = worker[w].t + 1
              /\ r # Idle => /\ r.ev = worker[w].ev /\ r.try = 1 /\ r.at \in {"read", "call"}
                             /\ r.at = "read" => r.ev.type = "put"
                             /\ r.ev.type = "put" => r.at = "read"
<1> DEFINE j == worker[w]
<1>1. j.ev \in Events /\ j.t \in Targets /\ 1 \in 1..MaxTries
  BY JobFields
<1>2. CASE j.t = NumTargets
  BY <1>2 DEF NextTarget, SetWorker
<1>3. CASE j.t # NumTargets
  <2>1. j.t + 1 \in Targets
    BY <1>1, <1>3 DEF Targets
  <2>2. SetWorker(w, Attempt(j.ev, j.t + 1, 1))
    BY <1>3 DEF NextTarget, SetWorker
  <2> QED
    BY <1>1, <1>3, <2>1, <2>2, AttemptIsJob, JobFields
<1> QED
  BY <1>2, <1>3

LEMMA CallSets ==
    ASSUME NEW w \in Workers, worker[w] \in Jobs, NEW body \in Objects, Goto(w, "call", body)
    PROVE  \E r \in Jobs :
              /\ SetWorker(w, r)
              /\ r.ev = worker[w].ev /\ r.t = worker[w].t /\ r.try = worker[w].try
              /\ r.at = "call" /\ r.body = body
<1> DEFINE j == worker[w]
           r == [at |-> "call", ev |-> j.ev, t |-> j.t, try |-> j.try, body |-> body]
<1>1. r \in Jobs
  BY JobFields DEF Jobs
<1>2. SetWorker(w, r)
  BY DEF Goto, SetWorker
<1> QED
  BY <1>1, <1>2

LEMMA FailAttemptSets ==
    ASSUME NEW w \in Workers, worker[w] \in Jobs, FailAttempt(w)
    PROVE  \E r \in Jobs :
              /\ SetWorker(w, r)
              /\ r.ev = worker[w].ev /\ r.t = worker[w].t /\ r.try = worker[w].try
              /\ r.at = "wait"
<1> DEFINE j == worker[w]
           r == [at |-> "wait", ev |-> j.ev, t |-> j.t, try |-> j.try, body |-> None]
<1>1. r \in Jobs
  BY JobFields DEF Jobs
<1>2. SetWorker(w, r)
  BY DEF FailAttempt, Goto, SetWorker
<1> QED
  BY <1>1, <1>2

LEMMA ReadSourceType ==
    ASSUME TypeOK, NEW w \in Workers, ReadSource(w)
    PROVE  TypeOK'
<1>0. ReqType /\ QueueType /\ WorkerType /\ TargetType /\ LateType /\ SiteType /\ HistoryType
  BY TypeParts
<1>1. worker[w] \in Jobs
  BY WorkerHasJob DEF ReadSource
<1>2. source[worker[w].ev.k] \in Objects \cup {None}
  BY <1>0, <1>1, JobFields, EventFields DEF SiteType
<1>3. PICK r \in Jobs : SetWorker(w, r)
  <2>1. CASE source[worker[w].ev.k] = None
    BY <1>1, <2>1, FailAttemptSets DEF ReadSource
  <2>2. CASE source[worker[w].ev.k] # None
    BY <1>1, <1>2, <2>2, CallSets DEF ReadSource
  <2> QED
    BY <2>1, <2>2
<1>4. WorkerType'
  BY <1>0, <1>3, SetWorkerType
<1>5. ReqType' /\ QueueType' /\ TargetType' /\ LateType' /\ SiteType' /\ HistoryType'
  BY <1>0 DEF ReadSource, ReqType, QueueType, TargetType, LateType, SiteType, HistoryType, site, history
<1> QED
  BY <1>4, <1>5, TypeParts

\* What a call stores.
LEMMA SentType ==
    ASSUME NEW r \in Jobs, r.at = "call"
    PROVE  Sent(r) \in Copies
<1>1. CASE r.ev.type = "put"
  <2>1. r.body.n \in 1..MaxChanges
    BY <1>1, JobFields DEF Objects
  <2>2. Fits(r) \in BOOLEAN
    BY DEF Fits
  <2> QED
    BY <1>1, <2>1, <2>2 DEF Sent, Copies
<1>2. CASE r.ev.type # "put"
  BY <1>2 DEF Sent, Copies
<1> QED
  BY <1>1, <1>2

\* The target's object is replaced.
LEMMA SetTargetType ==
    ASSUME TargetType, NEW t \in Targets, NEW k \in Keys, NEW c \in Copies,
           target' = [target EXCEPT ![t][k] = c]
    PROVE  TargetType'
BY DEF TargetType

LEMMA CallType ==
    ASSUME TypeOK, NEW w \in Workers, Call(w)
    PROVE  TypeOK'
<1>0. ReqType /\ QueueType /\ WorkerType /\ TargetType /\ LateType /\ SiteType /\ HistoryType
  BY TypeParts
<1>1. worker[w] \in Jobs
  BY WorkerHasJob DEF Call
<1>2. worker[w].t \in Targets /\ worker[w].ev.k \in Keys /\ Sent(worker[w]) \in Copies
  BY <1>1, JobFields, EventFields, SentType DEF Call
<1>3. TargetType'
  BY <1>0, <1>2, SetTargetType DEF Call
<1>4. PICK r \in {Idle} \cup Jobs : SetWorker(w, r)
  BY <1>1, NextTargetSets DEF Call
<1>5. WorkerType'
  BY <1>0, <1>4, SetWorkerType
<1>6. ReqType' /\ QueueType' /\ LateType' /\ SiteType' /\ HistoryType'
  BY <1>0 DEF Call, ReqType, QueueType, LateType, SiteType, HistoryType, site, history
<1> QED
  BY <1>3, <1>5, <1>6, TypeParts

LEMMA CallMisfitsType ==
    ASSUME TypeOK, NEW w \in Workers, CallMisfits(w)
    PROVE  TypeOK'
<1>0. ReqType /\ QueueType /\ WorkerType /\ TargetType /\ LateType /\ SiteType /\ HistoryType
  BY TypeParts
<1>1. worker[w] \in Jobs
  BY WorkerHasJob DEF CallMisfits
<1>2. worker[w].t \in Targets /\ worker[w].ev.k \in Keys /\ Sent(worker[w]) \in Copies
  BY <1>1, JobFields, EventFields, SentType DEF CallMisfits
<1>3. TargetType'
  <2>1. CASE UNCHANGED target
    BY <1>0, <2>1 DEF TargetType
  <2>2. CASE target' = [target EXCEPT ![worker[w].t][worker[w].ev.k] = Sent(worker[w])]
    BY <1>0, <1>2, <2>2, SetTargetType
  <2> QED
    BY <2>1, <2>2 DEF CallMisfits
<1>4. PICK r \in Jobs : SetWorker(w, r)
  BY <1>1, FailAttemptSets DEF CallMisfits
<1>5. WorkerType'
  BY <1>0, <1>4, SetWorkerType
<1>6. ReqType' /\ QueueType' /\ LateType' /\ SiteType' /\ HistoryType'
  BY <1>0 DEF CallMisfits, ReqType, QueueType, LateType, SiteType, HistoryType, site, history
<1> QED
  BY <1>3, <1>5, <1>6, TypeParts

LEMMA CallFailsType ==
    ASSUME TypeOK, NEW w \in Workers, CallFails(w)
    PROVE  TypeOK'
<1>0. ReqType /\ QueueType /\ WorkerType /\ TargetType /\ LateType /\ SiteType /\ HistoryType
  BY TypeParts
<1>1. worker[w] \in Jobs
  BY WorkerHasJob DEF CallFails
<1>2. /\ worker[w].t \in Targets /\ worker[w].ev \in Events /\ worker[w].ev.k \in Keys
      /\ Sent(worker[w]) \in Copies
  BY <1>1, JobFields, EventFields, SentType DEF CallFails
<1>3. LateType'
  BY <1>0, <1>2 DEF CallFails, LateType
<1>4. PICK r \in Jobs : SetWorker(w, r)
  BY <1>1, FailAttemptSets DEF CallFails
<1>5. WorkerType'
  BY <1>0, <1>4, SetWorkerType
<1>6. HistoryType'
  BY <1>0 DEF CallFails, HistoryType
<1>7. ReqType' /\ QueueType' /\ TargetType' /\ SiteType'
  BY <1>0 DEF CallFails, ReqType, QueueType, TargetType, SiteType, site
<1> QED
  BY <1>3, <1>5, <1>6, <1>7, TypeParts

LEMMA WaitSets ==
    ASSUME NEW w \in Workers, worker[w] \in Jobs, Wait(w)
    PROVE  \E r \in {Idle} \cup Jobs :
              /\ SetWorker(w, r)
              /\ r # Idle =>
                    /\ r.ev = worker[w].ev
                    /\ r.try = 1 \/ r.try = worker[w].try + 1
                    /\ r.at \in {"read", "call"}
                    /\ r.ev.type = "put" => r.at = "read"
<1> DEFINE j == worker[w]
<1>1. CASE j.try < MaxTries
  <2>1. j.ev \in Events /\ j.t \in Targets /\ j.try + 1 \in 1..MaxTries
    BY <1>1, JobFields
  <2>2. SetWorker(w, Attempt(j.ev, j.t, j.try + 1))
    BY <1>1 DEF Wait, SetWorker
  <2> QED
    BY <2>1, <2>2, AttemptIsJob
<1>2. CASE ~(j.try < MaxTries)
  <2>1. NextTarget(w)
    BY <1>2 DEF Wait
  <2> QED
    BY <2>1, NextTargetSets
<1> QED
  BY <1>1, <1>2

LEMMA WaitType ==
    ASSUME TypeOK, NEW w \in Workers, Wait(w)
    PROVE  TypeOK'
<1>0. ReqType /\ QueueType /\ WorkerType /\ TargetType /\ LateType /\ SiteType /\ HistoryType
  BY TypeParts
<1>1. worker[w] \in Jobs
  BY WorkerHasJob DEF Wait
<1>2. PICK r \in {Idle} \cup Jobs : SetWorker(w, r)
  BY <1>1, WaitSets
<1>3. WorkerType'
  BY <1>0, <1>2, SetWorkerType
<1>4. LostWith(worker[w].ev, {worker[w].t}) \subseteq Targets \X Keys
  BY <1>1, JobFields, LostWithType
<1>5. HistoryType'
  BY <1>0, <1>4 DEF Wait, HistoryType
<1>6. ReqType' /\ QueueType' /\ TargetType' /\ LateType' /\ SiteType'
  BY <1>0 DEF Wait, ReqType, QueueType, TargetType, LateType, SiteType, site
<1> QED
  BY <1>3, <1>5, <1>6, TypeParts

LEMMA LandLateType ==
    ASSUME TypeOK, NEW c \in late, LandLate(c)
    PROVE  TypeOK'
<1>0. ReqType /\ QueueType /\ WorkerType /\ TargetType /\ LateType /\ SiteType /\ HistoryType
  BY TypeParts
<1>1. c.t \in Targets /\ c.k \in Keys /\ c.obj \in Copies
  BY <1>0 DEF LateType
<1>2. TargetType'
  BY <1>0, <1>1, SetTargetType DEF LandLate
<1>3. LateType' /\ HistoryType'
  BY <1>0, <1>1 DEF LandLate, LateType, HistoryType
<1>4. ReqType' /\ QueueType' /\ WorkerType' /\ SiteType'
  BY <1>0 DEF LandLate, ReqType, QueueType, WorkerType, SiteType, site
<1> QED
  BY <1>2, <1>3, <1>4, TypeParts

\* What a restart forgets are events.
LEMMA PendingType ==
    ASSUME TypeOK, NEW e \in Pending
    PROVE  e[1] \in Events /\ e[2] \subseteq Targets
<1>0. ReqType /\ QueueType /\ WorkerType
  BY TypeParts
<1>1. CASE \E p \in Procs : \E i \in DOMAIN req[p].news : e = <<req[p].news[i], Targets>>
  <2>1. PICK p \in Procs : \E i \in DOMAIN req[p].news : e = <<req[p].news[i], Targets>>
    BY <1>1
  <2>2. req[p].news \in Seq(Events)
    BY <1>0, ReqParts
  <2> QED
    BY <2>1, <2>2
<1>2. CASE \E i \in DOMAIN queue : e = <<queue[i], Targets>>
  BY <1>0, <1>2 DEF QueueType
<1>3. CASE \E w \in Workers : worker[w] # Idle /\ e = <<worker[w].ev, worker[w].t..NumTargets>>
  <2>1. PICK w \in Workers : worker[w] # Idle /\ e = <<worker[w].ev, worker[w].t..NumTargets>>
    BY <1>3
  <2>2. worker[w] \in Jobs
    BY <1>0, <2>1 DEF WorkerType
  <2>3. worker[w].ev \in Events /\ worker[w].t \in 1..NumTargets
    BY <2>2, JobFields DEF Targets
  <2> QED
    BY <2>1, <2>3 DEF Targets
<1>4. \/ \E p \in Procs : \E i \in DOMAIN req[p].news : e = <<req[p].news[i], Targets>>
      \/ \E i \in DOMAIN queue : e = <<queue[i], Targets>>
      \/ \E w \in Workers : worker[w] # Idle /\ e = <<worker[w].ev, worker[w].t..NumTargets>>
  <2> DEFINE A == UNION {{<<req[p].news[i], Targets>> : i \in DOMAIN req[p].news} : p \in Procs}
             B == {<<queue[i], Targets>> : i \in DOMAIN queue}
             C == {<<worker[w].ev, worker[w].t..NumTargets>> : w \in {v \in Workers : worker[v] # Idle}}
  <2>1. e \in A \/ e \in B \/ e \in C
    <3>1. Pending = A \cup B \cup C
      BY Zenon DEF Pending
    <3> HIDE DEF A, B, C
    <3> QED
      BY <3>1
  <2>2. e \in A => \E p \in Procs : \E i \in DOMAIN req[p].news : e = <<req[p].news[i], Targets>>
    OBVIOUS
  <2>3. e \in B => \E i \in DOMAIN queue : e = <<queue[i], Targets>>
    OBVIOUS
  <2>4. e \in C => \E w \in Workers : /\ worker[w] # Idle
                                     /\ e = <<worker[w].ev, worker[w].t..NumTargets>>
    OBVIOUS
  <2> QED
    BY <2>1, <2>2, <2>3, <2>4
<1> QED
  BY <1>1, <1>2, <1>3, <1>4

LEMMA RestartType ==
    ASSUME TypeOK, Restart
    PROVE  TypeOK'
<1>0. ReqType /\ QueueType /\ WorkerType /\ TargetType /\ LateType /\ SiteType /\ HistoryType
  BY TypeParts
<1>1. ReqType' /\ QueueType' /\ WorkerType'
  BY DEF Restart, ReqType, QueueType, WorkerType, NoRequest, Requests
<1>2. \A e \in Pending : LostWith(e[1], e[2]) \subseteq Targets \X Keys
  BY PendingType, LostWithType
<1>3. HistoryType'
  BY <1>0, <1>2 DEF Restart, HistoryType
<1>4. TargetType' /\ LateType' /\ SiteType'
  BY <1>0 DEF Restart, TargetType, LateType, SiteType, site
<1> QED
  BY <1>1, <1>3, <1>4, TypeParts

\* Every step keeps the types.
LEMMA StepType == TypeOK /\ [Next]_vars => TypeOK'
<1> SUFFICES ASSUME TypeOK, [Next]_vars PROVE TypeOK'
  OBVIOUS
<1>1. ASSUME NEW p \in Procs, NEW k \in Keys, NEW s \in Sizes, NEW l \in Sizes, PutObject(p, k, s, l) PROVE TypeOK'
  BY <1>1, PutObjectType
<1>2. ASSUME NEW p \in Procs, NEW ks \in Lists, BeginDelete(p, ks) PROVE TypeOK'
  BY <1>2, BeginDeleteType
<1>3. ASSUME NEW p \in Procs, RequestStep(p) PROVE TypeOK'
  BY <1>3, EnqueueType, DeleteNextType, DeleteRefusedType DEF RequestStep
<1>4. ASSUME NEW k \in Keys, SilentChange(k) PROVE TypeOK'
  BY <1>4, SilentChangeType
<1>5. ASSUME NEW w \in Workers, TakeEvent(w) PROVE TypeOK'
  BY <1>5, TakeEventType
<1>6. ASSUME NEW w \in Workers, WorkerStep(w) PROVE TypeOK'
  BY <1>6, ReadSourceType, CallType, CallMisfitsType, CallFailsType, WaitType DEF WorkerStep
<1>7. ASSUME NEW c \in late, LandLate(c) PROVE TypeOK'
  BY <1>7, LandLateType
<1>8. CASE Restart
  BY <1>8, RestartType
<1>9. CASE UNCHANGED vars
  BY <1>9 DEF vars, history, TypeOK
<1> QED
  BY <1>1, <1>2, <1>3, <1>4, <1>5, <1>6, <1>7, <1>8, <1>9 DEF Next

\* Types hold in every state: tries stay within their limit, the queue within
\* its size (replicateWithRetry, the channel of NewService).
THEOREM ReplicationTypeCorrect == Spec => []TypeOK
BY InitType, StepType, PTL DEF Spec

-----------------------------------------------------------------------------
(***************************************************************************)
(* The invariant behind NothingLostInPeace.  An event that is the last of  *)
(* its key, with nothing untold after it, describes what the source holds, *)
(* so an attempt at it fails only when a call does; and numbers tell the   *)
(* events of a key apart.                                                  *)
(***************************************************************************)
InNews(e) == \E p \in Procs : \E i \in DOMAIN req[p].news : req[p].news[i] = e
InQueue(e) == \E i \in DOMAIN queue : queue[i] = e
AtWorker(e) == \E w \in Workers : worker[w] # Idle /\ worker[w].ev = e
Flying(e) == InNews(e) \/ InQueue(e) \/ AtWorker(e)

Current(e) == e.n = latest[e.k] /\ e.k \notin untold

\* Events have numbers that were given out.
FlyingNumbered == \A e \in Events : Flying(e) => e.n <= changes

\* A deletion to come has a number that no put has.
TodoNumbered ==
    \A p \in Procs : \A i \in DOMAIN req[p].todo :
        /\ req[p].todo[i].type = "delete"
        /\ req[p].todo[i].n <= changes
        /\ \A e \in Events : Flying(e) /\ e.type = "put" => e.n # req[p].todo[i].n

\* The source holds what a put that is current says.
SourceStands ==
    \A e \in Events : Flying(e) /\ e.type = "put" /\ Current(e) =>
        source[e.k] = [n |-> e.n, size |-> e.size]

\* The source holds nothing when a deletion that is current says so.
DeletesStand ==
    \A e \in Events : Flying(e) /\ e.type = "delete" /\ Current(e) => source[e.k] = None

EventsInv == FlyingNumbered /\ TodoNumbered /\ SourceStands /\ DeletesStand

\* A worker about to send a current put has read what the source holds.
BodyCurrent ==
    \A w \in Workers :
        worker[w] # Idle /\ worker[w].at = "call" /\ worker[w].ev.type = "put" /\ Current(worker[w].ev)
            => worker[w].body = source[worker[w].ev.k]

Failed(r) == IF r.at = "wait" THEN r.try ELSE r.try - 1

\* Each attempt that failed at a current event was a call that failed.
FailedForCause ==
    \A w \in Workers :
        worker[w] # Idle /\ failures < MaxTries
        /\ (worker[w].ev.type = "delete" \/ Current(worker[w].ev))
            => Failed(worker[w]) <= failures

JobsInv == BodyCurrent /\ FailedForCause

PeaceInv == TypeOK /\ EventsInv /\ JobsInv /\ NothingLostInPeace

\* Steps that make no change at the source and announce nothing new.
Shrinks ==
    /\ UNCHANGED site
    /\ \A e \in Events : Flying(e)' => Flying(e)
    /\ \A p \in Procs : \A i \in DOMAIN req'[p].todo :
          \E j \in DOMAIN req[p].todo : req'[p].todo[i] = req[p].todo[j]

LEMMA ShrinkKeeps ==
    ASSUME EventsInv, Shrinks
    PROVE  EventsInv'
<1>1. \A e : Current(e)' <=> Current(e)
  BY DEF Shrinks, site, Current
<1>2. FlyingNumbered'
  BY DEF EventsInv, FlyingNumbered, Shrinks, site
<1>3. SourceStands'
  BY <1>1 DEF EventsInv, SourceStands, Shrinks, site
<1>4. TodoNumbered'
  <2> SUFFICES ASSUME NEW p \in Procs, NEW i \in DOMAIN req'[p].todo
      PROVE  /\ req'[p].todo[i].type = "delete"
             /\ req'[p].todo[i].n <= changes'
             /\ \A e \in Events : Flying(e)' /\ e.type = "put" => e.n # req'[p].todo[i].n
    BY DEF TodoNumbered
  <2>1. PICK j \in DOMAIN req[p].todo : req'[p].todo[i] = req[p].todo[j]
    BY DEF Shrinks
  <2> QED
    BY <2>1 DEF EventsInv, TodoNumbered, Shrinks, site
<1>5. DeletesStand'
  BY <1>1 DEF EventsInv, DeletesStand, Shrinks, site
<1> QED
  BY <1>2, <1>3, <1>4, <1>5 DEF EventsInv

\* The elements of a tail and of an extension of a sequence.
LEMMA TailElements ==
    ASSUME NEW s \in Seq(Events), s # <<>>, NEW t, t = Tail(s)
    PROVE  \A i \in DOMAIN t : \E j \in DOMAIN s : t[i] = s[j]
<1> SUFFICES ASSUME NEW i \in DOMAIN t PROVE i + 1 \in DOMAIN s /\ t[i] = s[i + 1]
  OBVIOUS
<1> QED
  OBVIOUS

LEMMA HeadElement ==
    ASSUME NEW s \in Seq(Events), s # <<>>
    PROVE  1 \in DOMAIN s /\ Head(s) = s[1] /\ Head(s) \in Events
OBVIOUS

LEMMA AppendElements ==
    ASSUME NEW s \in Seq(Events), NEW e \in Events, NEW i \in DOMAIN Append(s, e)
    PROVE  Append(s, e)[i] = e \/ (i \in DOMAIN s /\ Append(s, e)[i] = s[i])
OBVIOUS

\* The step of a worker that goes on with its event, or rests.
LEMMA WorkerShrinks ==
    ASSUME TypeOK, NEW w \in Workers, worker[w] # Idle, NEW r, SetWorker(w, r),
           r # Idle => r.ev = worker[w].ev, UNCHANGED <<site, req, queue>>
    PROVE  Shrinks
<1>1. worker \in [Workers -> {Idle} \cup Jobs]
  BY DEF TypeOK
<1>2. \A v \in Workers : worker'[v] = IF v = w THEN r ELSE worker[v]
  BY <1>1 DEF SetWorker
<1>3. ASSUME NEW e \in Events, AtWorker(e)' PROVE AtWorker(e)
  BY <1>2, <1>3 DEF AtWorker
<1>4. ASSUME NEW e \in Events, Flying(e)' PROVE Flying(e)
  BY <1>3, <1>4 DEF Flying, InNews, InQueue
<1> QED
  BY <1>4 DEF Shrinks

\* What the invariant asks of the job that a worker goes on to.
LEMMA WorkerKeepsJobs ==
    ASSUME TypeOK, JobsInv, NEW w \in Workers, NEW r, SetWorker(w, r), UNCHANGED site,
           failures' \in 0..MaxTries, failures <= failures',
           r # Idle /\ r.at = "call" /\ r.ev.type = "put" /\ Current(r.ev)
               => r.body = source[r.ev.k],
           r # Idle /\ failures' < MaxTries /\ (r.ev.type = "delete" \/ Current(r.ev))
               => Failed(r) <= failures'
    PROVE  JobsInv'
<1>1. worker \in [Workers -> {Idle} \cup Jobs] /\ failures \in 0..MaxTries
  BY DEF TypeOK
<1>2. \A v \in Workers : worker'[v] = IF v = w THEN r ELSE worker[v]
  BY <1>1 DEF SetWorker
<1>3. \A e : Current(e)' <=> Current(e)
  BY DEF site, Current
<1>4. source' = source
  BY DEF site
<1>5. BodyCurrent'
  BY <1>2, <1>3, <1>4 DEF JobsInv, BodyCurrent, Current, site
<1>6. FailedForCause'
  <2> SUFFICES ASSUME NEW v \in Workers, (worker[v] # Idle)', (failures < MaxTries)',
                      (worker[v].ev.type = "delete" \/ Current(worker[v].ev))'
               PROVE  (Failed(worker[v]) <= failures)'
    BY DEF FailedForCause
  <2>0. /\ worker'[v] # Idle /\ failures' < MaxTries
        /\ worker'[v].ev.type = "delete" \/ Current(worker'[v].ev)
    BY DEF Current, site, Idle
  <2>1. CASE v = w
    BY <1>2, <2>0, <2>1 DEF Failed
  <2>2. CASE v # w
    <3>1. worker'[v] = worker[v] /\ worker[v] \in Jobs
      BY <1>1, <1>2, <2>0, <2>2
    <3>2. Failed(worker[v]) <= failures
      BY <1>1, <2>0, <3>1 DEF JobsInv, FailedForCause
    <3>3. Failed(worker[v]) \in Nat
      BY <3>1, JobFields DEF Failed
    <3> QED
      BY <1>1, <3>1, <3>2, <3>3 DEF Failed
  <2> QED
    BY <2>1, <2>2
<1> QED
  BY <1>5, <1>6 DEF JobsInv

\* A put that is current after a change was so before, and its object stays.
Outdates ==
    \A e \in Events : Flying(e) /\ e.type = "put" /\ Current(e)' =>
        Current(e) /\ source'[e.k] = source[e.k]

LEMMA OutdatesKeepsJobs ==
    ASSUME TypeOK, JobsInv, Outdates, UNCHANGED <<worker, failures>>
    PROVE  JobsInv'
<1>1. worker \in [Workers -> {Idle} \cup Jobs]
  BY DEF TypeOK
<1>2. ASSUME NEW w \in Workers, worker[w] # Idle, worker[w].ev.type = "put", Current(worker[w].ev)'
      PROVE  Current(worker[w].ev) /\ source'[worker[w].ev.k] = source[worker[w].ev.k]
  <2> DEFINE e == worker[w].ev
  <2>1. e \in Events
    BY <1>1, <1>2, JobFields
  <2>2. Flying(e)
    BY <1>2 DEF Flying, AtWorker
  <2>3. worker' = worker
    OBVIOUS
  <2>4. latest'[e.k] = e.n /\ e.k \notin untold'
    BY <1>2, <2>3 DEF Current
  <2> HIDE DEF e
  <2>5. Current(e) /\ source'[e.k] = source[e.k]
    BY <1>2, <2>1, <2>2, <2>4 DEF Outdates, Current, e
  <2> QED
    BY <2>5 DEF e
<1>3. BodyCurrent'
  <2> SUFFICES ASSUME NEW w \in Workers, (worker[w] # Idle)', (worker[w].at = "call")',
                      (worker[w].ev.type = "put")', Current(worker[w].ev)'
               PROVE  (worker[w].body = source[worker[w].ev.k])'
    BY DEF BodyCurrent
  <2>1. worker[w] # Idle /\ worker[w].at = "call" /\ worker[w].ev.type = "put"
    BY DEF Idle
  <2> QED
    BY <1>2, <2>1 DEF JobsInv, BodyCurrent
<1>4. FailedForCause'
  <2> SUFFICES ASSUME NEW w \in Workers, (worker[w] # Idle)', (failures < MaxTries)',
                      (worker[w].ev.type = "delete" \/ Current(worker[w].ev))'
               PROVE  (Failed(worker[w]) <= failures)'
    BY DEF FailedForCause
  <2>1. worker[w] # Idle /\ failures < MaxTries
    BY DEF Idle
  <2>2. worker[w].ev.type \in {"put", "delete"}
    BY <1>1, <2>1, JobFields, EventFields
  <2>3. worker[w].ev.type = "delete" \/ Current(worker[w].ev)
    BY <1>2, <2>1, <2>2
  <2>4. Failed(worker[w]) <= failures
    BY <2>1, <2>3 DEF JobsInv, FailedForCause
  <2> QED
    BY <2>4 DEF Failed
<1> QED
  BY <1>3, <1>4 DEF JobsInv

LEMMA OutdatesKeepsSource ==
    ASSUME SourceStands, Outdates,
           \A e \in Events : Flying(e)' =>
               Flying(e) \/ (e.type = "put" /\ Current(e)' => source'[e.k] = [n |-> e.n, size |-> e.size])
    PROVE  SourceStands'
BY DEF SourceStands, Outdates

LEMMA PutObjectPeace ==
    ASSUME PeaceInv, NEW p \in Procs, NEW k \in Keys, NEW s \in Sizes, NEW l \in Sizes, PutObject(p, k, s, l)
    PROVE  EventsInv' /\ JobsInv' /\ NothingLostInPeace'
<1> DEFINE n == changes + 1
           ev == [type |-> "put", k |-> k, n |-> n, size |-> l]
<1>0. /\ TypeOK /\ FlyingNumbered /\ TodoNumbered /\ SourceStands /\ DeletesStand
      /\ JobsInv /\ NothingLostInPeace
  BY DEF PeaceInv, EventsInv
<1>1. /\ source \in [Keys -> Objects \cup {None}] /\ changes \in 0..MaxChanges
      /\ latest \in [Keys -> 0..MaxChanges] /\ req \in [Procs -> Requests]
  BY <1>0 DEF TypeOK
<1>2. /\ changes' = n /\ source' = [source EXCEPT ![k] = [n |-> n, size |-> s]]
      /\ untold' = IF l = s THEN untold \ {k} ELSE untold \cup {k}
      /\ latest' = [latest EXCEPT ![k] = n]
      /\ lost' = {tk \in lost : tk[2] # k}
      /\ UNCHANGED <<queue, worker, calm, failures>>
  BY DEF PutObject, Announce
<1>3. \A q \in Procs : /\ q # p => req'[q] = req[q]
                       /\ req'[p].todo = <<>> /\ req'[p].news = <<ev>>
  <2>1. req[p] = NoRequest /\ req' = [req EXCEPT ![p].news = <<ev>>]
    BY DEF PutObject
  <2> QED
    BY <1>1, <2>1 DEF NoRequest, Requests
<1>4. ASSUME NEW e \in Events, Flying(e)' PROVE Flying(e) \/ e = ev
  <2>1. CASE InNews(e)'
    <3>1. PICK q \in Procs : \E i \in DOMAIN req'[q].news : req'[q].news[i] = e
      BY <2>1 DEF InNews
    <3>2. CASE q = p
      BY <1>3, <3>1, <3>2
    <3>3. CASE q # p
      BY <1>3, <3>1, <3>3 DEF Flying, InNews
    <3> QED
      BY <3>2, <3>3
  <2>2. CASE InQueue(e)' \/ AtWorker(e)'
    BY <1>2, <2>2 DEF Flying, InQueue, AtWorker, Idle
  <2> QED
    BY <1>4, <2>1, <2>2 DEF Flying
<1>5. FlyingNumbered'
  BY <1>0, <1>1, <1>2, <1>4, EventFields DEF FlyingNumbered
<1>6. Outdates
  <2> SUFFICES ASSUME NEW e \in Events, Flying(e), Current(e)'
               PROVE  Current(e) /\ source'[e.k] = source[e.k]
    BY DEF Outdates
  <2>1. e.n <= changes /\ e.k \in Keys /\ e.n \in 1..MaxChanges
    BY <1>0, EventFields DEF FlyingNumbered
  <2>2. e.k # k
    BY <1>1, <1>2, <2>1 DEF Current
  <2> QED
    BY <1>1, <1>2, <2>1, <2>2 DEF Current
<1>7. SourceStands'
  <2>1. \A e \in Events : Flying(e)' =>
           Flying(e) \/ (e.type = "put" /\ Current(e)' => source'[e.k] = [n |-> e.n, size |-> e.size])
    <3>1. ASSUME NEW e \in Events, e = ev, e.type = "put", Current(e)'
          PROVE  source'[e.k] = [n |-> e.n, size |-> e.size]
      <4>1. latest'[e.k] = e.n /\ e.k \notin untold'
        BY <3>1 DEF Current
      <4>2. e.k = k /\ e.n = n /\ e.size = l
        BY <3>1
      <4>3. s = l
        BY <1>2, <4>1, <4>2
      <4> QED
        BY <1>1, <1>2, <4>2, <4>3
    <3> QED
      BY <1>4, <3>1
  <2> QED
    BY <1>0, <1>6, <2>1, OutdatesKeepsSource
<1>8. TodoNumbered'
  <2> SUFFICES ASSUME NEW q \in Procs, NEW i \in DOMAIN req'[q].todo
      PROVE  /\ req'[q].todo[i].type = "delete"
             /\ req'[q].todo[i].n <= changes'
             /\ \A e \in Events : Flying(e)' /\ e.type = "put" => e.n # req'[q].todo[i].n
    BY DEF TodoNumbered
  <2>1. q # p /\ req'[q] = req[q]
    BY <1>3
  <2>2. req[q].todo \in Seq(Events)
    BY <1>1 DEF Requests
  <2>3. req[q].todo[i] \in Events
    BY <2>1, <2>2
  <2>4. /\ req[q].todo[i].type = "delete" /\ req[q].todo[i].n <= changes
        /\ \A e \in Events : Flying(e) /\ e.type = "put" => e.n # req[q].todo[i].n
    BY <1>0, <2>1 DEF TodoNumbered
  <2>5. req[q].todo[i].n \in 1..MaxChanges
    BY <2>3, EventFields
  <2> QED
    BY <1>1, <1>2, <1>4, <2>1, <2>4, <2>5
<1>9. JobsInv'
  BY <1>0, <1>2, <1>6, OutdatesKeepsJobs
<1>10. NothingLostInPeace'
  BY <1>0, <1>2 DEF NothingLostInPeace
<1>11. DeletesStand'
  <2> SUFFICES ASSUME NEW e \in Events, Flying(e)', e.type = "delete", Current(e)'
               PROVE  source'[e.k] = None
    BY DEF DeletesStand
  <2>1. Flying(e) /\ e.k \in Keys
    BY <1>4, EventFields
  <2>2. e.n <= changes
    BY <1>0, <2>1 DEF FlyingNumbered
  <2>3. e.k # k
    BY <1>1, <1>2, <2>1, <2>2, EventFields DEF Current
  <2>4. Current(e)
    BY <1>1, <1>2, <2>1, <2>3 DEF Current
  <2> QED
    BY <1>0, <1>1, <1>2, <2>1, <2>3, <2>4 DEF DeletesStand
<1> QED
  BY <1>5, <1>7, <1>8, <1>9, <1>10, <1>11 DEF EventsInv

LEMMA SilentChangePeace ==
    ASSUME PeaceInv, NEW k \in Keys, SilentChange(k)
    PROVE  EventsInv' /\ JobsInv' /\ NothingLostInPeace'
<1>0. /\ TypeOK /\ FlyingNumbered /\ TodoNumbered /\ SourceStands /\ DeletesStand
      /\ JobsInv /\ NothingLostInPeace
  BY DEF PeaceInv, EventsInv
<1>1. /\ source \in [Keys -> Objects \cup {None}] /\ changes \in 0..MaxChanges
      /\ req \in [Procs -> Requests]
  BY <1>0 DEF TypeOK
<1>2. /\ changes' = changes + 1 /\ untold' = untold \cup {k}
      /\ UNCHANGED <<req, queue, worker, latest, lost, calm, failures>>
  BY DEF SilentChange, history
<1>3. \A j \in Keys : j # k => source'[j] = source[j]
  BY <1>1 DEF SilentChange
<1>4. \A e \in Events : Flying(e)' => Flying(e)
  BY <1>2 DEF Flying, InNews, InQueue, AtWorker, Idle
<1>5. FlyingNumbered'
  BY <1>0, <1>1, <1>2, <1>4, EventFields DEF FlyingNumbered
<1>6. Outdates
  BY <1>2, <1>3, EventFields DEF Outdates, Current
<1>7. SourceStands'
  BY <1>0, <1>4, <1>6, OutdatesKeepsSource
<1>8. TodoNumbered'
  <2> SUFFICES ASSUME NEW q \in Procs, NEW i \in DOMAIN req[q].todo
      PROVE  /\ req[q].todo[i].type = "delete"
             /\ req[q].todo[i].n <= changes'
             /\ \A e \in Events : Flying(e)' /\ e.type = "put" => e.n # req[q].todo[i].n
    BY <1>2 DEF TodoNumbered
  <2>1. req[q].todo[i] \in Events
    BY <1>1 DEF Requests
  <2>2. /\ req[q].todo[i].type = "delete" /\ req[q].todo[i].n <= changes
        /\ \A e \in Events : Flying(e) /\ e.type = "put" => e.n # req[q].todo[i].n
    BY <1>0 DEF TodoNumbered
  <2>3. req[q].todo[i].n \in 1..MaxChanges
    BY <2>1, EventFields
  <2> QED
    BY <1>1, <1>2, <1>4, <2>2, <2>3
<1>9. JobsInv'
  BY <1>0, <1>2, <1>6, OutdatesKeepsJobs
<1>10. NothingLostInPeace'
  BY <1>0, <1>2 DEF NothingLostInPeace
<1>11. DeletesStand'
  BY <1>0, <1>2, <1>3, <1>4, EventFields DEF DeletesStand, Current
<1> QED
  BY <1>5, <1>7, <1>8, <1>9, <1>10, <1>11 DEF EventsInv

LEMMA BeginDeletePeace ==
    ASSUME PeaceInv, NEW p \in Procs, NEW ks \in Lists, BeginDelete(p, ks)
    PROVE  EventsInv' /\ JobsInv' /\ NothingLostInPeace'
<1> DEFINE todo == [i \in DOMAIN ks |-> [type |-> "delete", k |-> ks[i], n |-> changes + i]]
<1>0. /\ TypeOK /\ FlyingNumbered /\ TodoNumbered /\ SourceStands /\ DeletesStand
      /\ JobsInv /\ NothingLostInPeace
  BY DEF PeaceInv, EventsInv
<1>1. changes \in 0..MaxChanges /\ req \in [Procs -> Requests]
  BY <1>0 DEF TypeOK
<1>2. /\ changes + Len(ks) <= MaxChanges /\ changes' = changes + Len(ks)
      /\ UNCHANGED <<source, queue, worker, latest, untold, lost, calm, failures>>
  BY DEF BeginDelete, history
<1>3. /\ todo \in Seq(Events) /\ Len(ks) \in Nat
      /\ \A i \in DOMAIN todo : /\ todo[i].type = "delete"
                                /\ todo[i].n \in (changes + 1)..(changes + Len(ks))
  BY <1>1, <1>2, ListIsTodo
<1>4. /\ req'[p].todo = todo
      /\ \A q \in Procs : req'[q].news = req[q].news /\ (q # p => req'[q] = req[q])
  <2>1. req' = [req EXCEPT ![p].todo = todo] /\ req[p] \in Requests
    BY <1>1 DEF BeginDelete
  <2> HIDE DEF todo
  <2> QED
    BY <1>1, <2>1 DEF Requests
<1> HIDE DEF todo
<1>5. ASSUME NEW e \in Events, Flying(e)' PROVE Flying(e)
  <2>1. InNews(e)' => InNews(e)
    BY <1>4 DEF InNews
  <2> QED
    BY <1>2, <1>5, <2>1 DEF Flying, InQueue, AtWorker, Idle
<1>6. FlyingNumbered'
  BY <1>0, <1>1, <1>2, <1>3, <1>5, EventFields DEF FlyingNumbered
<1>7. Outdates
  BY <1>2 DEF Outdates, Current
<1>8. SourceStands'
  BY <1>0, <1>5, <1>7, OutdatesKeepsSource
<1>9. TodoNumbered'
  <2> SUFFICES ASSUME NEW q \in Procs, NEW i \in DOMAIN req'[q].todo
      PROVE  /\ req'[q].todo[i].type = "delete"
             /\ req'[q].todo[i].n <= changes'
             /\ \A e \in Events : Flying(e)' /\ e.type = "put" => e.n # req'[q].todo[i].n
    BY DEF TodoNumbered
  <2>1. CASE q = p
    <3>1. todo[i].type = "delete" /\ todo[i].n \in (changes + 1)..(changes + Len(ks))
      BY <1>3, <1>4, <2>1
    <3>2. \A e \in Events : Flying(e)' => e.n <= changes /\ e.n \in 1..MaxChanges
      BY <1>0, <1>5, EventFields DEF FlyingNumbered
    <3> QED
      BY <1>1, <1>2, <1>3, <1>4, <2>1, <3>1, <3>2
  <2>2. CASE q # p
    <3>1. req[q].todo[i] \in Events /\ i \in DOMAIN req[q].todo
      BY <1>1, <1>4, <2>2 DEF Requests
    <3>2. /\ req[q].todo[i].type = "delete" /\ req[q].todo[i].n <= changes
          /\ \A e \in Events : Flying(e) /\ e.type = "put" => e.n # req[q].todo[i].n
      BY <1>0, <3>1 DEF TodoNumbered
    <3>3. req[q].todo[i].n \in 1..MaxChanges
      BY <3>1, EventFields
    <3> QED
      BY <1>1, <1>2, <1>3, <1>4, <1>5, <2>2, <3>2, <3>3
  <2> QED
    BY <2>1, <2>2
<1>10. JobsInv'
  BY <1>0, <1>2, <1>7, OutdatesKeepsJobs
<1>11. NothingLostInPeace'
  BY <1>0, <1>2 DEF NothingLostInPeace
<1>12. DeletesStand'
  BY <1>0, <1>2, <1>5 DEF DeletesStand, Current
<1> QED
  BY <1>6, <1>8, <1>9, <1>10, <1>11, <1>12 DEF EventsInv

LEMMA DeleteNextPeace ==
    ASSUME PeaceInv, NEW p \in Procs, DeleteNext(p)
    PROVE  EventsInv' /\ JobsInv' /\ NothingLostInPeace'
<1> DEFINE ev == Head(req[p].todo)
           k == ev.k
<1>0. /\ TypeOK /\ FlyingNumbered /\ TodoNumbered /\ SourceStands /\ DeletesStand
      /\ JobsInv /\ NothingLostInPeace
  BY DEF PeaceInv, EventsInv
<1>1. /\ source \in [Keys -> Objects \cup {None}] /\ changes \in 0..MaxChanges
      /\ latest \in [Keys -> 0..MaxChanges] /\ req \in [Procs -> Requests]
  BY <1>0 DEF TypeOK
<1>2. /\ req[p].todo \in Seq(Events) /\ req[p].todo # <<>> /\ req[p].news \in Seq(Events)
  BY <1>1 DEF DeleteNext, Requests
<1>3. 1 \in DOMAIN req[p].todo /\ ev = req[p].todo[1] /\ ev \in Events
  BY <1>2, HeadElement
<1>4. /\ ev.type = "delete" /\ ev.n <= changes /\ k \in Keys
      /\ \A e \in Events : Flying(e) /\ e.type = "put" => e.n # ev.n
  BY <1>0, <1>3, EventFields DEF TodoNumbered
<1>5. /\ latest' = [latest EXCEPT ![k] = ev.n] /\ lost' = {tk \in lost : tk[2] # k}
      /\ UNCHANGED <<queue, worker, changes, calm, failures>>
  BY DEF DeleteNext, Announce
<1>6. /\ \/ untold' = untold \ {k} /\ source' = [source EXCEPT ![k] = None]
         \/ untold' = untold \cup {k}
      /\ \A j \in Keys : j # k => source'[j] = source[j]
  BY <1>1 DEF DeleteNext
<1>7. \A q \in Procs : /\ q # p => req'[q] = req[q]
                       /\ req'[p].todo = Tail(req[p].todo)
                       /\ req'[p].news = Append(req[p].news, ev)
  BY <1>1 DEF DeleteNext
<1> HIDE DEF ev, k
<1>8. ASSUME NEW e \in Events, Flying(e)' PROVE Flying(e) \/ e = ev
  <2>1. CASE InNews(e)'
    <3>1. PICK q \in Procs : \E i \in DOMAIN req'[q].news : req'[q].news[i] = e
      BY <2>1 DEF InNews
    <3>2. CASE q = p
      <4>1. PICK i \in DOMAIN Append(req[p].news, ev) : Append(req[p].news, ev)[i] = e
        BY <1>7, <3>1, <3>2
      <4>2. Append(req[p].news, ev)[i] = ev
            \/ (i \in DOMAIN req[p].news /\ Append(req[p].news, ev)[i] = req[p].news[i])
        BY <1>2, <1>3, AppendElements
      <4> QED
        BY <4>1, <4>2 DEF Flying, InNews
    <3>3. CASE q # p
      BY <1>7, <3>1, <3>3 DEF Flying, InNews
    <3> QED
      BY <3>2, <3>3
  <2>2. CASE InQueue(e)' \/ AtWorker(e)'
    BY <1>5, <2>2 DEF Flying, InQueue, AtWorker, Idle
  <2> QED
    BY <1>8, <2>1, <2>2 DEF Flying
<1>9. FlyingNumbered'
  BY <1>0, <1>4, <1>5, <1>8 DEF FlyingNumbered
<1>10. Outdates
  <2> SUFFICES ASSUME NEW e \in Events, Flying(e), e.type = "put", Current(e)'
               PROVE  Current(e) /\ source'[e.k] = source[e.k]
    BY DEF Outdates
  <2>1. e.n # ev.n /\ e.k \in Keys
    BY <1>4, EventFields
  <2>2. e.k # k
    BY <1>1, <1>4, <1>5, <2>1 DEF Current
  <2> QED
    BY <1>1, <1>4, <1>5, <1>6, <2>1, <2>2 DEF Current
<1>11. SourceStands'
  BY <1>0, <1>4, <1>8, <1>10, OutdatesKeepsSource
<1>12. TodoNumbered'
  <2> SUFFICES ASSUME NEW q \in Procs, NEW i \in DOMAIN req'[q].todo
      PROVE  /\ req'[q].todo[i].type = "delete"
             /\ req'[q].todo[i].n <= changes'
             /\ \A e \in Events : Flying(e)' /\ e.type = "put" => e.n # req'[q].todo[i].n
    BY DEF TodoNumbered
  <2>1. \E j \in DOMAIN req[q].todo : req'[q].todo[i] = req[q].todo[j]
    <3>1. \A m \in DOMAIN req'[p].todo : \E j \in DOMAIN req[p].todo : req'[p].todo[m] = req[p].todo[j]
      <4>1. req'[p].todo = Tail(req[p].todo)
        BY <1>7
      <4> QED
        BY <1>2, <4>1, TailElements
    <3> QED
      BY <1>7, <3>1
  <2>2. PICK j \in DOMAIN req[q].todo : req'[q].todo[i] = req[q].todo[j]
    BY <2>1
  <2>3. /\ req[q].todo[j].type = "delete" /\ req[q].todo[j].n <= changes
        /\ \A e \in Events : Flying(e) /\ e.type = "put" => e.n # req[q].todo[j].n
    BY <1>0 DEF TodoNumbered
  <2> QED
    BY <1>4, <1>5, <1>8, <2>2, <2>3
<1>13. JobsInv'
  BY <1>0, <1>5, <1>10, OutdatesKeepsJobs
<1>14. NothingLostInPeace'
  BY <1>0, <1>5, <1>6 DEF NothingLostInPeace
<1>15. DeletesStand'
  <2> SUFFICES ASSUME NEW e \in Events, Flying(e)', e.type = "delete", Current(e)'
               PROVE  source'[e.k] = None
    BY DEF DeletesStand
  <2>0. e.k \in Keys
    BY EventFields
  <2>1. CASE e.k = k
    BY <1>1, <1>4, <1>6, <2>1 DEF Current
  <2>2. CASE e.k # k
    <3>1. Flying(e) /\ Current(e)
      BY <1>1, <1>5, <1>6, <1>8, <2>0, <2>2 DEF Current, k
    <3> QED
      BY <1>0, <1>6, <2>0, <2>2, <3>1 DEF DeletesStand
  <2> QED
    BY <2>1, <2>2
<1> QED
  BY <1>9, <1>11, <1>12, <1>13, <1>14, <1>15 DEF EventsInv

LEMMA DeleteRefusedPeace ==
    ASSUME PeaceInv, NEW p \in Procs, DeleteRefused(p)
    PROVE  EventsInv' /\ JobsInv' /\ NothingLostInPeace'
<1>0. TypeOK /\ EventsInv /\ JobsInv /\ NothingLostInPeace
  BY DEF PeaceInv
<1>1. req \in [Procs -> Requests]
  BY <1>0 DEF TypeOK
<1>2. UNCHANGED <<site, queue, worker, lost, calm, failures>>
  BY DEF DeleteRefused, history
<1>3. /\ req[p].todo \in Seq(Events) /\ req[p].todo # <<>>
      /\ \A q \in Procs : req'[q].news = req[q].news /\ (q # p => req'[q] = req[q])
      /\ req'[p].todo = Tail(req[p].todo)
  BY <1>1 DEF DeleteRefused, Requests
<1>4. Shrinks
  <2>1. \A e \in Events : Flying(e)' => Flying(e)
    BY <1>2, <1>3 DEF Flying, InNews, InQueue, AtWorker, Idle
  <2>2. \A q \in Procs : \A i \in DOMAIN req'[q].todo :
           \E j \in DOMAIN req[q].todo : req'[q].todo[i] = req[q].todo[j]
    <3>1. \A i \in DOMAIN req'[p].todo : \E j \in DOMAIN req[p].todo : req'[p].todo[i] = req[p].todo[j]
      BY <1>3, TailElements
    <3>2. \A q \in Procs : q # p => req'[q] = req[q]
      BY <1>3
    <3> SUFFICES ASSUME NEW q \in Procs, NEW i \in DOMAIN req'[q].todo
                 PROVE  \E j \in DOMAIN req[q].todo : req'[q].todo[i] = req[q].todo[j]
      OBVIOUS
    <3>3. CASE q = p
      BY <3>1, <3>3
    <3>4. CASE q # p
      BY <3>2, <3>4
    <3> QED
      BY <3>3, <3>4
  <2> QED
    BY <1>2, <2>1, <2>2 DEF Shrinks
<1>5. EventsInv'
  BY <1>0, <1>4, ShrinkKeeps
<1>6. Outdates
  BY <1>2 DEF Outdates, Current, site
<1>7. JobsInv'
  BY <1>0, <1>2, <1>6, OutdatesKeepsJobs
<1>8. NothingLostInPeace'
  BY <1>0, <1>2 DEF NothingLostInPeace, site
<1> QED
  BY <1>5, <1>7, <1>8

LEMMA EnqueuePeace ==
    ASSUME PeaceInv, NEW p \in Procs, Enqueue(p)
    PROVE  EventsInv' /\ JobsInv' /\ NothingLostInPeace'
<1> DEFINE ev == Head(req[p].news)
<1>0. TypeOK /\ EventsInv /\ JobsInv /\ NothingLostInPeace
  BY DEF PeaceInv
<1>1. req \in [Procs -> Requests] /\ queue \in Seq(Events)
  BY <1>0 DEF TypeOK
<1>2. UNCHANGED <<site, worker, failures>>
  BY DEF Enqueue
<1>3. /\ req[p].news \in Seq(Events) /\ req[p].news # <<>>
      /\ \A q \in Procs : req'[q].todo = req[q].todo /\ (q # p => req'[q] = req[q])
      /\ req'[p].news = Tail(req[p].news)
  BY <1>1 DEF Enqueue, Requests
<1>4. 1 \in DOMAIN req[p].news /\ ev = req[p].news[1] /\ ev \in Events
  BY <1>3, HeadElement
<1>5. \/ queue' = Append(queue, ev) /\ UNCHANGED <<lost, calm>>
      \/ UNCHANGED queue /\ calm' = FALSE
  BY DEF Enqueue
<1>6. Shrinks
  <2>1. ASSUME NEW e \in Events, InNews(e)' PROVE InNews(e)
    <3>1. PICK q \in Procs : \E i \in DOMAIN req'[q].news : req'[q].news[i] = e
      BY <2>1 DEF InNews
    <3>2. CASE q = p
      <4>1. \A i \in DOMAIN req'[p].news : \E j \in DOMAIN req[p].news : req'[p].news[i] = req[p].news[j]
        BY <1>3, TailElements
      <4> QED
        BY <3>1, <3>2, <4>1 DEF InNews
    <3>3. CASE q # p
      BY <1>3, <3>1, <3>3 DEF InNews
    <3> QED
      BY <3>2, <3>3
  <2>2. ASSUME NEW e \in Events, InQueue(e)' PROVE InQueue(e) \/ InNews(e)
    <3>1. CASE UNCHANGED queue
      BY <2>2, <3>1 DEF InQueue
    <3>2. CASE queue' = Append(queue, ev)
      <4>1. PICK i \in DOMAIN Append(queue, ev) : Append(queue, ev)[i] = e
        BY <2>2, <3>2 DEF InQueue
      <4>2. Append(queue, ev)[i] = ev \/ (i \in DOMAIN queue /\ Append(queue, ev)[i] = queue[i])
        BY <1>1, <1>4, AppendElements
      <4> QED
        BY <1>4, <4>1, <4>2 DEF InQueue, InNews
    <3> QED
      BY <1>5, <3>1, <3>2
  <2>3. \A e \in Events : AtWorker(e)' => AtWorker(e)
    BY <1>2 DEF AtWorker, Idle
  <2>4. \A e \in Events : Flying(e)' => Flying(e)
    BY <2>1, <2>2, <2>3 DEF Flying
  <2> QED
    BY <1>2, <1>3, <2>4 DEF Shrinks
<1>7. EventsInv'
  BY <1>0, <1>6, ShrinkKeeps
<1>8. Outdates
  BY <1>2 DEF Outdates, Current, site
<1>9. JobsInv'
  BY <1>0, <1>2, <1>8, OutdatesKeepsJobs
<1>10. NothingLostInPeace'
  BY <1>0, <1>2, <1>5 DEF NothingLostInPeace, site
<1> QED
  BY <1>7, <1>9, <1>10

LEMMA TakeEventPeace ==
    ASSUME PeaceInv, NEW w \in Workers, TakeEvent(w)
    PROVE  EventsInv' /\ JobsInv' /\ NothingLostInPeace'
<1> DEFINE ev == Head(queue)
           r == Attempt(ev, 1, 1)
<1>0. TypeOK /\ EventsInv /\ JobsInv /\ NothingLostInPeace
  BY DEF PeaceInv
<1>1. /\ queue \in Seq(Events) /\ queue # <<>> /\ failures \in 0..MaxTries
      /\ worker \in [Workers -> {Idle} \cup Jobs]
  BY <1>0 DEF TypeOK, TakeEvent
<1>2. 1 \in DOMAIN queue /\ ev = queue[1] /\ ev \in Events
  BY <1>1, HeadElement
<1>3. UNCHANGED <<site, req, lost, calm, failures>> /\ queue' = Tail(queue) /\ SetWorker(w, r)
  BY DEF TakeEvent, SetWorker
<1>4. /\ r \in Jobs /\ r.ev = ev /\ r.try = 1 /\ r.at \in {"read", "call"}
      /\ ev.type = "put" => r.at = "read"
  <2>1. 1 \in Targets /\ 1 \in 1..MaxTries
    BY DEF Targets
  <2> QED
    BY <1>2, <2>1, AttemptIsJob
<1> HIDE DEF ev, r
<1>5. \A v \in Workers : worker'[v] = IF v = w THEN r ELSE worker[v]
  BY <1>1, <1>3 DEF SetWorker
<1>6. Shrinks
  <2>1. ASSUME NEW e \in Events, InQueue(e)' PROVE InQueue(e)
    <3>1. \A i \in DOMAIN queue' : \E j \in DOMAIN queue : queue'[i] = queue[j]
      BY <1>1, <1>3, TailElements
    <3> QED
      BY <2>1, <3>1 DEF InQueue
  <2>2. ASSUME NEW e \in Events, AtWorker(e)' PROVE AtWorker(e) \/ InQueue(e)
    <3>1. PICK v \in Workers : worker'[v] # Idle /\ worker'[v].ev = e
      BY <2>2 DEF AtWorker, Idle
    <3>2. CASE v = w
      BY <1>2, <1>4, <1>5, <3>1, <3>2 DEF InQueue
    <3>3. CASE v # w
      BY <1>5, <3>1, <3>3 DEF AtWorker
    <3> QED
      BY <3>2, <3>3
  <2>3. \A e \in Events : InNews(e)' => InNews(e)
    BY <1>3 DEF InNews
  <2>4. \A e \in Events : Flying(e)' => Flying(e)
    BY <2>1, <2>2, <2>3 DEF Flying
  <2> QED
    BY <1>3, <2>4 DEF Shrinks
<1>7. EventsInv'
  BY <1>0, <1>6, ShrinkKeeps
<1>8. JobsInv'
  <2>1. Failed(r) <= failures'
    BY <1>1, <1>3, <1>4 DEF Failed
  <2>2. ~(r.at = "call" /\ r.ev.type = "put")
    BY <1>4
  <2>3. failures' \in 0..MaxTries /\ failures <= failures'
    BY <1>1, <1>3
  <2> QED
    BY <1>0, <1>3, <2>1, <2>2, <2>3, WorkerKeepsJobs
<1>9. NothingLostInPeace'
  BY <1>0, <1>3 DEF NothingLostInPeace, site
<1> QED
  BY <1>7, <1>8, <1>9

LEMMA ReadSourcePeace ==
    ASSUME PeaceInv, NEW w \in Workers, ReadSource(w)
    PROVE  EventsInv' /\ JobsInv' /\ NothingLostInPeace'
<1> DEFINE j == worker[w]
<1>0. TypeOK /\ EventsInv /\ JobsInv /\ NothingLostInPeace
  BY DEF PeaceInv
<1>1. source \in [Keys -> Objects \cup {None}] /\ failures \in 0..MaxTries
  BY <1>0 DEF TypeOK
<1>2. UNCHANGED <<site, req, queue, lost, calm, failures>>
  BY DEF ReadSource, history
<1>3. j \in Jobs /\ j.at = "read"
  BY <1>0, WorkerHasJob DEF ReadSource
<1>4. j # Idle /\ j.ev \in Events /\ j.ev.k \in Keys /\ j.ev.type = "put" /\ j.try \in 1..MaxTries
  BY <1>3, JobFields, EventFields
<1>5. Current(j.ev) => source[j.ev.k] = [n |-> j.ev.n, size |-> j.ev.size]
  BY <1>0, <1>4 DEF EventsInv, SourceStands, Flying, AtWorker
<1>6. failures < MaxTries /\ Current(j.ev) => j.try - 1 <= failures
  BY <1>0, <1>3, <1>4 DEF JobsInv, FailedForCause, Failed
<1>7. \E r \in Jobs :
         /\ SetWorker(w, r)
         /\ r.ev = j.ev /\ r.try = j.try
         /\ \/ r.at = "call" /\ r.body = source[j.ev.k]
            \/ r.at = "wait" /\ ~Current(j.ev)
  <2>1. CASE source[j.ev.k] = None
    <3>1. FailAttempt(w)
      BY <2>1 DEF ReadSource
    <3>2. ~Current(j.ev)
      <4>1. [n |-> j.ev.n, size |-> j.ev.size] \in [n : 1..MaxChanges, size : Sizes]
        BY <1>4, EventFields
      <4> QED
        BY <1>5, <2>1, <4>1, NoneAssumption
    <3> QED
      BY <1>3, <3>1, <3>2, FailAttemptSets
  <2>2. CASE source[j.ev.k] # None
    <3>1. Goto(w, "call", source[j.ev.k]) /\ source[j.ev.k] \in Objects
      BY <1>1, <1>4, <2>2 DEF ReadSource
    <3> QED
      BY <1>3, <3>1, CallSets
  <2> QED
    BY <2>1, <2>2
<1>8. PICK r \in Jobs :
         /\ SetWorker(w, r)
         /\ r.ev = j.ev /\ r.try = j.try
         /\ \/ r.at = "call" /\ r.body = source[j.ev.k]
            \/ r.at = "wait" /\ ~Current(j.ev)
  BY <1>7
<1>9. Shrinks
  BY <1>0, <1>2, <1>4, <1>8, WorkerShrinks
<1>10. EventsInv'
  BY <1>0, <1>9, ShrinkKeeps
<1>11. JobsInv'
  <2>1. r.at = "call" => r.body = source[r.ev.k]
    BY <1>8
  <2>2. failures' < MaxTries /\ (r.ev.type = "delete" \/ Current(r.ev)) => Failed(r) <= failures'
    BY <1>2, <1>4, <1>6, <1>8 DEF Failed
  <2>3. failures' \in 0..MaxTries /\ failures <= failures'
    BY <1>1, <1>2
  <2> QED
    BY <1>0, <1>2, <1>8, <2>1, <2>2, <2>3, WorkerKeepsJobs
<1>12. NothingLostInPeace'
  BY <1>0, <1>2 DEF NothingLostInPeace, site
<1> QED
  BY <1>10, <1>11, <1>12

LEMMA CallPeace ==
    ASSUME PeaceInv, NEW w \in Workers, Call(w)
    PROVE  EventsInv' /\ JobsInv' /\ NothingLostInPeace'
<1>0. TypeOK /\ EventsInv /\ JobsInv /\ NothingLostInPeace
  BY DEF PeaceInv
<1>1. failures \in 0..MaxTries
  BY <1>0 DEF TypeOK
<1>2. UNCHANGED <<site, req, queue, lost, calm, failures>>
  BY DEF Call, history
<1>3. worker[w] \in Jobs /\ worker[w] # Idle
  BY <1>0, WorkerHasJob, JobFields DEF Call
<1>4. PICK r \in {Idle} \cup Jobs :
         /\ SetWorker(w, r)
         /\ r # Idle => /\ r.ev = worker[w].ev /\ r.try = 1 /\ r.at \in {"read", "call"}
                        /\ r.at = "read" => r.ev.type = "put"
                        /\ r.ev.type = "put" => r.at = "read"
  BY <1>3, NextTargetSets DEF Call
<1>5. Shrinks
  BY <1>0, <1>2, <1>3, <1>4, WorkerShrinks
<1>6. EventsInv'
  BY <1>0, <1>5, ShrinkKeeps
<1>7. JobsInv'
  <2>1. r # Idle => Failed(r) <= failures'
    BY <1>1, <1>2, <1>4 DEF Failed
  <2>2. r # Idle => ~(r.at = "call" /\ r.ev.type = "put")
    BY <1>4
  <2>3. failures' \in 0..MaxTries /\ failures <= failures'
    BY <1>1, <1>2
  <2> QED
    BY <1>0, <1>2, <1>4, <2>1, <2>2, <2>3, WorkerKeepsJobs
<1>8. NothingLostInPeace'
  BY <1>0, <1>2 DEF NothingLostInPeace, site
<1> QED
  BY <1>6, <1>7, <1>8

\* What was sent does not fit: then the event is not current.
LEMMA CallMisfitsPeace ==
    ASSUME PeaceInv, NEW w \in Workers, CallMisfits(w)
    PROVE  EventsInv' /\ JobsInv' /\ NothingLostInPeace'
<1> DEFINE j == worker[w]
<1>0. TypeOK /\ EventsInv /\ JobsInv /\ NothingLostInPeace
  BY DEF PeaceInv
<1>1. failures \in 0..MaxTries
  BY <1>0 DEF TypeOK
<1>2. UNCHANGED <<site, req, queue, lost, calm, failures>>
  BY DEF CallMisfits, history
<1>3. j \in Jobs /\ j.at = "call" /\ j.ev.type = "put" /\ j.body.size # j.ev.size
  BY <1>0, WorkerHasJob DEF CallMisfits, Fits
<1>4. j # Idle /\ j.ev \in Events
  BY <1>3, JobFields
<1>5. ~Current(j.ev)
  <2> SUFFICES ASSUME Current(j.ev) PROVE FALSE
    OBVIOUS
  <2>1. source[j.ev.k] = [n |-> j.ev.n, size |-> j.ev.size]
    BY <1>0, <1>3, <1>4 DEF EventsInv, SourceStands, Flying, AtWorker
  <2>2. j.body = source[j.ev.k]
    BY <1>0, <1>3, <1>4 DEF JobsInv, BodyCurrent
  <2> QED
    BY <1>3, <2>1, <2>2
<1>6. PICK r \in Jobs :
         /\ SetWorker(w, r)
         /\ r.ev = j.ev /\ r.try = j.try /\ r.at = "wait"
  BY <1>3, FailAttemptSets DEF CallMisfits
<1>7. Shrinks
  BY <1>0, <1>2, <1>4, <1>6, WorkerShrinks
<1>8. EventsInv'
  BY <1>0, <1>7, ShrinkKeeps
<1>9. JobsInv'
  <2>1. ~(r.ev.type = "delete" \/ Current(r.ev)) /\ r.at # "call"
    BY <1>3, <1>5, <1>6
  <2>2. failures' \in 0..MaxTries /\ failures <= failures'
    BY <1>1, <1>2
  <2> QED
    BY <1>0, <1>2, <1>6, <2>1, <2>2, WorkerKeepsJobs
<1>10. NothingLostInPeace'
  BY <1>0, <1>2 DEF NothingLostInPeace, site
<1> QED
  BY <1>8, <1>9, <1>10

LEMMA CallFailsPeace ==
    ASSUME PeaceInv, NEW w \in Workers, CallFails(w)
    PROVE  EventsInv' /\ JobsInv' /\ NothingLostInPeace'
<1> DEFINE j == worker[w]
<1>0. TypeOK /\ EventsInv /\ JobsInv /\ NothingLostInPeace
  BY DEF PeaceInv
<1>1. failures \in 0..MaxTries
  BY <1>0 DEF TypeOK
<1>2. /\ UNCHANGED <<site, req, queue, lost, calm>>
      /\ failures' = IF failures < MaxTries THEN failures + 1 ELSE failures
  BY DEF CallFails
<1>3. j \in Jobs /\ j.at = "call"
  BY <1>0, WorkerHasJob DEF CallFails
<1>4. j # Idle /\ j.try \in 1..MaxTries
  BY <1>3, JobFields
<1>5. failures < MaxTries /\ (j.ev.type = "delete" \/ Current(j.ev)) => j.try - 1 <= failures
  BY <1>0, <1>3, <1>4 DEF JobsInv, FailedForCause, Failed
<1>6. PICK r \in Jobs :
         /\ SetWorker(w, r)
         /\ r.ev = j.ev /\ r.try = j.try /\ r.at = "wait"
  BY <1>3, FailAttemptSets DEF CallFails
<1>7. Shrinks
  BY <1>0, <1>2, <1>4, <1>6, WorkerShrinks
<1>8. EventsInv'
  BY <1>0, <1>7, ShrinkKeeps
<1>9. failures' \in 0..MaxTries /\ failures <= failures'
  BY <1>1, <1>2
<1>10. JobsInv'
  <2>1. failures' < MaxTries /\ (r.ev.type = "delete" \/ Current(r.ev)) => Failed(r) <= failures'
    BY <1>1, <1>2, <1>4, <1>5, <1>6 DEF Failed
  <2>2. r.at # "call"
    BY <1>6
  <2> QED
    BY <1>0, <1>2, <1>6, <1>9, <2>1, <2>2, WorkerKeepsJobs
<1>11. NothingLostInPeace'
  BY <1>0, <1>1, <1>2, <1>9 DEF NothingLostInPeace, site
<1> QED
  BY <1>8, <1>10, <1>11

LEMMA WaitPeace ==
    ASSUME PeaceInv, NEW w \in Workers, Wait(w)
    PROVE  EventsInv' /\ JobsInv' /\ NothingLostInPeace'
<1> DEFINE j == worker[w]
<1>0. TypeOK /\ EventsInv /\ JobsInv /\ NothingLostInPeace
  BY DEF PeaceInv
<1>1. failures \in 0..MaxTries
  BY <1>0 DEF TypeOK
<1>2. UNCHANGED <<site, req, queue, calm, failures>>
  BY DEF Wait
<1>3. j \in Jobs /\ j.at = "wait"
  BY <1>0, WorkerHasJob DEF Wait
<1>4. j # Idle /\ j.try \in 1..MaxTries /\ j.ev.type \in {"put", "delete"} /\ j.ev \in Events
  BY <1>3, JobFields, EventFields
<1>5. failures < MaxTries /\ (j.ev.type = "delete" \/ Current(j.ev)) => j.try <= failures
  BY <1>0, <1>3, <1>4 DEF JobsInv, FailedForCause, Failed
<1>6. PICK r \in {Idle} \cup Jobs :
         /\ SetWorker(w, r)
         /\ r # Idle => /\ r.ev = j.ev
                        /\ r.try = 1 \/ r.try = j.try + 1
                        /\ r.at \in {"read", "call"}
                        /\ r.ev.type = "put" => r.at = "read"
  BY <1>3, WaitSets
<1>7. Shrinks
  BY <1>0, <1>2, <1>4, <1>6, WorkerShrinks
<1>8. EventsInv'
  BY <1>0, <1>7, ShrinkKeeps
<1>9. JobsInv'
  <2>1. r # Idle /\ failures' < MaxTries /\ (r.ev.type = "delete" \/ Current(r.ev))
          => Failed(r) <= failures'
    BY <1>1, <1>2, <1>4, <1>5, <1>6 DEF Failed
  <2>2. r # Idle => ~(r.at = "call" /\ r.ev.type = "put")
    BY <1>6
  <2>3. failures' \in 0..MaxTries /\ failures <= failures'
    BY <1>1, <1>2
  <2> QED
    BY <1>0, <1>2, <1>6, <2>1, <2>2, <2>3, WorkerKeepsJobs
<1>10. NothingLostInPeace'
  <2> SUFFICES ASSUME calm, failures < MaxTries, NEW tk \in lost'
               PROVE  tk[2] \in untold
    BY <1>2 DEF NothingLostInPeace, site
  <2>1. CASE tk \in lost
    BY <1>0, <2>1 DEF NothingLostInPeace
  <2>2. CASE tk \notin lost
    <3>1. ~(j.try < MaxTries) /\ tk \in LostWith(j.ev, {j.t})
      BY <2>2 DEF Wait
    <3>2. j.ev.n = latest[j.ev.k] /\ tk[2] = j.ev.k
      BY <3>1 DEF LostWith
    <3>3. ~Current(j.ev)
      BY <1>1, <1>4, <1>5, <3>1
    <3> QED
      BY <3>2, <3>3 DEF Current
  <2> QED
    BY <2>1, <2>2
<1> QED
  BY <1>8, <1>9, <1>10

LEMMA LandLatePeace ==
    ASSUME PeaceInv, NEW c \in late, LandLate(c)
    PROVE  EventsInv' /\ JobsInv' /\ NothingLostInPeace'
<1>0. TypeOK /\ EventsInv /\ JobsInv /\ NothingLostInPeace
  BY DEF PeaceInv
<1>1. UNCHANGED <<site, req, queue, worker, lost, calm, failures>>
  BY DEF LandLate
<1>2. Shrinks
  BY <1>1 DEF Shrinks, Flying, InNews, InQueue, AtWorker, Idle
<1>3. EventsInv'
  BY <1>0, <1>2, ShrinkKeeps
<1>4. Outdates
  BY <1>1 DEF Outdates, Current, site
<1>5. JobsInv'
  BY <1>0, <1>1, <1>4, OutdatesKeepsJobs
<1>6. NothingLostInPeace'
  BY <1>0, <1>1 DEF NothingLostInPeace, site
<1> QED
  BY <1>3, <1>5, <1>6

LEMMA RestartPeace ==
    ASSUME PeaceInv, Restart
    PROVE  EventsInv' /\ JobsInv' /\ NothingLostInPeace'
<1>0. EventsInv
  BY DEF PeaceInv
<1>1. /\ UNCHANGED site /\ calm' = FALSE /\ queue' = <<>>
      /\ \A p \in Procs : req'[p] = NoRequest
      /\ \A w \in Workers : worker'[w] = Idle
  BY DEF Restart
<1>2. Shrinks
  <2>1. \A e \in Events : ~Flying(e)'
    BY <1>1 DEF Flying, InNews, InQueue, AtWorker, NoRequest, Idle
  <2>2. \A p \in Procs : DOMAIN req'[p].todo = {}
    BY <1>1 DEF NoRequest
  <2> QED
    BY <1>1, <2>1, <2>2 DEF Shrinks
<1>3. EventsInv'
  BY <1>0, <1>2, ShrinkKeeps
<1>4. JobsInv'
  BY <1>1 DEF JobsInv, BodyCurrent, FailedForCause, Idle
<1>5. NothingLostInPeace'
  BY <1>1 DEF NothingLostInPeace
<1> QED
  BY <1>3, <1>4, <1>5

LEMMA InitPeace == Init => PeaceInv
<1> SUFFICES ASSUME Init PROVE PeaceInv
  OBVIOUS
<1>1. TypeOK
  BY InitType
<1>2. \A e \in Events : ~Flying(e)
  BY DEF Init, Flying, InNews, InQueue, AtWorker, NoRequest
<1>3. \A p \in Procs : DOMAIN req[p].todo = {}
  BY DEF Init, NoRequest
<1>4. EventsInv
  BY <1>2, <1>3 DEF EventsInv, FlyingNumbered, TodoNumbered, SourceStands, DeletesStand
<1>5. JobsInv
  BY DEF Init, JobsInv, BodyCurrent, FailedForCause
<1>6. NothingLostInPeace
  BY DEF Init, NothingLostInPeace
<1> QED
  BY <1>1, <1>4, <1>5, <1>6 DEF PeaceInv

LEMMA StutterPeace ==
    ASSUME PeaceInv, UNCHANGED vars
    PROVE  EventsInv' /\ JobsInv' /\ NothingLostInPeace'
<1>0. TypeOK /\ EventsInv /\ JobsInv /\ NothingLostInPeace
  BY DEF PeaceInv
<1>1. UNCHANGED <<site, req, queue, worker, lost, calm, failures>>
  BY DEF vars, site, history
<1>2. Shrinks
  BY <1>1 DEF Shrinks, Flying, InNews, InQueue, AtWorker, Idle
<1>3. EventsInv'
  BY <1>0, <1>2, ShrinkKeeps
<1>4. Outdates
  BY <1>1 DEF Outdates, Current, site
<1>5. JobsInv'
  BY <1>0, <1>1, <1>4, OutdatesKeepsJobs
<1>6. NothingLostInPeace'
  BY <1>0, <1>1 DEF NothingLostInPeace, site
<1> QED
  BY <1>3, <1>5, <1>6

LEMMA StepPeace == PeaceInv /\ [Next]_vars => PeaceInv'
<1> SUFFICES ASSUME PeaceInv, [Next]_vars PROVE PeaceInv'
  OBVIOUS
<1>0. TypeOK'
  BY StepType DEF PeaceInv
<1>1. ASSUME NEW p \in Procs, NEW k \in Keys, NEW s \in Sizes, NEW l \in Sizes, PutObject(p, k, s, l) PROVE PeaceInv'
  BY <1>0, <1>1, PutObjectPeace DEF PeaceInv
<1>2. ASSUME NEW p \in Procs, NEW ks \in Lists, BeginDelete(p, ks) PROVE PeaceInv'
  BY <1>0, <1>2, BeginDeletePeace DEF PeaceInv
<1>3. ASSUME NEW p \in Procs, RequestStep(p) PROVE PeaceInv'
  BY <1>0, <1>3, EnqueuePeace, DeleteNextPeace, DeleteRefusedPeace DEF RequestStep, PeaceInv
<1>4. ASSUME NEW k \in Keys, SilentChange(k) PROVE PeaceInv'
  BY <1>0, <1>4, SilentChangePeace DEF PeaceInv
<1>5. ASSUME NEW w \in Workers, TakeEvent(w) PROVE PeaceInv'
  BY <1>0, <1>5, TakeEventPeace DEF PeaceInv
<1>6. ASSUME NEW w \in Workers, WorkerStep(w) PROVE PeaceInv'
  BY <1>0, <1>6, ReadSourcePeace, CallPeace, CallMisfitsPeace, CallFailsPeace, WaitPeace
  DEF WorkerStep, PeaceInv
<1>7. ASSUME NEW c \in late, LandLate(c) PROVE PeaceInv'
  BY <1>0, <1>7, LandLatePeace DEF PeaceInv
<1>8. CASE Restart
  BY <1>0, <1>8, RestartPeace DEF PeaceInv
<1>9. CASE UNCHANGED vars
  BY <1>0, <1>9, StutterPeace DEF PeaceInv
<1> QED
  BY <1>1, <1>2, <1>3, <1>4, <1>5, <1>6, <1>7, <1>8, <1>9 DEF Next

\* The invariant that the events and the workers keep.
THEOREM ReplicationInvariant == Spec => []PeaceInv
BY InitPeace, StepPeace, PTL DEF Spec

\* While no event is dropped, the server keeps running and fewer than MaxTries
\* calls fail, no target misses the last event of a key, unless the last change
\* of the key had no true event, as a put in aws-chunked encoding has none: an
\* object overwritten or deleted while it is sent is no cause
\* (replicateWithRetry, replicateToTarget).
THEOREM ReplicationLosesForCause == Spec => []NothingLostInPeace
BY ReplicationInvariant, PTL DEF PeaceInv

-----------------------------------------------------------------------------
(***************************************************************************)
(* The invariant behind QuietConverged.  The events of a key that has not  *)
(* raced are in line: at one worker first, in the queue next, and in one   *)
(* request last, and the last of them is that of the last change, unless   *)
(* that one was lost.  So a target has the object or is owed an event.     *)
(***************************************************************************)
Has(s, k) == \E i \in DOMAIN s : s[i].k = k

\* The last event of k in s is that of change n.
LastOf(s, k, n) ==
    \E i \in DOMAIN s : /\ s[i].k = k /\ s[i].n = n
                        /\ \A j \in DOMAIN s : j > i => s[j].k # k

Carries(w, k) == worker[w] # Idle /\ worker[w].ev.k = k

OneNews(k) ==
    \A p, q \in Procs : \A i \in DOMAIN req[p].news, j \in DOMAIN req[q].news :
        req[p].news[i].k = k /\ req[q].news[j].k = k => p = q /\ i = j

NewsLatest(k) ==
    \A p \in Procs : \A i \in DOMAIN req[p].news :
        req[p].news[i].k = k => req[p].news[i].n = latest[k]

OneCarrier(k) == \A v, w \in Workers : Carries(v, k) /\ Carries(w, k) => v = w

CarriedLatest(k) == \A w \in Workers : Carries(w, k) => worker[w].ev.n = latest[k]

\* The event of the last change is in the queue or at a worker, if any is.
Told(k) == IF Has(queue, k) THEN LastOf(queue, k, latest[k]) ELSE CarriedLatest(k)

Awaited(k) == \E t \in Targets : <<t, k>> \notin lost

InLine(k) ==
    k \notin raced =>
        /\ OneNews(k) /\ NewsLatest(k) /\ OneCarrier(k)
        /\ ~Announcing(k) /\ Awaited(k) => Told(k)

Owed(t, k) ==
    Announcing(k) \/ Has(queue, k) \/ \E w \in Workers : Carries(w, k) /\ worker[w].t <= t

Arrives(t, k) ==
    k \notin untold \cup raced /\ <<t, k>> \notin lost => Owed(t, k) \/ Replicated(t, k)

LateKeys == \A c \in late : c.k = c.ev.k

AllInLine == \A k \in Keys : InLine(k)
AllArrive == \A t \in Targets, k \in Keys : Arrives(t, k)

ConvergingInv == PeaceInv /\ LateKeys /\ AllInLine /\ AllArrive

LEMMA LastOfAppend ==
    ASSUME NEW s \in Seq(Events), NEW e \in Events, NEW k
    PROVE  /\ Has(Append(s, e), k) <=> Has(s, k) \/ e.k = k
           /\ e.k # k => \A n : LastOf(s, k, n) => LastOf(Append(s, e), k, n)
           /\ e.k = k => LastOf(Append(s, e), k, e.n)
<1> DEFINE a == Append(s, e)
<1>1. /\ DOMAIN s = 1..Len(s) /\ DOMAIN a = 1..(Len(s) + 1) /\ Len(s) \in Nat
      /\ \A i \in 1..Len(s) : a[i] = s[i]
      /\ a[Len(s) + 1] = e
  OBVIOUS
<1> HIDE DEF a
<1>2. Has(a, k) <=> Has(s, k) \/ e.k = k
  BY <1>1 DEF Has
<1>3. ASSUME e.k # k, NEW n, LastOf(s, k, n) PROVE LastOf(a, k, n)
  <2>1. PICK i \in DOMAIN s : /\ s[i].k = k /\ s[i].n = n
                              /\ \A j \in DOMAIN s : j > i => s[j].k # k
    BY <1>3 DEF LastOf
  <2>2. \A j \in DOMAIN a : j > i => a[j].k # k
    BY <1>1, <1>3, <2>1
  <2> QED
    BY <1>1, <2>1, <2>2 DEF LastOf
<1>4. e.k = k => LastOf(a, k, e.n)
  BY <1>1 DEF LastOf
<1> QED
  BY <1>2, <1>3, <1>4 DEF a

LEMMA LastOfTail ==
    ASSUME NEW s \in Seq(Events), s # <<>>, NEW k
    PROVE  /\ Has(Tail(s), k) => Has(s, k)
           /\ Has(s, k) => Has(Tail(s), k) \/ Head(s).k = k
           /\ Head(s).k = k => Has(s, k)
           /\ \A n : LastOf(s, k, n) => IF Has(Tail(s), k) THEN LastOf(Tail(s), k, n)
                                        ELSE Head(s).k = k /\ Head(s).n = n
<1> DEFINE u == Tail(s)
           h == Head(s)
<1>1. /\ Len(s) \in Nat \ {0} /\ DOMAIN s = 1..Len(s) /\ DOMAIN u = 1..(Len(s) - 1)
      /\ \A i \in 1..(Len(s) - 1) : u[i] = s[i + 1]
      /\ h = s[1]
  OBVIOUS
<1> HIDE DEF u, h
<1>2. Has(u, k) => Has(s, k)
  BY <1>1 DEF Has
<1>3. Has(s, k) => Has(u, k) \/ h.k = k
  <2> SUFFICES ASSUME NEW i \in DOMAIN s, s[i].k = k, h.k # k PROVE Has(u, k)
    BY DEF Has
  <2>1. i - 1 \in DOMAIN u /\ u[i - 1] = s[i]
    BY <1>1
  <2> QED
    BY <2>1 DEF Has
<1>4. h.k = k => Has(s, k)
  BY <1>1 DEF Has
<1>5. ASSUME NEW n, LastOf(s, k, n)
      PROVE  IF Has(u, k) THEN LastOf(u, k, n) ELSE h.k = k /\ h.n = n
  <2>1. PICK i \in DOMAIN s : /\ s[i].k = k /\ s[i].n = n
                              /\ \A j \in DOMAIN s : j > i => s[j].k # k
    BY <1>5 DEF LastOf
  <2>2. CASE i = 1
    <3>1. \A j \in DOMAIN u : u[j].k # k
      BY <1>1, <2>1, <2>2
    <3> QED
      BY <1>1, <2>1, <2>2, <3>1 DEF Has
  <2>3. CASE i # 1
    <3>1. i - 1 \in DOMAIN u /\ u[i - 1] = s[i]
      BY <1>1, <2>3
    <3>2. \A j \in DOMAIN u : j > i - 1 => u[j].k # k
      BY <1>1, <2>1
    <3> QED
      BY <2>1, <3>1, <3>2 DEF Has, LastOf
  <2> QED
    BY <2>2, <2>3
<1> QED
  BY <1>2, <1>3, <1>4, <1>5 DEF u, h

\* What a step leaves of the events of a key.
NewsStay(k) ==
    /\ \A p \in Procs : \E d \in {0, 1} : \A i \in DOMAIN req'[p].news :
          req'[p].news[i].k = k => /\ i + d \in DOMAIN req[p].news
                                   /\ req[p].news[i + d] = req'[p].news[i]
    /\ Announcing(k) => Announcing(k)'

QueueStays(k) ==
    /\ Has(queue', k) <=> Has(queue, k)
    /\ \A n : LastOf(queue, k, n) => LastOf(queue', k, n)

CarriersStay(k) ==
    \A w \in Workers : Carries(w, k)' => Carries(w, k) /\ worker'[w].ev = worker[w].ev

LineStays(k) ==
    /\ latest'[k] = latest[k]
    /\ k \notin raced' => k \notin raced
    /\ \A t \in Targets : <<t, k>> \notin lost' => <<t, k>> \notin lost

\* The news of a key that nobody adds to.
LEMMA NewsKeep ==
    ASSUME ReqType, ReqType', NEW k, NewsStay(k), OneNews(k), NewsLatest(k), latest'[k] = latest[k]
    PROVE  OneNews(k)' /\ NewsLatest(k)'
<1>1. \A p \in Procs : DOMAIN req'[p].news \subseteq Nat
  <2>1. \A p \in Procs : req'[p].news \in Seq(Events)
    BY DEF ReqType, Requests
  <2> QED
    BY <2>1
<1>2. OneNews(k)'
  <2> SUFFICES ASSUME NEW p \in Procs, NEW q \in Procs,
                      NEW i \in DOMAIN req'[p].news, NEW j \in DOMAIN req'[q].news,
                      req'[p].news[i].k = k, req'[q].news[j].k = k
               PROVE  p = q /\ i = j
    BY DEF OneNews
  <2>1. PICK d \in {0, 1} : \A m \in DOMAIN req'[p].news :
            req'[p].news[m].k = k => m + d \in DOMAIN req[p].news /\ req[p].news[m + d] = req'[p].news[m]
    BY DEF NewsStay
  <2>2. PICK e \in {0, 1} : \A m \in DOMAIN req'[q].news :
            req'[q].news[m].k = k => m + e \in DOMAIN req[q].news /\ req[q].news[m + e] = req'[q].news[m]
    BY DEF NewsStay
  <2>3. p = q /\ i + d = j + e
    BY <2>1, <2>2 DEF OneNews
  <2>4. j + d \in DOMAIN req[p].news /\ req[p].news[j + d].k = k
    BY <2>1, <2>3
  <2>5. i + d = j + d
    BY <2>1, <2>3, <2>4 DEF OneNews
  <2> QED
    BY <1>1, <2>3, <2>5
<1>3. NewsLatest(k)'
  BY DEF NewsStay, NewsLatest
<1> QED
  BY <1>2, <1>3

LEMMA LineFrame ==
    ASSUME ReqType, ReqType', NEW k \in Keys, InLine(k), LineStays(k), NewsStay(k), QueueStays(k),
           CarriersStay(k)
    PROVE  InLine(k)'
<1> SUFFICES ASSUME k \notin raced'
             PROVE  /\ OneNews(k)' /\ NewsLatest(k)' /\ OneCarrier(k)'
                    /\ ~Announcing(k)' /\ Awaited(k)' => Told(k)'
  BY DEF InLine
<1>1. /\ OneNews(k) /\ NewsLatest(k) /\ OneCarrier(k)
      /\ ~Announcing(k) /\ Awaited(k) => Told(k)
  BY DEF InLine, LineStays
<1>2. OneNews(k)' /\ NewsLatest(k)'
  BY <1>1, NewsKeep DEF LineStays
<1>3. OneCarrier(k)'
  BY <1>1 DEF OneCarrier, CarriersStay
<1>4. ASSUME ~Announcing(k)', Awaited(k)' PROVE Told(k)'
  <2>1. Told(k)
    BY <1>1, <1>4 DEF NewsStay, Awaited, LineStays
  <2>2. CASE Has(queue, k)
    BY <2>1, <2>2 DEF Told, QueueStays, LineStays
  <2>3. CASE ~Has(queue, k)
    <3>1. CarriedLatest(k)'
      BY <2>1, <2>3 DEF Told, CarriersStay, CarriedLatest, LineStays
    <3> QED
      BY <2>3, <3>1 DEF Told, QueueStays
  <2> QED
    BY <2>2, <2>3
<1> QED
  BY <1>2, <1>3, <1>4

LEMMA ArrivesFrame ==
    ASSUME NEW t \in Targets, NEW k \in Keys, Arrives(t, k), LineStays(k),
           k \notin untold' \cup raced' => k \notin untold,
           Owed(t, k) => Owed(t, k)',
           source'[k] = source[k], target'[t][k] = target[t][k]
    PROVE  Arrives(t, k)'
BY DEF Arrives, LineStays, Replicated

\* A change of ev.k is announced: request p has its event.
LEMMA AnnounceConverges ==
    ASSUME TypeOK, TypeOK', AllInLine, AllArrive, NEW p \in Procs, NEW ev \in Events,
           Announce(ev.k, ev.n),
           req'[p].news = Append(req[p].news, ev),
           \A q \in Procs : q # p => req'[q].news = req[q].news,
           UNCHANGED <<queue, worker, target>>,
           \A j \in Keys : j # ev.k => source'[j] = source[j] /\ (j \in untold' <=> j \in untold)
    PROVE  AllInLine' /\ AllArrive'
<1> DEFINE k == ev.k
<1>0. ReqType /\ ReqType' /\ latest \in [Keys -> 0..MaxChanges]
  BY TypeParts DEF SiteType
<1>1. k \in Keys
  BY EventFields
<1>2. req[p].news \in Seq(Events)
  BY <1>0, ReqParts
<1>3. DOMAIN req'[p].news = 1..(Len(req[p].news) + 1) /\ Len(req[p].news) \in Nat
      /\ DOMAIN req[p].news = 1..Len(req[p].news)
      /\ req'[p].news[Len(req[p].news) + 1] = ev
      /\ \A i \in 1..Len(req[p].news) : req'[p].news[i] = req[p].news[i]
  BY <1>2
<1>4. Announcing(k)'
  BY <1>3 DEF Announcing
<1>5. InLine(k)'
  <2> SUFFICES ASSUME k \notin raced' PROVE OneNews(k)' /\ NewsLatest(k)' /\ OneCarrier(k)'
    BY <1>4 DEF InLine
  <2>1. ~Announcing(k) /\ (OnTheWay(k) => k \notin raced)
    BY DEF Announce
  <2>2. \A q \in Procs : \A i \in DOMAIN req'[q].news :
            req'[q].news[i].k = k => q = p /\ i = Len(req[p].news) + 1
    <3> SUFFICES ASSUME NEW q \in Procs, NEW i \in DOMAIN req'[q].news, req'[q].news[i].k = k
                 PROVE  q = p /\ i = Len(req[p].news) + 1
      OBVIOUS
    <3>1. \A r \in Procs : \A m \in DOMAIN req[r].news : req[r].news[m].k # k
      BY <2>1 DEF Announcing
    <3>2. q = p
      <4> SUFFICES ASSUME q # p PROVE FALSE
        OBVIOUS
      <4>1. req'[q].news = req[q].news
        OBVIOUS
      <4> QED
        BY <3>1, <4>1
    <3>3. i \notin 1..Len(req[p].news)
      BY <1>3, <3>1, <3>2
    <3> QED
      BY <1>3, <3>2, <3>3
  <2>3. OneNews(k)'
    BY <2>2 DEF OneNews
  <2>4. latest'[k] = ev.n
    BY <1>0, <1>1 DEF Announce
  <2>5. NewsLatest(k)'
    <3> SUFFICES ASSUME NEW q \in Procs, NEW i \in DOMAIN req'[q].news, req'[q].news[i].k = k
                 PROVE  req'[q].news[i].n = latest'[k]
      BY DEF NewsLatest
    <3> QED
      BY <1>3, <2>2, <2>4
  <2>6. OneCarrier(k)
    <3>1. CASE OnTheWay(k)
      BY <1>1, <2>1, <3>1 DEF AllInLine, InLine
    <3>2. CASE ~OnTheWay(k)
      BY <3>2 DEF OnTheWay, Carried, OneCarrier, Carries
    <3> QED
      BY <3>1, <3>2
  <2>7. OneCarrier(k)'
    BY <2>6 DEF OneCarrier, Carries, Idle
  <2> QED
    BY <2>3, <2>5, <2>7
<1> HIDE DEF k
<1>6. ASSUME NEW j \in Keys, j # k
      PROVE  LineStays(j) /\ NewsStay(j) /\ QueueStays(j) /\ CarriersStay(j)
  <2>1. LineStays(j)
    BY <1>0, <1>1, <1>6 DEF LineStays, Announce, k
  <2>2. Announcing(j) => Announcing(j)'
    <3> SUFFICES ASSUME NEW q \in Procs, NEW i \in DOMAIN req[q].news, req[q].news[i].k = j
                 PROVE  i \in DOMAIN req'[q].news /\ req'[q].news[i].k = j
      BY DEF Announcing
    <3>1. CASE q = p
      <4>1. i \in 1..Len(req[p].news)
        BY <1>3, <3>1
      <4> QED
        BY <1>3, <3>1, <4>1
    <3>2. CASE q # p
      <4>1. req'[q].news = req[q].news
        BY <3>2
      <4> QED
        BY <4>1
    <3> QED
      BY <3>1, <3>2
  <2>3. ASSUME NEW q \in Procs
        PROVE  \A i \in DOMAIN req'[q].news :
                  req'[q].news[i].k = j => /\ i + 0 \in DOMAIN req[q].news
                                           /\ req[q].news[i + 0] = req'[q].news[i]
    <3>1. CASE q = p
      <4> SUFFICES ASSUME NEW i \in DOMAIN req'[p].news, req'[p].news[i].k = j
                   PROVE  i + 0 \in DOMAIN req[p].news /\ req[p].news[i + 0] = req'[p].news[i]
        BY <3>1
      <4>1. i \in 1..Len(req[p].news)
        BY <1>3, <1>6 DEF k
      <4> QED
        BY <1>3, <4>1
    <3>2. CASE q # p
      <4>1. req[q].news \in Seq(Events) /\ req'[q].news = req[q].news
        BY <1>0, <3>2, ReqParts
      <4> QED
        BY <4>1
    <3> QED
      BY <3>1, <3>2
  <2>4. NewsStay(j)
    BY <2>2, <2>3 DEF NewsStay
  <2>5. QueueStays(j) /\ CarriersStay(j)
    BY DEF QueueStays, CarriersStay, Carries, Idle
  <2> QED
    BY <2>1, <2>4, <2>5
<1>7. AllInLine'
  <2> SUFFICES ASSUME NEW j \in Keys PROVE InLine(j)'
    BY DEF AllInLine
  <2>1. CASE j = k
    BY <1>5, <2>1 DEF k
  <2>2. CASE j # k
    BY <1>0, <1>6, <2>2, LineFrame DEF AllInLine
  <2> QED
    BY <2>1, <2>2
<1>8. AllArrive'
  <2> SUFFICES ASSUME NEW t \in Targets, NEW j \in Keys PROVE Arrives(t, j)'
    BY DEF AllArrive
  <2>1. CASE j = k
    BY <1>4, <2>1 DEF Arrives, Owed, k
  <2>2. CASE j # k
    <3>1. Arrives(t, j) /\ LineStays(j) /\ NewsStay(j)
      BY <1>6, <2>2 DEF AllArrive
    <3>2. Owed(t, j) => Owed(t, j)'
      BY <3>1 DEF Owed, NewsStay, Carries, Idle
    <3>3. source'[j] = source[j] /\ target'[t][j] = target[t][j]
          /\ (j \notin untold' \cup raced' => j \notin untold)
      BY <2>2 DEF k
    <3> QED
      BY <3>1, <3>2, <3>3, ArrivesFrame
  <2> QED
    BY <2>1, <2>2
<1> QED
  BY <1>7, <1>8

\* No event moves: at most a key is left untold, or a late call goes.
LEMMA StillConverges ==
    ASSUME TypeOK, TypeOK', AllInLine, AllArrive,
           \A q \in Procs : req'[q].news = req[q].news,
           UNCHANGED <<queue, worker, latest, lost>>,
           raced \subseteq raced', untold \subseteq untold',
           \A j \in Keys : j \notin untold' => source'[j] = source[j],
           \A t \in Targets, j \in Keys : j \notin raced' => target'[t][j] = target[t][j] \/ Owed(t, j)
    PROVE  AllInLine' /\ AllArrive'
<1>0. ReqType /\ ReqType'
  BY TypeParts
<1>1. ASSUME NEW j \in Keys
      PROVE  LineStays(j) /\ NewsStay(j) /\ QueueStays(j) /\ CarriersStay(j)
  <2>1. LineStays(j) /\ QueueStays(j) /\ CarriersStay(j)
    BY DEF LineStays, QueueStays, CarriersStay, Carries, Idle
  <2>2. NewsStay(j)
    <3>1. Announcing(j) => Announcing(j)'
      BY DEF Announcing
    <3>2. ASSUME NEW q \in Procs, NEW i \in DOMAIN req'[q].news
          PROVE  i + 0 \in DOMAIN req[q].news /\ req[q].news[i + 0] = req'[q].news[i]
      <4>1. req[q].news \in Seq(Events) /\ req'[q].news = req[q].news
        BY <1>0, ReqParts
      <4> QED
        BY <3>2, <4>1
    <3> QED
      BY <3>1, <3>2 DEF NewsStay
  <2> QED
    BY <2>1, <2>2
<1>2. AllInLine'
  BY <1>0, <1>1, LineFrame DEF AllInLine
<1>3. AllArrive'
  <2> SUFFICES ASSUME NEW t \in Targets, NEW j \in Keys PROVE Arrives(t, j)'
    BY DEF AllArrive
  <2>1. Owed(t, j) => Owed(t, j)'
    BY <1>1 DEF Owed, NewsStay, Carries, Idle
  <2>2. Arrives(t, j)
    BY DEF AllArrive
  <2> SUFFICES ASSUME j \notin untold', j \notin raced', <<t, j>> \notin lost'
               PROVE  Owed(t, j)' \/ Replicated(t, j)'
    BY DEF Arrives
  <2>3. Owed(t, j) \/ Replicated(t, j)
    BY <2>2 DEF Arrives
  <2>4. source'[j] = source[j] /\ (target'[t][j] = target[t][j] \/ Owed(t, j))
    OBVIOUS
  <2> QED
    BY <2>1, <2>3, <2>4 DEF Replicated
<1> QED
  BY <1>2, <1>3

LEMMA PutObjectConverges ==
    ASSUME ConvergingInv, TypeOK', NEW p \in Procs, NEW k \in Keys, NEW s \in Sizes, NEW l \in Sizes, PutObject(p, k, s, l)
    PROVE  AllInLine' /\ AllArrive'
<1> DEFINE ev == [type |-> "put", k |-> k, n |-> changes + 1, size |-> l]
<1>0. TypeOK /\ AllInLine /\ AllArrive
  BY DEF ConvergingInv, PeaceInv
<1>1. source \in [Keys -> Objects \cup {None}] /\ changes \in 0..MaxChanges /\ req \in [Procs -> Requests]
  BY <1>0 DEF TypeOK
<1>2. ev \in Events
  BY <1>1, PutEvent DEF PutObject
<1>3. Announce(ev.k, ev.n)
  BY DEF PutObject
<1>4. /\ req'[p].news = <<ev>> /\ req[p].news = <<>>
      /\ \A q \in Procs : q # p => req'[q].news = req[q].news
  <2>1. req[p] = NoRequest /\ req' = [req EXCEPT ![p].news = <<ev>>]
    BY DEF PutObject
  <2> HIDE DEF ev
  <2> QED
    BY <1>1, <2>1 DEF NoRequest
<1>5. req'[p].news = Append(req[p].news, ev)
  <2> HIDE DEF ev
  <2> QED
    BY <1>4
<1>6. /\ UNCHANGED <<queue, worker, target>>
      /\ \A j \in Keys : j # ev.k => source'[j] = source[j] /\ (j \in untold' <=> j \in untold)
  BY <1>1 DEF PutObject
<1> HIDE DEF ev
<1> QED
  BY <1>0, <1>2, <1>3, <1>4, <1>5, <1>6, AnnounceConverges

LEMMA DeleteNextConverges ==
    ASSUME ConvergingInv, TypeOK', NEW p \in Procs, DeleteNext(p)
    PROVE  AllInLine' /\ AllArrive'
<1> DEFINE ev == Head(req[p].todo)
<1>0. TypeOK /\ AllInLine /\ AllArrive
  BY DEF ConvergingInv, PeaceInv
<1>1. source \in [Keys -> Objects \cup {None}] /\ req \in [Procs -> Requests]
  BY <1>0 DEF TypeOK
<1>2. req[p].todo \in Seq(Events) /\ req[p].todo # <<>>
  BY <1>1 DEF DeleteNext, Requests
<1>3. ev \in Events
  BY <1>2, HeadElement
<1>4. Announce(ev.k, ev.n)
  BY DEF DeleteNext
<1>5. /\ req'[p].news = Append(req[p].news, ev)
      /\ \A q \in Procs : q # p => req'[q].news = req[q].news
  BY <1>1 DEF DeleteNext
<1>6. /\ UNCHANGED <<queue, worker, target>>
      /\ \A j \in Keys : j # ev.k => source'[j] = source[j] /\ (j \in untold' <=> j \in untold)
  BY <1>1 DEF DeleteNext
<1> HIDE DEF ev
<1> QED
  BY <1>0, <1>3, <1>4, <1>5, <1>6, AnnounceConverges

LEMMA BeginDeleteConverges ==
    ASSUME ConvergingInv, TypeOK', NEW p \in Procs, NEW ks \in Lists, BeginDelete(p, ks)
    PROVE  AllInLine' /\ AllArrive'
<1> DEFINE todo == [i \in DOMAIN ks |-> [type |-> "delete", k |-> ks[i], n |-> changes + i]]
<1>0. TypeOK /\ AllInLine /\ AllArrive
  BY DEF ConvergingInv, PeaceInv
<1>1. req \in [Procs -> Requests]
  BY <1>0 DEF TypeOK
<1>2. req' = [req EXCEPT ![p].todo = todo]
  BY DEF BeginDelete
<1>3. \A q \in Procs : req'[q].news = req[q].news
  <2> HIDE DEF todo
  <2> QED
    BY <1>1, <1>2 DEF Requests
<1>4. UNCHANGED <<source, queue, worker, target, latest, untold, raced, lost>>
  BY DEF BeginDelete, history
<1> QED
  BY <1>0, <1>3, <1>4, StillConverges

LEMMA DeleteRefusedConverges ==
    ASSUME ConvergingInv, TypeOK', NEW p \in Procs, DeleteRefused(p)
    PROVE  AllInLine' /\ AllArrive'
<1>0. TypeOK /\ AllInLine /\ AllArrive
  BY DEF ConvergingInv, PeaceInv
<1>1. req \in [Procs -> Requests]
  BY <1>0 DEF TypeOK
<1>2. \A q \in Procs : req'[q].news = req[q].news
  BY <1>1 DEF DeleteRefused, Requests
<1>3. UNCHANGED <<source, queue, worker, target, latest, untold, raced, lost>>
  BY DEF DeleteRefused, history, site
<1> QED
  BY <1>0, <1>2, <1>3, StillConverges

LEMMA SilentChangeConverges ==
    ASSUME ConvergingInv, TypeOK', NEW k \in Keys, SilentChange(k)
    PROVE  AllInLine' /\ AllArrive'
<1>0. TypeOK /\ AllInLine /\ AllArrive
  BY DEF ConvergingInv, PeaceInv
<1>1. source \in [Keys -> Objects \cup {None}]
  BY <1>0 DEF TypeOK
<1>2. /\ UNCHANGED <<req, queue, worker, target, latest, raced, lost>>
      /\ untold' = untold \cup {k}
  BY DEF SilentChange, history
<1>3. \A j \in Keys : j \notin untold' => source'[j] = source[j]
  BY <1>1 DEF SilentChange
<1> QED
  BY <1>0, <1>2, <1>3, StillConverges

\* A late call lands where the same event is being tried, or the key has raced.
LEMMA LandLateConverges ==
    ASSUME ConvergingInv, TypeOK', NEW c \in late, LandLate(c)
    PROVE  AllInLine' /\ AllArrive'
<1>0. TypeOK /\ AllInLine /\ AllArrive /\ c.k = c.ev.k
  BY DEF ConvergingInv, PeaceInv, LateKeys
<1>1. target \in [Targets -> [Keys -> Copies]] /\ c.t \in Targets /\ c.k \in Keys
  BY <1>0 DEF TypeOK
<1>2. UNCHANGED <<req, source, untold, queue, worker, latest, lost>> /\ raced \subseteq raced'
  BY DEF LandLate, site
<1>3. \A t \in Targets, j \in Keys : j \notin raced' => target'[t][j] = target[t][j] \/ Owed(t, j)
  <2> SUFFICES ASSUME NEW t \in Targets, NEW j \in Keys, j \notin raced', target'[t][j] # target[t][j]
               PROVE  Owed(t, j)
    OBVIOUS
  <2>1. t = c.t /\ j = c.k
    BY <1>1 DEF LandLate
  <2>2. PICK w \in Workers : worker[w] # Idle /\ worker[w].ev = c.ev /\ worker[w].t = c.t
    BY <2>1 DEF LandLate
  <2>3. worker[w].t <= t
    BY <2>1, <2>2 DEF Targets
  <2> QED
    BY <1>0, <2>1, <2>2, <2>3 DEF Owed, Carries
<1> QED
  BY <1>0, <1>2, <1>3, StillConverges

LEMMA EnqueueConverges ==
    ASSUME ConvergingInv, TypeOK', NEW p \in Procs, Enqueue(p)
    PROVE  AllInLine' /\ AllArrive'
<1> DEFINE ev == Head(req[p].news)
<1>0. TypeOK /\ AllInLine /\ AllArrive /\ ReqType /\ ReqType'
  BY TypeParts DEF ConvergingInv, PeaceInv
<1>1. req \in [Procs -> Requests] /\ queue \in Seq(Events)
  BY <1>0 DEF TypeOK
<1>2. /\ UNCHANGED <<source, latest, untold, worker, target, raced>>
      /\ lost \subseteq lost'
      /\ \/ queue' = Append(queue, ev) /\ lost' = lost
         \/ queue' = queue /\ lost' = lost \cup LostWith(ev, Targets)
  BY DEF Enqueue, site
<1>3. /\ req[p].news \in Seq(Events) /\ req[p].news # <<>>
      /\ \A q \in Procs : q # p => req'[q].news = req[q].news
      /\ req'[p].news = Tail(req[p].news)
  BY <1>1 DEF Enqueue, Requests
<1>4. 1 \in DOMAIN req[p].news /\ ev = req[p].news[1] /\ ev \in Events /\ ev.k \in Keys
  BY <1>3, HeadElement, EventFields
<1>5. /\ DOMAIN req[p].news = 1..Len(req[p].news) /\ Len(req[p].news) \in Nat \ {0}
      /\ DOMAIN req'[p].news = 1..(Len(req[p].news) - 1)
      /\ \A i \in 1..(Len(req[p].news) - 1) : req'[p].news[i] = req[p].news[i + 1]
  BY <1>3
<1> HIDE DEF ev
<1>key. PICK k \in Keys : k = ev.k
  BY <1>4
<1>6. \A q \in Procs : \E d \in {0, 1} : \A i \in DOMAIN req'[q].news :
          i + d \in DOMAIN req[q].news /\ req[q].news[i + d] = req'[q].news[i]
  <2> TAKE q \in Procs
  <2>1. CASE q = p
    <3>1. \A i \in DOMAIN req'[p].news : i + 1 \in DOMAIN req[p].news /\ req[p].news[i + 1] = req'[p].news[i]
      BY <1>5
    <3> QED
      BY <2>1, <3>1
  <2>2. CASE q # p
    <3>1. req[q].news \in Seq(Events) /\ req'[q].news = req[q].news
      BY <1>0, <1>3, <2>2, ReqParts
    <3>2. \A i \in DOMAIN req'[q].news : i + 0 \in DOMAIN req[q].news /\ req[q].news[i + 0] = req'[q].news[i]
      BY <3>1
    <3> QED
      BY <3>2
  <2> QED
    BY <2>1, <2>2
<1>7. ASSUME NEW j \in Keys, j # k PROVE Announcing(j) => Announcing(j)'
  <2> SUFFICES ASSUME NEW q \in Procs, NEW i \in DOMAIN req[q].news, req[q].news[i].k = j
               PROVE  Announcing(j)'
    BY DEF Announcing
  <2>1. CASE q = p
    <3>1. i # 1
      BY <1>4, <1>7, <2>1, <1>key
    <3>2. i - 1 \in DOMAIN req'[p].news /\ req'[p].news[i - 1] = req[p].news[i]
      <4>1. i \in 1..Len(req[p].news)
        BY <1>5, <2>1
      <4> QED
        BY <1>5, <3>1, <4>1
    <3> QED
      BY <2>1, <3>2 DEF Announcing
  <2>2. CASE q # p
    <3>1. req'[q].news = req[q].news
      BY <1>3, <2>2
    <3> QED
      BY <3>1 DEF Announcing
  <2> QED
    BY <2>1, <2>2
<1>8. \A j \in Keys : LineStays(j) /\ CarriersStay(j)
  BY <1>2 DEF LineStays, CarriersStay, Carries, Idle
<1>9. ASSUME NEW j \in Keys, j # k PROVE NewsStay(j) /\ QueueStays(j)
  <2>1. NewsStay(j)
    <3>1. \A q \in Procs : \E d \in {0, 1} : \A i \in DOMAIN req'[q].news :
              req'[q].news[i].k = j => i + d \in DOMAIN req[q].news /\ req[q].news[i + d] = req'[q].news[i]
      BY <1>6
    <3> QED
      BY <1>7, <1>9, <3>1 DEF NewsStay
  <2>2. QueueStays(j)
    <3>1. CASE queue' = queue
      BY <3>1 DEF QueueStays
    <3>2. CASE queue' = Append(queue, ev)
      BY <1>1, <1>4, <1>9, <3>2, LastOfAppend, <1>key DEF QueueStays
    <3> QED
      BY <1>2, <3>1, <3>2
  <2> QED
    BY <2>1, <2>2
<1>10. ASSUME k \notin raced
       PROVE  /\ OneNews(k) /\ NewsLatest(k) /\ OneCarrier(k) /\ ev.n = latest[k]
  <2>1. OneNews(k) /\ NewsLatest(k) /\ OneCarrier(k)
    BY <1>0, <1>4, <1>10 DEF AllInLine, InLine
  <2>2. ev.n = latest[k]
    BY <1>4, <2>1, <1>key DEF NewsLatest
  <2> QED
    BY <2>1, <2>2
<1>11. k \notin raced => \/ /\ Has(queue', k)
                            /\ LastOf(queue', k, latest[k])
                         \/ \A t \in Targets : <<t, k>> \in lost'
  <2>1. CASE queue' = Append(queue, ev)
    <3>1. Has(Append(queue, ev), k) /\ LastOf(Append(queue, ev), k, ev.n)
      BY <1>1, <1>4, LastOfAppend, <1>key
    <3> QED
      BY <1>10, <2>1, <3>1
  <2>2. CASE lost' = lost \cup LostWith(ev, Targets)
    BY <1>10, <2>2, <1>key DEF LostWith
  <2> QED
    BY <1>2, <2>1, <2>2
<1>12. InLine(k)'
  <2> SUFFICES ASSUME k \notin raced'
               PROVE  /\ OneNews(k)' /\ NewsLatest(k)' /\ OneCarrier(k)'
                      /\ ~Announcing(k)' /\ Awaited(k)' => Told(k)'
    BY DEF InLine
  <2>0. k \notin raced
    BY <1>2
  <2>1. ASSUME NEW q \in Procs, NEW i \in DOMAIN req'[q].news, req'[q].news[i].k = k PROVE FALSE
    <3>1. CASE q = p
      <4>1. i + 1 \in DOMAIN req[p].news /\ req[p].news[i + 1].k = k
        BY <1>5, <2>1, <3>1
      <4>2. i + 1 = 1
        BY <1>4, <1>10, <2>0, <4>1, <1>key DEF OneNews
      <4> QED
        BY <1>5, <2>1, <3>1, <4>2
    <3>2. CASE q # p
      <4>1. req'[q].news = req[q].news
        BY <1>3, <3>2
      <4> QED
        BY <1>4, <1>10, <2>0, <2>1, <3>2, <4>1, <1>key DEF OneNews
    <3> QED
      BY <3>1, <3>2
  <2>2. OneNews(k)' /\ NewsLatest(k)'
    BY <2>1 DEF OneNews, NewsLatest
  <2>3. OneCarrier(k)'
    BY <1>2, <1>10, <2>0 DEF OneCarrier, Carries, Idle
  <2>4. Awaited(k)' => Told(k)'
    BY <1>2, <1>11, <2>0 DEF Awaited, Told
  <2> QED
    BY <2>2, <2>3, <2>4
<1>13. AllInLine'
  <2> SUFFICES ASSUME NEW j \in Keys PROVE InLine(j)'
    BY DEF AllInLine
  <2>1. CASE j = k
    BY <1>12, <2>1
  <2>2. CASE j # k
    BY <1>0, <1>8, <1>9, <2>2, LineFrame DEF AllInLine
  <2> QED
    BY <2>1, <2>2
<1>14. AllArrive'
  <2> SUFFICES ASSUME NEW t \in Targets, NEW j \in Keys PROVE Arrives(t, j)'
    BY DEF AllArrive
  <2>1. CASE j = k
    <3>1. k \notin raced' /\ <<t, k>> \notin lost' => Has(queue', k)
      BY <1>2, <1>11
    <3> QED
      BY <2>1, <3>1 DEF Arrives, Owed
  <2>2. CASE j # k
    <3>1. Owed(t, j) => Owed(t, j)'
      BY <1>2, <1>9, <2>2 DEF Owed, NewsStay, QueueStays, Carries, Idle
    <3>2. Arrives(t, j) /\ LineStays(j)
      BY <1>0, <1>8 DEF AllArrive
    <3> QED
      BY <1>2, <3>1, <3>2, ArrivesFrame
  <2> QED
    BY <2>1, <2>2
<1> QED
  BY <1>13, <1>14

LEMMA TakeEventConverges ==
    ASSUME ConvergingInv, TypeOK', NEW w \in Workers, TakeEvent(w)
    PROVE  AllInLine' /\ AllArrive'
<1> DEFINE ev == Head(queue)
           r == Attempt(ev, 1, 1)
<1>0. TypeOK /\ AllInLine /\ AllArrive /\ ReqType /\ ReqType'
  BY TypeParts DEF ConvergingInv, PeaceInv
<1>1. /\ queue \in Seq(Events) /\ queue # <<>>
      /\ worker \in [Workers -> {Idle} \cup Jobs] /\ worker[w] = Idle
  BY <1>0 DEF TypeOK, TakeEvent
<1>2. ev \in Events /\ ev.k \in Keys
  BY <1>1, HeadElement, EventFields
<1>3. /\ UNCHANGED <<source, latest, untold, req, target, lost>>
      /\ queue' = Tail(queue) /\ SetWorker(w, r)
      /\ raced' = IF Carried(ev.k) THEN raced \cup {ev.k} ELSE raced
  BY DEF TakeEvent, SetWorker, site
<1>4. r.ev = ev /\ r # Idle /\ r.t = 1
  <2>1. 1 \in Targets /\ 1 \in 1..MaxTries
    BY DEF Targets
  <2> QED
    BY <1>2, <2>1, AttemptIsJob, JobFields
<1> HIDE DEF ev, r
<1>key. PICK k \in Keys : k = ev.k
  BY <1>2
<1>5. \A v \in Workers : worker'[v] = IF v = w THEN r ELSE worker[v]
  BY <1>1, <1>3 DEF SetWorker
<1>6. \A j \in Keys : LineStays(j) /\ NewsStay(j)
  <2>1. \A j \in Keys : LineStays(j)
    BY <1>3 DEF LineStays
  <2>2. \A q \in Procs : \A i \in DOMAIN req'[q].news :
           i + 0 \in DOMAIN req[q].news /\ req[q].news[i + 0] = req'[q].news[i]
    <3> SUFFICES ASSUME NEW q \in Procs, NEW i \in DOMAIN req[q].news
                 PROVE  i + 0 \in DOMAIN req[q].news /\ req[q].news[i + 0] = req[q].news[i]
      BY <1>3
    <3>1. req[q].news \in Seq(Events)
      BY <1>0, ReqParts
    <3> QED
      BY <3>1
  <2>3. \A j \in Keys : Announcing(j) => Announcing(j)'
    BY <1>3 DEF Announcing
  <2> QED
    BY <2>1, <2>2, <2>3 DEF NewsStay
<1>7. \A v \in Workers, j \in Keys : Carries(v, j)' <=> IF v = w THEN j = k ELSE Carries(v, j)
  BY <1>4, <1>5, <1>key DEF Carries, Idle
<1>8. ASSUME NEW j \in Keys, j # k PROVE QueueStays(j) /\ CarriersStay(j)
  <2>1. QueueStays(j)
    BY <1>1, <1>3, <1>8, LastOfTail, <1>key DEF QueueStays, ev
  <2>2. CarriersStay(j)
    BY <1>5, <1>7, <1>8 DEF CarriersStay
  <2> QED
    BY <2>1, <2>2
<1>9. InLine(k)'
  <2> SUFFICES ASSUME k \notin raced'
               PROVE  /\ OneNews(k)' /\ NewsLatest(k)' /\ OneCarrier(k)'
                      /\ ~Announcing(k)' /\ Awaited(k)' => Told(k)'
    BY DEF InLine
  <2>0. ~Carried(k) /\ k \notin raced
    BY <1>3, <1>key
  <2>1. /\ OneNews(k) /\ NewsLatest(k)
        /\ ~Announcing(k) /\ Awaited(k) => Told(k)
    BY <1>0, <1>2, <2>0 DEF AllInLine, InLine
  <2>2. OneNews(k)' /\ NewsLatest(k)'
    BY <1>0, <1>2, <1>6, <2>1, NewsKeep DEF LineStays
  <2>3. \A v \in Workers : Carries(v, k)' => v = w
    BY <1>2, <1>7, <2>0 DEF Carried, Carries
  <2>4. OneCarrier(k)'
    BY <2>3 DEF OneCarrier
  <2>5. ASSUME ~Announcing(k)', Awaited(k)' PROVE Told(k)'
    <3>1. Told(k) /\ Has(queue, k)
      <4>1. Told(k)
        BY <1>2, <1>3, <1>6, <2>1, <2>5 DEF NewsStay, Awaited
      <4> QED
        BY <1>1, <4>1, LastOfTail, <1>key DEF ev
    <3>2. IF Has(queue', k) THEN LastOf(queue', k, latest[k]) ELSE ev.n = latest[k]
      BY <1>1, <1>3, <3>1, LastOfTail DEF Told, ev
    <3>3. CASE Has(queue', k)
      BY <1>3, <3>2, <3>3 DEF Told
    <3>4. CASE ~Has(queue', k)
      <4>1. CarriedLatest(k)'
        BY <1>3, <1>4, <1>5, <2>3, <3>2, <3>4 DEF CarriedLatest
      <4> QED
        BY <3>4, <4>1 DEF Told
    <3> QED
      BY <3>3, <3>4
  <2> QED
    BY <2>2, <2>4, <2>5
<1>10. AllInLine'
  <2> SUFFICES ASSUME NEW j \in Keys PROVE InLine(j)'
    BY DEF AllInLine
  <2>1. CASE j = k
    BY <1>9, <2>1
  <2>2. CASE j # k
    BY <1>0, <1>6, <1>8, <2>2, LineFrame DEF AllInLine
  <2> QED
    BY <2>1, <2>2
<1>11. AllArrive'
  <2> SUFFICES ASSUME NEW t \in Targets, NEW j \in Keys PROVE Arrives(t, j)'
    BY DEF AllArrive
  <2>1. CASE j = k
    <3>1. Carries(w, k)' /\ worker'[w].t <= t
      BY <1>2, <1>4, <1>5, <1>7 DEF Targets
    <3> QED
      BY <2>1, <3>1 DEF Arrives, Owed
  <2>2. CASE j # k
    <3>1. Owed(t, j) => Owed(t, j)'
      <4>1. \A v \in Workers : Carries(v, j) => Carries(v, j)' /\ worker'[v] = worker[v]
        BY <1>1, <1>5, <1>7 DEF Carries
      <4> QED
        BY <1>6, <1>8, <2>2, <4>1 DEF Owed, NewsStay, QueueStays
    <3>2. Arrives(t, j) /\ LineStays(j)
      BY <1>0, <1>6 DEF AllArrive
    <3>3. j \notin untold' \cup raced' => j \notin untold
      BY <1>3
    <3> QED
      BY <1>3, <3>1, <3>2, <3>3, ArrivesFrame
  <2> QED
    BY <2>1, <2>2
<1> QED
  BY <1>10, <1>11

\* A worker goes on with its event, or rests.
LEMMA WorkerLine ==
    ASSUME TypeOK, AllInLine, NEW w \in Workers, worker[w] # Idle, NEW r, SetWorker(w, r),
           r # Idle => r.ev = worker[w].ev,
           UNCHANGED <<req, queue, latest, raced>>, lost \subseteq lost'
    PROVE  /\ AllInLine'
           /\ \A j \in Keys : LineStays(j)
<1>0. ReqType /\ ReqType' /\ worker \in [Workers -> {Idle} \cup Jobs]
  BY TypeParts DEF ReqType, TypeOK
<1>1. \A v \in Workers : worker'[v] = IF v = w THEN r ELSE worker[v]
  BY <1>0 DEF SetWorker
<1>2. \A j \in Keys : LineStays(j) /\ QueueStays(j)
  BY DEF LineStays, QueueStays
<1>3. \A j \in Keys : NewsStay(j)
  <2>1. \A q \in Procs : \A i \in DOMAIN req'[q].news :
           i + 0 \in DOMAIN req[q].news /\ req[q].news[i + 0] = req'[q].news[i]
    <3> SUFFICES ASSUME NEW q \in Procs, NEW i \in DOMAIN req[q].news
                 PROVE  i + 0 \in DOMAIN req[q].news /\ req[q].news[i + 0] = req[q].news[i]
      OBVIOUS
    <3>1. req[q].news \in Seq(Events)
      BY <1>0, ReqParts
    <3> QED
      BY <3>1
  <2>2. \A j \in Keys : Announcing(j) => Announcing(j)'
    BY DEF Announcing
  <2> QED
    BY <2>1, <2>2 DEF NewsStay
<1>4. \A j \in Keys : CarriersStay(j)
  BY <1>1 DEF CarriersStay, Carries, Idle
<1> QED
  BY <1>0, <1>2, <1>3, <1>4, LineFrame DEF AllInLine

\* Nothing changes for a key that the worker does not carry.
LEMMA OthersArrive ==
    ASSUME TypeOK, AllArrive, NEW w \in Workers, worker[w] # Idle, NEW r, SetWorker(w, r),
           UNCHANGED <<req, queue, source, untold, raced>>,
           NEW t \in Targets, NEW j \in Keys, j # worker[w].ev.k, LineStays(j),
           target'[t][j] = target[t][j]
    PROVE  Arrives(t, j)'
<1>0. worker \in [Workers -> {Idle} \cup Jobs]
  BY DEF TypeOK
<1>1. \A v \in Workers : worker'[v] = IF v = w THEN r ELSE worker[v]
  BY <1>0 DEF SetWorker
<1>2. \A v \in Workers : Carries(v, j) => Carries(v, j)' /\ worker'[v] = worker[v]
  BY <1>1 DEF Carries, Idle
<1>3. Owed(t, j) => Owed(t, j)'
  BY <1>2 DEF Owed, Announcing
<1>4. Arrives(t, j)
  BY DEF AllArrive
<1> QED
  BY <1>3, <1>4, ArrivesFrame

\* The worker stays at its target, where anything may have arrived meanwhile.
LEMMA WorkerStaysConverges ==
    ASSUME TypeOK, AllInLine, AllArrive, NEW w \in Workers, worker[w] # Idle,
           NEW r, SetWorker(w, r), r # Idle, r.ev = worker[w].ev, r.t = worker[w].t,
           UNCHANGED <<req, queue, source, latest, untold, raced>>, lost \subseteq lost',
           \A t \in Targets, j \in Keys :
              t # worker[w].t \/ j # worker[w].ev.k => target'[t][j] = target[t][j]
    PROVE  AllInLine' /\ AllArrive'
<1>0. worker \in [Workers -> {Idle} \cup Jobs]
  BY DEF TypeOK
<1>1. \A v \in Workers : worker'[v] = IF v = w THEN r ELSE worker[v]
  BY <1>0 DEF SetWorker
<1>2. AllInLine' /\ \A j \in Keys : LineStays(j)
  BY WorkerLine
<1>3. ASSUME NEW t \in Targets, NEW k \in Keys, k = worker[w].ev.k PROVE Arrives(t, k)'
  <2>0. worker[w].t \in Nat /\ t \in Nat
    BY <1>0, JobFields, EventFields DEF Targets
  <2>1. \A v \in Workers : Carries(v, k) <=> Carries(v, k)'
    BY <1>1 DEF Carries, Idle
  <2>2. \A v \in Workers : Carries(v, k) => worker'[v].t = worker[v].t
    BY <1>1
  <2>3. Owed(t, k) => Owed(t, k)'
    BY <2>1, <2>2 DEF Owed, Announcing
  <2>4. Arrives(t, k) /\ LineStays(k)
    BY <1>2, <2>0 DEF AllArrive
  <2>5. CASE t = worker[w].t
    <3>1. Carries(w, k)' /\ worker'[w].t <= t
      BY <1>1, <1>3, <2>0, <2>5 DEF Carries, Idle
    <3> QED
      BY <3>1 DEF Arrives, Owed
  <2>6. CASE t # worker[w].t
    BY <2>0, <2>3, <2>4, <2>6, ArrivesFrame
  <2> QED
    BY <2>5, <2>6
<1>4. AllArrive'
  <2> SUFFICES ASSUME NEW t \in Targets, NEW j \in Keys PROVE Arrives(t, j)'
    BY DEF AllArrive
  <2>1. CASE j = worker[w].ev.k
    BY <1>3, <2>1
  <2>2. CASE j # worker[w].ev.k
    BY <1>2, <2>2, OthersArrive
  <2> QED
    BY <2>1, <2>2
<1> QED
  BY <1>2, <1>4

\* An event that is the only one on its way is that of the last change.
LEMMA LastInLine ==
    ASSUME TypeOK, AllInLine, NEW w \in Workers, worker[w] # Idle,
           NEW k \in Keys, k = worker[w].ev.k, NEW t \in Targets,
           k \notin raced, <<t, k>> \notin lost, ~Announcing(k), ~Has(queue, k)
    PROVE  worker[w].ev.n = latest[k] /\ \A v \in Workers : Carries(v, k) => v = w
<1>1. OneCarrier(k) /\ Told(k)
  BY DEF AllInLine, InLine, Awaited
<1>2. Carries(w, k)
  BY DEF Carries
<1> QED
  BY <1>1, <1>2 DEF Told, CarriedLatest, OneCarrier

\* The worker goes on to the next target, when the one it leaves has the
\* object or has lost it.
LEMMA NextTargetConverges ==
    ASSUME TypeOK, AllInLine, AllArrive, NEW w \in Workers, worker[w] \in Jobs, NextTarget(w),
           UNCHANGED <<req, queue, source, latest, untold, raced>>, lost \subseteq lost',
           \A t \in Targets, j \in Keys :
              t # worker[w].t \/ j # worker[w].ev.k => target'[t][j] = target[t][j],
           NEW k \in Keys, k = worker[w].ev.k, NEW u \in Targets, u = worker[w].t,
           Current(worker[w].ev) /\ <<u, k>> \notin lost' => Replicated(u, k)'
    PROVE  AllInLine' /\ AllArrive'
<1>0. worker \in [Workers -> {Idle} \cup Jobs] /\ worker[w] # Idle
  BY JobFields DEF TypeOK
<1>1. PICK r \in {Idle} \cup Jobs :
         /\ SetWorker(w, r)
         /\ IF worker[w].t = NumTargets THEN r = Idle ELSE r # Idle /\ r.t = worker[w].t + 1
         /\ r # Idle => r.ev = worker[w].ev
  BY NextTargetSets
<1>2. \A v \in Workers : worker'[v] = IF v = w THEN r ELSE worker[v]
  BY <1>0, <1>1 DEF SetWorker
<1>3. AllInLine' /\ \A j \in Keys : LineStays(j)
  BY <1>0, <1>1, WorkerLine
<1>4. ASSUME NEW t \in Targets PROVE Arrives(t, k)'
  <2> SUFFICES ASSUME k \notin untold', k \notin raced', <<t, k>> \notin lost', ~Owed(t, k)'
               PROVE  Replicated(t, k)'
    BY DEF Arrives
  <2>1. /\ k \notin untold /\ k \notin raced /\ <<t, k>> \notin lost
        /\ ~Announcing(k) /\ ~Has(queue, k)
        /\ \A v \in Workers : ~(Carries(v, k)' /\ worker'[v].t <= t)
    BY DEF Owed, Announcing
  <2>2. worker[w].ev.n = latest[k] /\ \A v \in Workers : Carries(v, k) => v = w
    BY <1>0, <2>1, LastInLine
  <2>3. worker[w].t \in Nat /\ t \in Nat /\ NumTargets \in Nat /\ t <= NumTargets
    BY JobFields DEF Targets
  <2>4. CASE t = u
    BY <2>1, <2>2, <2>4 DEF Current
  <2>5. CASE t < u
    <3>1. ~Owed(t, k)
      BY <2>1, <2>2, <2>3, <2>5 DEF Owed
    <3> QED
      BY <2>1, <2>3, <2>5, <3>1 DEF AllArrive, Arrives, Replicated
  <2>6. CASE t > u
    <3>1. r # Idle /\ r.t = u + 1
      BY <1>1, <2>3, <2>6
    <3>2. Carries(w, k)' /\ worker'[w].t <= t
      BY <1>1, <1>2, <2>3, <2>6, <3>1 DEF Carries, Idle
    <3> QED
      BY <2>1, <3>2
  <2> QED
    BY <2>3, <2>4, <2>5, <2>6
<1>5. AllArrive'
  <2> SUFFICES ASSUME NEW t \in Targets, NEW j \in Keys PROVE Arrives(t, j)'
    BY DEF AllArrive
  <2>1. CASE j = k
    BY <1>4, <2>1
  <2>2. CASE j # k
    BY <1>0, <1>1, <1>3, <2>2, OthersArrive
  <2> QED
    BY <2>1, <2>2
<1> QED
  BY <1>3, <1>5

LEMMA ReadSourceConverges ==
    ASSUME ConvergingInv, NEW w \in Workers, ReadSource(w)
    PROVE  AllInLine' /\ AllArrive'
<1>0. TypeOK /\ AllInLine /\ AllArrive
  BY DEF ConvergingInv, PeaceInv
<1>1. source \in [Keys -> Objects \cup {None}]
  BY <1>0 DEF TypeOK
<1>2. worker[w] \in Jobs /\ worker[w] # Idle /\ worker[w].ev.k \in Keys
  BY <1>0, WorkerHasJob, JobFields, EventFields DEF ReadSource
<1>3. UNCHANGED <<req, queue, source, latest, untold, raced, target, lost>>
  BY DEF ReadSource, site, history
<1>4. \E r \in Jobs : SetWorker(w, r) /\ r.ev = worker[w].ev /\ r.t = worker[w].t
  <2>1. CASE source[worker[w].ev.k] = None
    BY <1>2, <2>1, FailAttemptSets DEF ReadSource
  <2>2. CASE source[worker[w].ev.k] # None
    <3>1. Goto(w, "call", source[worker[w].ev.k]) /\ source[worker[w].ev.k] \in Objects
      BY <1>1, <1>2, <2>2 DEF ReadSource
    <3> QED
      BY <1>2, <3>1, CallSets
  <2> QED
    BY <2>1, <2>2
<1> QED
  BY <1>0, <1>2, <1>3, <1>4, JobFields, WorkerStaysConverges

LEMMA CallMisfitsConverges ==
    ASSUME ConvergingInv, NEW w \in Workers, CallMisfits(w)
    PROVE  AllInLine' /\ AllArrive'
<1>0. TypeOK /\ AllInLine /\ AllArrive
  BY DEF ConvergingInv, PeaceInv
<1>1. target \in [Targets -> [Keys -> Copies]]
  BY <1>0 DEF TypeOK
<1>2. worker[w] \in Jobs /\ worker[w] # Idle
  BY <1>0, WorkerHasJob, JobFields DEF CallMisfits
<1>3. UNCHANGED <<req, queue, source, latest, untold, raced, lost>>
  BY DEF CallMisfits, site, history
<1>4. \E r \in Jobs : SetWorker(w, r) /\ r.ev = worker[w].ev /\ r.t = worker[w].t
  BY <1>2, FailAttemptSets DEF CallMisfits
<1>5. \A t \in Targets, j \in Keys :
          t # worker[w].t \/ j # worker[w].ev.k => target'[t][j] = target[t][j]
  BY <1>1 DEF CallMisfits
<1> QED
  BY <1>0, <1>2, <1>3, <1>4, <1>5, JobFields, WorkerStaysConverges

LEMMA CallFailsConverges ==
    ASSUME ConvergingInv, NEW w \in Workers, CallFails(w)
    PROVE  AllInLine' /\ AllArrive'
<1>0. TypeOK /\ AllInLine /\ AllArrive
  BY DEF ConvergingInv, PeaceInv
<1>2. worker[w] \in Jobs /\ worker[w] # Idle
  BY <1>0, WorkerHasJob, JobFields DEF CallFails
<1>3. UNCHANGED <<req, queue, source, latest, untold, raced, target, lost>>
  BY DEF CallFails, site
<1>4. \E r \in Jobs : SetWorker(w, r) /\ r.ev = worker[w].ev /\ r.t = worker[w].t
  BY <1>2, FailAttemptSets DEF CallFails
<1> QED
  BY <1>0, <1>2, <1>3, <1>4, JobFields, WorkerStaysConverges

\* What a call brings, when it is that of the last change.
LEMMA CallConverges ==
    ASSUME ConvergingInv, NEW w \in Workers, Call(w)
    PROVE  AllInLine' /\ AllArrive'
<1> DEFINE j == worker[w]
<1>0. TypeOK /\ AllInLine /\ AllArrive /\ EventsInv /\ JobsInv
  BY DEF ConvergingInv, PeaceInv
<1>1. target \in [Targets -> [Keys -> Copies]]
  BY <1>0 DEF TypeOK
<1>2. j \in Jobs /\ j # Idle /\ j.at = "call"
  BY <1>0, WorkerHasJob, JobFields DEF Call
<1>3. j.ev \in Events /\ j.ev.type \in {"put", "delete"} /\ Flying(j.ev)
  BY <1>2, JobFields, EventFields DEF Flying, AtWorker
<1>4. PICK k \in Keys : k = j.ev.k
  BY <1>3, EventFields
<1>5. PICK u \in Targets : u = j.t
  BY <1>2, JobFields
<1>6. UNCHANGED <<req, queue, source, latest, untold, raced, lost>>
  BY DEF Call, site, history
<1>7. target' = [target EXCEPT ![u][k] = Sent(j)] /\ Fits(j) /\ NextTarget(w)
  BY <1>4, <1>5 DEF Call
<1>8. /\ target'[u][k] = Sent(j)
      /\ \A t \in Targets, i \in Keys : t # u \/ i # k => target'[t][i] = target[t][i]
  BY <1>1, <1>7
<1>9. Current(j.ev) => Replicated(u, k)'
  <2> SUFFICES ASSUME Current(j.ev)
               PROVE  Sent(j) = IF source[k] = None THEN None ELSE [n |-> source[k].n, whole |-> TRUE]
    BY <1>6, <1>8 DEF Replicated
  <2>1. CASE j.ev.type = "put"
    <3>1. source[k] = [n |-> j.ev.n, size |-> j.ev.size] /\ j.body = source[k]
      BY <1>0, <1>2, <1>3, <1>4, <2>1 DEF EventsInv, SourceStands, JobsInv, BodyCurrent
    <3>2. source[k] # None
      <4>1. [n |-> j.ev.n, size |-> j.ev.size] \in [n : 1..MaxChanges, size : Sizes]
        BY <1>3, <2>1, EventFields
      <4> QED
        BY <3>1, <4>1, NoneAssumption
    <3> QED
      BY <1>7, <2>1, <3>1, <3>2 DEF Sent
  <2>2. CASE j.ev.type = "delete"
    <3>1. source[k] = None
      BY <1>0, <1>3, <1>4, <2>2 DEF EventsInv, DeletesStand
    <3> QED
      BY <2>2, <3>1 DEF Sent
  <2> QED
    BY <1>3, <2>1, <2>2
<1> QED
  BY <1>0, <1>2, <1>4, <1>5, <1>6, <1>7, <1>8, <1>9, NextTargetConverges

\* Another try, or the event is lost for this target.
LEMMA WaitConverges ==
    ASSUME ConvergingInv, NEW w \in Workers, Wait(w)
    PROVE  AllInLine' /\ AllArrive'
<1> DEFINE j == worker[w]
<1>0. TypeOK /\ AllInLine /\ AllArrive
  BY DEF ConvergingInv, PeaceInv
<1>1. j \in Jobs /\ j # Idle
  BY <1>0, WorkerHasJob, JobFields DEF Wait
<1>2. j.ev \in Events /\ j.t \in Targets /\ j.try \in 1..MaxTries
  BY <1>1, JobFields
<1>3. UNCHANGED <<req, queue, source, latest, untold, raced, target>>
  BY DEF Wait, site
<1>4. CASE j.try < MaxTries
  <2> DEFINE r == Attempt(j.ev, j.t, j.try + 1)
  <2>1. r # Idle /\ r.ev = j.ev /\ r.t = j.t
    BY <1>2, <1>4, AttemptIsJob, JobFields
  <2>2. SetWorker(w, r) /\ lost' = lost
    BY <1>4 DEF Wait, SetWorker
  <2> HIDE DEF r
  <2> QED
    BY <1>0, <1>1, <1>3, <2>1, <2>2, WorkerStaysConverges
<1>5. CASE ~(j.try < MaxTries)
  <2>1. NextTarget(w) /\ lost' = lost \cup LostWith(j.ev, {j.t})
    BY <1>5 DEF Wait
  <2>2. PICK k \in Keys : k = j.ev.k
    BY <1>2, EventFields
  <2>3. PICK u \in Targets : u = j.t
    BY <1>2
  <2>4. Current(j.ev) => <<u, k>> \in lost'
    BY <2>1, <2>2, <2>3 DEF Current, LostWith
  <2> QED
    BY <1>0, <1>1, <1>3, <2>1, <2>2, <2>3, <2>4, NextTargetConverges
<1> QED
  BY <1>4, <1>5

\* A restart loses what a target is owed of the last change.
LEMMA RestartLoses ==
    ASSUME ConvergingInv, Restart, NEW t \in Targets, NEW k \in Keys,
           k \notin raced, Owed(t, k)
    PROVE  <<t, k>> \in lost'
<1>0. TypeOK /\ AllInLine /\ ReqType
  BY TypeParts DEF ConvergingInv, PeaceInv
<1>1. lost' = lost \cup UNION {LostWith(e[1], e[2]) : e \in Pending}
  BY DEF Restart
<1>2. OneNews(k) /\ NewsLatest(k) /\ (~Announcing(k) /\ Awaited(k) => Told(k))
  BY <1>0 DEF AllInLine, InLine
<1>3. ASSUME NEW ev, NEW ts, <<ev, ts>> \in Pending, ev.k = k, ev.n = latest[k], t \in ts
      PROVE  <<t, k>> \in lost'
  <2>1. <<t, k>> \in LostWith(ev, ts)
    BY <1>3 DEF LostWith
  <2>2. LostWith(<<ev, ts>>[1], <<ev, ts>>[2]) \subseteq lost'
    BY <1>1, <1>3
  <2> QED
    BY <2>1, <2>2
<1>4. CASE Announcing(k)
  <2>1. PICK p \in Procs : \E i \in DOMAIN req[p].news : req[p].news[i].k = k
    BY <1>4 DEF Announcing
  <2>2. PICK i \in DOMAIN req[p].news : req[p].news[i].k = k
    BY <2>1
  <2>3. req[p].news[i].n = latest[k]
    BY <1>2, <2>2 DEF NewsLatest
  <2>4. <<req[p].news[i], Targets>> \in Pending
    BY <2>2 DEF Pending
  <2> QED
    BY <1>3, <2>2, <2>3, <2>4
<1>5. CASE ~Announcing(k) /\ <<t, k>> \notin lost
  <2>0. Told(k)
    BY <1>2, <1>5 DEF Awaited
  <2>1. CASE Has(queue, k)
    <3>1. PICK i \in DOMAIN queue : queue[i].k = k /\ queue[i].n = latest[k]
      BY <2>0, <2>1 DEF Told, LastOf
    <3>2. <<queue[i], Targets>> \in Pending
      BY DEF Pending
    <3> QED
      BY <1>3, <3>1, <3>2
  <2>2. CASE ~Has(queue, k)
    <3>1. PICK w \in Workers : Carries(w, k) /\ worker[w].t <= t
      BY <1>5, <2>2 DEF Owed
    <3>2. worker[w].ev.k = k /\ worker[w].ev.n = latest[k] /\ worker[w] # Idle
      BY <2>0, <2>2, <3>1 DEF Told, CarriedLatest, Carries
    <3>3. worker[w] \in Jobs
      BY <1>0, <3>2 DEF TypeOK
    <3>4. t \in worker[w].t..NumTargets
      BY <3>1, <3>3, JobFields DEF Targets
    <3>5. <<worker[w].ev, worker[w].t..NumTargets>> \in Pending
      BY <3>2 DEF Pending
    <3> QED
      BY <1>3, <3>2, <3>4, <3>5
  <2> QED
    BY <2>1, <2>2
<1> QED
  BY <1>1, <1>4, <1>5

LEMMA RestartConverges ==
    ASSUME ConvergingInv, Restart
    PROVE  AllInLine' /\ AllArrive'
<1>0. AllArrive
  BY DEF ConvergingInv
<1>1. /\ UNCHANGED <<source, untold, target, raced>> /\ queue' = <<>>
      /\ lost \subseteq lost'
      /\ \A p \in Procs : req'[p] = NoRequest
      /\ \A w \in Workers : worker'[w] = Idle
  BY DEF Restart, site
<1>2. \A p \in Procs : DOMAIN req'[p].news = {}
  BY <1>1 DEF NoRequest
<1>3. \A k \in Keys : \A w \in Workers : ~Carries(w, k)'
  BY <1>1 DEF Carries, Idle
<1>4. \A k \in Keys : ~Has(queue', k)
  BY <1>1 DEF Has
<1>5. AllInLine'
  <2> SUFFICES ASSUME NEW k \in Keys
               PROVE  OneNews(k)' /\ NewsLatest(k)' /\ OneCarrier(k)' /\ Told(k)'
    BY DEF AllInLine, InLine
  <2>1. OneNews(k)' /\ NewsLatest(k)'
    BY <1>2 DEF OneNews, NewsLatest
  <2>2. OneCarrier(k)' /\ CarriedLatest(k)'
    BY <1>3 DEF OneCarrier, CarriedLatest
  <2> QED
    BY <1>4, <2>1, <2>2 DEF Told
<1>6. AllArrive'
  <2> SUFFICES ASSUME NEW t \in Targets, NEW k \in Keys,
                      k \notin untold', k \notin raced', <<t, k>> \notin lost'
               PROVE  Replicated(t, k)'
    BY DEF AllArrive, Arrives
  <2>1. ~Owed(t, k) /\ <<t, k>> \notin lost
    BY <1>1, RestartLoses
  <2> QED
    BY <1>0, <1>1, <2>1 DEF AllArrive, Arrives, Replicated
<1> QED
  BY <1>5, <1>6

LEMMA LateKeysKeep ==
    ASSUME LateKeys, [Next]_vars
    PROVE  LateKeys'
<1>1. late' \subseteq late \/ \E w \in Workers : CallFails(w)
  <2>1. ASSUME NEW p \in Procs, NEW k \in Keys, NEW s \in Sizes, NEW l \in Sizes, PutObject(p, k, s, l) PROVE late' = late
    BY <2>1 DEF PutObject
  <2>2. ASSUME NEW p \in Procs, NEW ks \in Lists, BeginDelete(p, ks) PROVE late' = late
    BY <2>2 DEF BeginDelete
  <2>3. ASSUME NEW p \in Procs, RequestStep(p) PROVE late' = late
    BY <2>3 DEF RequestStep, Enqueue, DeleteNext, DeleteRefused
  <2>4. ASSUME NEW k \in Keys, SilentChange(k) PROVE late' = late
    BY <2>4 DEF SilentChange
  <2>5. ASSUME NEW w \in Workers, TakeEvent(w) PROVE late' = late
    BY <2>5 DEF TakeEvent
  <2>6. ASSUME NEW w \in Workers, WorkerStep(w) PROVE late' = late \/ CallFails(w)
    BY <2>6 DEF WorkerStep, ReadSource, Call, CallMisfits, Wait
  <2>7. ASSUME NEW c \in late, LandLate(c) PROVE late' \subseteq late
    BY <2>7 DEF LandLate
  <2>8. Restart => late' = late
    BY DEF Restart
  <2>9. UNCHANGED vars => late' = late
    BY DEF vars
  <2> QED
    BY <2>1, <2>2, <2>3, <2>4, <2>5, <2>6, <2>7, <2>8, <2>9 DEF Next
<1>2. CASE late' \subseteq late
  BY <1>2 DEF LateKeys
<1>3. ASSUME NEW w \in Workers, CallFails(w) PROVE LateKeys'
  BY <1>3 DEF CallFails, LateKeys
<1> QED
  BY <1>1, <1>2, <1>3

LEMMA InitConverges == Init => ConvergingInv
<1> SUFFICES ASSUME Init PROVE ConvergingInv
  OBVIOUS
<1>1. PeaceInv
  BY InitPeace
<1>2. LateKeys
  BY DEF Init, LateKeys
<1>3. \A k \in Keys : ~Announcing(k) /\ ~Has(queue, k) /\ \A w \in Workers : ~Carries(w, k)
  BY DEF Init, Announcing, NoRequest, Has, Carries
<1>4. AllInLine
  <2>1. \A k \in Keys : OneNews(k) /\ NewsLatest(k)
    BY DEF Init, NoRequest, OneNews, NewsLatest
  <2>2. \A k \in Keys : OneCarrier(k) /\ CarriedLatest(k)
    BY <1>3 DEF OneCarrier, CarriedLatest
  <2> QED
    BY <1>3, <2>1, <2>2 DEF AllInLine, InLine, Told
<1>5. AllArrive
  BY DEF Init, AllArrive, Arrives, Replicated
<1> QED
  BY <1>1, <1>2, <1>4, <1>5 DEF ConvergingInv

LEMMA StutterConverges ==
    ASSUME ConvergingInv, UNCHANGED vars
    PROVE  AllInLine' /\ AllArrive'
<1>1. TypeOK /\ AllInLine /\ AllArrive /\ TypeOK'
  BY DEF ConvergingInv, PeaceInv, vars, history, TypeOK
<1>2. UNCHANGED <<req, queue, worker, source, target, latest, untold, raced, lost>>
  BY DEF vars, history
<1> QED
  BY <1>1, <1>2, StillConverges

LEMMA StepConverges == ConvergingInv /\ [Next]_vars => ConvergingInv'
<1> SUFFICES ASSUME ConvergingInv, [Next]_vars PROVE ConvergingInv'
  OBVIOUS
<1>0. PeaceInv' /\ LateKeys' /\ TypeOK'
  BY StepPeace, LateKeysKeep DEF ConvergingInv, PeaceInv
<1> SUFFICES AllInLine' /\ AllArrive'
  BY <1>0 DEF ConvergingInv
<1>1. ASSUME NEW p \in Procs, NEW k \in Keys, NEW s \in Sizes, NEW l \in Sizes, PutObject(p, k, s, l)
      PROVE  AllInLine' /\ AllArrive'
  BY <1>0, <1>1, PutObjectConverges
<1>2. ASSUME NEW p \in Procs, NEW ks \in Lists, BeginDelete(p, ks) PROVE AllInLine' /\ AllArrive'
  BY <1>0, <1>2, BeginDeleteConverges
<1>3. ASSUME NEW p \in Procs, RequestStep(p) PROVE AllInLine' /\ AllArrive'
  BY <1>0, <1>3, EnqueueConverges, DeleteNextConverges, DeleteRefusedConverges DEF RequestStep
<1>4. ASSUME NEW k \in Keys, SilentChange(k) PROVE AllInLine' /\ AllArrive'
  BY <1>0, <1>4, SilentChangeConverges
<1>5. ASSUME NEW w \in Workers, TakeEvent(w) PROVE AllInLine' /\ AllArrive'
  BY <1>0, <1>5, TakeEventConverges
<1>6. ASSUME NEW w \in Workers, WorkerStep(w) PROVE AllInLine' /\ AllArrive'
  BY <1>6, ReadSourceConverges, CallConverges, CallMisfitsConverges, CallFailsConverges,
     WaitConverges DEF WorkerStep
<1>7. ASSUME NEW c \in late, LandLate(c) PROVE AllInLine' /\ AllArrive'
  BY <1>0, <1>7, LandLateConverges
<1>8. CASE Restart
  BY <1>8, RestartConverges
<1>9. CASE UNCHANGED vars
  BY <1>9, StutterConverges
<1> QED
  BY <1>1, <1>2, <1>3, <1>4, <1>5, <1>6, <1>7, <1>8, <1>9 DEF Next

\* When nothing is under way, nothing is owed.
LEMMA QuietOwesNothing ==
    ASSUME Settled, NEW t \in Targets, NEW k \in Keys
    PROVE  ~Owed(t, k)
<1>1. ~Announcing(k)
  BY DEF Settled, NoRequest, Announcing
<1>2. ~Has(queue, k)
  BY DEF Settled, Has
<1>3. \A w \in Workers : ~Carries(w, k)
  BY DEF Settled, Carries
<1> QED
  BY <1>1, <1>2, <1>3 DEF Owed

\* When all is quiet, every target holds what the source holds of each key
\* whose last change was announced, whose last event was not lost and whose
\* events were never on their way at two workers or in two requests at once:
\* retries, cut bodies, overwritten objects and late answers do not keep a
\* target from it (replicateWithRetry, replicateToTarget, the channel of Enqueue).
THEOREM ReplicationConverges == Spec => []QuietConverged
<1>1. ConvergingInv => QuietConverged
  BY QuietOwesNothing DEF ConvergingInv, AllArrive, Arrives, QuietConverged, Quiet
<1> QED
  BY <1>1, InitConverges, StepConverges, PTL DEF Spec
=============================================================================
