---------------------------- MODULE Replication ----------------------------
(***************************************************************************)
(* Replication to other servers: internal/replication/service.go, fed by   *)
(* the object handlers of internal/handler/object.go.                      *)
(*                                                                         *)
(* A handler commits its change first and enqueues an event afterwards.    *)
(* The queue is a Go channel that drops when full; workers take events and *)
(* bring each to one target after the other, with up to three tries.  A    *)
(* put sends what the key holds when the worker reads it, under the length *)
(* that the event carries.  Nothing of this outlives the process.          *)
(***************************************************************************)
EXTENDS Naturals, Sequences, FiniteSets

CONSTANTS Keys,
          Procs,       \* request slots of the source server
          Workers,     \* replication workers
          NumTargets,  \* replication targets, in the order of the configuration
          QueueSize,
          Sizes,       \* lengths of bodies
          None,        \* "no object"
          MaxChanges,  \* bound on the changes made at the source
          MaxLate      \* bound on the calls under way that nobody waits for

ASSUME TargetsAssumption == NumTargets \in Nat \ {0}
ASSUME QueueAssumption == QueueSize \in Nat \ {0}
ASSUME SizesAssumption == Sizes \subseteq Nat
ASSUME BoundsAssumption == MaxChanges \in Nat /\ MaxLate \in Nat

Targets == 1..NumTargets
MaxTries == 3

VARIABLES source,   \* source[k]: what GET of k finds, [n, size], or None
          req,      \* req[p]: keys the request in p has yet to delete, and its events to enqueue
          queue,    \* the channel
          worker,   \* worker[w]: the event it has, the target, the try and what it read
          target,   \* target[t][k]: the object at target t, [n, whole], or None
          late,     \* calls whose answer the client no longer waits for
          changes,  \* number of changes so far; change n writes content n
          \* History:
          latest,   \* latest[k]: the last change of k that has an event
          untold,   \* keys whose last change had no event, or a misleading one:
                    \* a delete that leaves an object, a put of another length
          raced,    \* keys of which two events were on their way at once
          lost,     \* <<t, k>> when the last event of k will not reach t
          calm,     \* no event was dropped and the server never stopped
          failures  \* failed calls, counted up to MaxTries

site == <<source, changes, latest, untold>>
history == <<raced, lost, calm, failures>>
vars == <<source, req, queue, worker, target, late, changes, latest, untold, history>>

ASSUME NoneAssumption == None \notin [n : 1..MaxChanges, size : Sizes]

Idle == [at |-> "idle"]
NoRequest == [todo |-> <<>>, news |-> <<>>]

Objects == [n : 1..MaxChanges, size : Sizes]
Events == [type : {"put"}, k : Keys, n : 1..MaxChanges, size : Sizes]
          \cup [type : {"delete"}, k : Keys, n : 1..MaxChanges]

Init ==
    /\ source = [k \in Keys |-> None]
    /\ req = [p \in Procs |-> NoRequest]
    /\ queue = <<>>
    /\ worker = [w \in Workers |-> Idle]
    /\ target = [t \in Targets |-> [k \in Keys |-> None]]
    /\ late = {}
    /\ changes = 0
    /\ latest = [k \in Keys |-> 0]
    /\ untold = {} /\ raced = {} /\ lost = {}
    /\ calm = TRUE
    /\ failures = 0

-----------------------------------------------------------------------------
(***************************************************************************)
(* The source: changes and their announcement.                             *)
(***************************************************************************)
Announcing(k) == \E p \in Procs : \E i \in DOMAIN req[p].news : req[p].news[i].k = k
Queued(k) == \E i \in DOMAIN queue : queue[i].k = k
Carried(k) == \E w \in Workers : worker[w] # Idle /\ worker[w].ev.k = k
OnTheWay(k) == Announcing(k) \/ Queued(k) \/ Carried(k) \/ \E c \in late : c.k = k

\* The change n of k has been made and its event is yet to be enqueued.
Announce(k, n) ==
    /\ latest' = [latest EXCEPT ![k] = n]
    /\ lost' = {tk \in lost : tk[2] # k}
    /\ raced' = IF Announcing(k) THEN raced \cup {k}
                ELSE IF OnTheWay(k) THEN raced ELSE raced \ {k}

\* The event gives the Content-Length, l, and the backend stores the s bytes of
\* the body.  A body in aws-chunked encoding is longer than what it holds.
PutObject(p, k, s, l) ==
    LET n == changes + 1 IN
    /\ req[p] = NoRequest
    /\ s <= l
    /\ changes < MaxChanges
    /\ changes' = n
    /\ source' = [source EXCEPT ![k] = [n |-> n, size |-> s]]
    /\ untold' = IF l = s THEN untold \ {k} ELSE untold \cup {k}
    /\ Announce(k, n)
    /\ req' = [req EXCEPT ![p].news = <<[type |-> "put", k |-> k, n |-> n, size |-> l]>>]
    /\ UNCHANGED <<queue, worker, target, late, calm, failures>>

\* DeleteObject is a list of one.  The changes take their numbers here.
BeginDelete(p, ks) ==
    /\ req[p] = NoRequest
    /\ changes + Len(ks) <= MaxChanges
    /\ changes' = changes + Len(ks)
    /\ req' = [req EXCEPT ![p].todo =
          [i \in DOMAIN ks |-> [type |-> "delete", k |-> ks[i], n |-> changes + i]]]
    /\ UNCHANGED <<source, queue, worker, target, late, latest, untold, history>>

\* Without a version id the key is gone for readers.  With one, the event is
\* the same although the object may stay, or an older one come to light.
DeleteNext(p) ==
    LET ev == Head(req[p].todo)
        k == ev.k
    IN  /\ req[p].todo # <<>>
        /\ \/ source' = [source EXCEPT ![k] = None] /\ untold' = untold \ {k}
           \/ /\ source[k] # None
              /\ \/ UNCHANGED source
                 \/ \E s \in Sizes : source' = [source EXCEPT ![k] = [n |-> ev.n, size |-> s]]
              /\ untold' = untold \cup {k}
        /\ Announce(k, ev.n)
        /\ req' = [req EXCEPT ![p] = [todo |-> Tail(@.todo), news |-> Append(@.news, ev)]]
        /\ UNCHANGED <<queue, worker, target, late, changes, calm, failures>>

\* A key that is locked, or that fails, has no event.
DeleteRefused(p) ==
    /\ req[p].todo # <<>>
    /\ req' = [req EXCEPT ![p].todo = Tail(@)]
    /\ UNCHANGED <<site, queue, worker, target, late, history>>

\* Copies, form uploads, completed multipart uploads, expiration and the
\* console change objects without an event.
SilentChange(k) ==
    /\ changes < MaxChanges
    /\ changes' = changes + 1
    /\ \/ source' = [source EXCEPT ![k] = None]
       \/ \E s \in Sizes : source' = [source EXCEPT ![k] = [n |-> changes + 1, size |-> s]]
    /\ untold' = untold \cup {k}
    /\ UNCHANGED <<req, queue, worker, target, late, latest, history>>

\* The pairs that lose the last event of a key with event ev.
LostWith(ev, ts) == IF ev.n = latest[ev.k] THEN ts \X {ev.k} ELSE {}

\* select with a default: a full channel drops the event.
Enqueue(p) ==
    LET ev == Head(req[p].news) IN
    /\ req[p].todo = <<>> /\ req[p].news # <<>>
    /\ req' = [req EXCEPT ![p].news = Tail(@)]
    /\ IF Len(queue) < QueueSize
       THEN queue' = Append(queue, ev) /\ UNCHANGED <<lost, calm>>
       ELSE /\ lost' = lost \cup LostWith(ev, Targets)
            /\ calm' = FALSE
            /\ UNCHANGED queue
    /\ UNCHANGED <<site, worker, target, late, raced, failures>>

-----------------------------------------------------------------------------
(***************************************************************************)
(* The workers.                                                            *)
(***************************************************************************)
\* Where an attempt begins: a put reads the source, a delete just calls.
Attempt(ev, t, try) ==
    [at |-> IF ev.type = "put" THEN "read" ELSE "call", ev |-> ev, t |-> t, try |-> try, body |-> None]

TakeEvent(w) ==
    /\ worker[w] = Idle
    /\ queue # <<>>
    /\ raced' = IF Carried(Head(queue).k) THEN raced \cup {Head(queue).k} ELSE raced
    /\ worker' = [worker EXCEPT ![w] = Attempt(Head(queue), 1, 1)]
    /\ queue' = Tail(queue)
    /\ UNCHANGED <<site, req, target, late, lost, calm, failures>>

\* processEvent: done or given up, the worker goes on to the next target.
NextTarget(w) ==
    LET r == worker[w] IN
    worker' = [worker EXCEPT ![w] =
        IF r.t = NumTargets THEN Idle ELSE Attempt(r.ev, r.t + 1, 1)]

\* On with the same event, target and try.
Goto(w, at, body) ==
    worker' = [worker EXCEPT ![w] =
        [at |-> at, ev |-> @.ev, t |-> @.t, try |-> @.try, body |-> body]]

FailAttempt(w) == Goto(w, "wait", None)

\* The goroutine that feeds the pipe; without an object the call fails.
ReadSource(w) ==
    LET k == worker[w].ev.k IN
    /\ worker[w].at = "read"
    /\ IF source[k] = None
       THEN FailAttempt(w)
       ELSE Goto(w, "call", source[k])
    /\ UNCHANGED <<site, req, queue, target, late, history>>

\* The body matches the Content-Length that the event gave.
Fits(r) == r.ev.type = "put" => r.body.size = r.ev.size
Sent(r) == IF r.ev.type = "put" THEN [n |-> r.body.n, whole |-> Fits(r)] ELSE None

Call(w) ==
    LET r == worker[w] IN
    /\ r.at = "call" /\ Fits(r)
    /\ target' = [target EXCEPT ![r.t][r.ev.k] = Sent(r)]
    /\ NextTarget(w)
    /\ UNCHANGED <<site, req, queue, late, history>>

\* A longer body is an error to the client, though the target may have stored
\* what fits; the target stores nothing of a shorter one.
CallMisfits(w) ==
    LET r == worker[w] IN
    /\ r.at = "call" /\ ~Fits(r)
    /\ \/ UNCHANGED target
       \/ r.body.size > r.ev.size /\ target' = [target EXCEPT ![r.t][r.ev.k] = Sent(r)]
    /\ FailAttempt(w)
    /\ UNCHANGED <<site, req, queue, late, history>>

\* The target refuses, cannot be reached, or does not answer in 30 seconds.
\* In the last case it may still carry the call out.
CallFails(w) ==
    LET r == worker[w] IN
    /\ r.at = "call" /\ Fits(r)
    /\ failures' = IF failures < MaxTries THEN failures + 1 ELSE failures
    /\ \/ UNCHANGED late
       \/ /\ Cardinality(late) < MaxLate
          /\ late' = late \cup {[t |-> r.t, k |-> r.ev.k, ev |-> r.ev, obj |-> Sent(r)]}
    /\ FailAttempt(w)
    /\ UNCHANGED <<site, req, queue, target, raced, lost, calm>>

\* Slip: the tries are counted from 1 to one more than the limit.
WaitOnceMore(w) ==
    LET r == worker[w] IN
    /\ r.at = "wait"
    /\ IF r.try <= MaxTries
       THEN /\ worker' = [worker EXCEPT ![w] = Attempt(r.ev, r.t, r.try + 1)]
            /\ UNCHANGED lost
       ELSE /\ NextTarget(w)
            /\ lost' = lost \cup LostWith(r.ev, {r.t})
    /\ UNCHANGED <<site, req, queue, target, late, raced, calm, failures>>

\* Slip: the last try is not made.
WaitOnceLess(w) ==
    LET r == worker[w] IN
    /\ r.at = "wait"
    /\ IF r.try + 1 < MaxTries
       THEN /\ worker' = [worker EXCEPT ![w] = Attempt(r.ev, r.t, r.try + 1)]
            /\ UNCHANGED lost
       ELSE /\ NextTarget(w)
            /\ lost' = lost \cup LostWith(r.ev, {r.t})
    /\ UNCHANGED <<site, req, queue, target, late, raced, calm, failures>>

\* Slip: a target that fails ends the event for those after it.
WaitReturning(w) ==
    LET r == worker[w] IN
    /\ r.at = "wait"
    /\ IF r.try < MaxTries
       THEN /\ worker' = [worker EXCEPT ![w] = Attempt(r.ev, r.t, r.try + 1)]
            /\ UNCHANGED lost
       ELSE /\ worker' = [worker EXCEPT ![w] = Idle]
            /\ lost' = lost \cup LostWith(r.ev, {r.t})
    /\ UNCHANGED <<site, req, queue, target, late, raced, calm, failures>>

\* Slip: the limit on tries is left out.
WaitForEver(w) ==
    LET r == worker[w] IN
    /\ r.at = "wait"
    /\ worker' = [worker EXCEPT ![w] = Attempt(r.ev, r.t, r.try)]
    /\ UNCHANGED <<site, req, queue, target, late, lost, raced, calm, failures>>

\* The end of the wait, with or without another try.
Wait(w) ==
    LET r == worker[w] IN
    /\ r.at = "wait"
    /\ IF r.try < MaxTries
       THEN /\ worker' = [worker EXCEPT ![w] = Attempt(r.ev, r.t, r.try + 1)]
            /\ UNCHANGED lost
       ELSE /\ NextTarget(w)
            /\ lost' = lost \cup LostWith(r.ev, {r.t})
    /\ UNCHANGED <<site, req, queue, target, late, raced, calm, failures>>

WorkerStep(w) ==
    ReadSource(w) \/ Call(w) \/ CallMisfits(w) \/ CallFails(w) \/ Wait(w)

\* A target carries out a call that the client has given up.  Unless the same
\* event is still being tried there, it may come after later news.
LandLate(c) ==
    /\ c \in late
    /\ late' = late \ {c}
    /\ target' = [target EXCEPT ![c.t][c.k] = c.obj]
    /\ raced' = IF \E w \in Workers : worker[w] # Idle /\ worker[w].ev = c.ev /\ worker[w].t = c.t
                THEN raced ELSE raced \cup {c.k}
    /\ UNCHANGED <<site, req, queue, worker, lost, calm, failures>>

\* What is still to be told, and to which targets.
Pending ==
    (UNION {{<<req[p].news[i], Targets>> : i \in DOMAIN req[p].news} : p \in Procs})
    \cup {<<queue[i], Targets>> : i \in DOMAIN queue}
    \cup {<<worker[w].ev, worker[w].t..NumTargets>> : w \in {v \in Workers : worker[v] # Idle}}

\* The process ends and starts again.
Restart ==
    /\ req' = [p \in Procs |-> NoRequest]
    /\ queue' = <<>>
    /\ worker' = [w \in Workers |-> Idle]
    /\ calm' = FALSE
    /\ lost' = lost \cup UNION {LostWith(e[1], e[2]) : e \in Pending}
    /\ UNCHANGED <<site, target, late, raced, failures>>

\* The lists of keys that a client asks to delete.
Lists == {<<k>> : k \in Keys} \cup {ks \in Keys \X Keys : ks[1] # ks[2]}

RequestStep(p) == Enqueue(p) \/ DeleteNext(p) \/ DeleteRefused(p)

Next ==
    \/ \E p \in Procs :
          \/ \E k \in Keys, s \in Sizes, l \in Sizes : PutObject(p, k, s, l)
          \/ \E ks \in Lists : BeginDelete(p, ks)
          \/ RequestStep(p)
    \/ \E k \in Keys : SilentChange(k)
    \/ \E w \in Workers : TakeEvent(w) \/ WorkerStep(w)
    \/ \E c \in late : LandLate(c)
    \/ Restart

\* Goroutines run, and every call and wait of a worker has a time limit.
\* Nothing says that a call ever succeeds.
Fairness ==
    /\ \A p \in Procs : WF_vars(RequestStep(p))
    /\ \A w \in Workers : WF_vars(TakeEvent(w)) /\ WF_vars(WorkerStep(w))

Spec == Init /\ [][Next]_vars /\ Fairness

-----------------------------------------------------------------------------
Requests == [todo : Seq(Events), news : Seq(Events)]

\* Only a put reads the source, and it has read an object when it calls.
Jobs == {r \in [at : {"read", "call", "wait"}, ev : Events, t : Targets,
                try : 1..MaxTries, body : Objects \cup {None}] :
            /\ r.at = "read" => r.ev.type = "put"
            /\ r.at = "call" /\ r.ev.type = "put" => r.body \in Objects}

Copies == [n : 1..MaxChanges, whole : BOOLEAN] \cup {None}

TypeOK ==
    /\ source \in [Keys -> Objects \cup {None}]
    /\ req \in [Procs -> Requests]
    /\ queue \in Seq(Events) /\ Len(queue) <= QueueSize
    /\ worker \in [Workers -> {Idle} \cup Jobs]
    /\ target \in [Targets -> [Keys -> Copies]]
    /\ late \subseteq [t : Targets, k : Keys, ev : Events, obj : Copies]
    /\ changes \in 0..MaxChanges
    /\ latest \in [Keys -> 0..MaxChanges]
    /\ untold \subseteq Keys /\ raced \subseteq Keys
    /\ lost \subseteq Targets \X Keys
    /\ calm \in BOOLEAN
    /\ failures \in 0..MaxTries

Settled ==
    /\ \A p \in Procs : req[p] = NoRequest
    /\ queue = <<>>
    /\ \A w \in Workers : worker[w] = Idle

Quiet == Settled /\ late = {}

Replicated(t, k) ==
    target[t][k] = IF source[k] = None THEN None ELSE [n |-> source[k].n, whole |-> TRUE]

\* When all is quiet a target holds what the source holds, whole, for every
\* key whose last change was announced as it was, whose last event was not
\* lost, and whose events came one after the other: whatever was retried, cut,
\* overwritten meanwhile or told twice.
QuietConverged ==
    Quiet => \A t \in Targets, k \in Keys :
                k \notin untold \cup raced /\ <<t, k>> \notin lost => Replicated(t, k)

\* It takes a full queue, a restart or MaxTries failed calls to lose the last
\* event of a key whose last change was announced as it was; an object that
\* changes while it is sent does not do it.  An object that came in aws-chunked
\* encoding was not: none of the tries to send it fits.
NothingLostInPeace ==
    calm /\ failures < MaxTries => \A tk \in lost : tk[2] \in untold

\* The work ends, though calls may fail for ever: no target holds up the
\* workers.
Settles == <>[]Settled

\* What the manual test expects: the object deleted at the source is deleted at
\* the target in the end, provided that its event gets there.
DeletesFollow ==
    Quiet => \A t \in Targets, k \in Keys :
                source[k] = None /\ k \notin untold /\ <<t, k>> \notin lost => target[t][k] = None
=============================================================================
