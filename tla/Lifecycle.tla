----------------------------- MODULE Lifecycle -----------------------------
(***************************************************************************)
(* The lifecycle worker (internal/server/lifecycle.go) over the tables of  *)
(* VersionIndex, next to clients that write and delete.  The worker lists  *)
(* a page of versions in one transaction and deletes what has expired in   *)
(* others, one at a time; then it does the same with multipart uploads.    *)
(* A deletion of the backend is one step here; ObjectBackend has its       *)
(* transactions and files.                                                 *)
(***************************************************************************)
EXTENDS VersionIndex, Integers, Sequences, FiniteSets

CONSTANTS Folder,       \* the common prefix of a key, or 0 (see Pages)
          Configs,      \* the lifecycle configurations clients put: sequences of rules
          UploadIds,
          PageVersions, \* versions the worker asks for at a time
          PageUploads,  \* uploads the worker asks for at a time
          Locks,        \* the object-lock flags of the buckets clients create
          Switches      \* the changes of versioning status they make, <<old, new>>

INSTANCE Pages WITH Names <- Keys, NoVid <- ""

\* What matters here of a record: a delete marker, an object, or an object
\* under a legal hold or a retention date that does not pass.
ASSUME PayloadAssumption == Payloads = {"object", "held", "marker"}

Rules == [enabled : BOOLEAN, prefix : Keys \cup {Empty}, days : Int, abortDays : Int]

ASSUME RequestsAssumption ==
    /\ Configs \subseteq Seq(Rules)
    /\ Locks \subseteq BOOLEAN
    /\ Switches \subseteq Statuses \X Statuses

VARIABLES issued,       \* version ids given out so far
          config,       \* config[b]: the lifecycle configuration, or None
          uploads,      \* multipart uploads, [b, key, id, initiated]
          worker        \* where the worker is

index == <<buckets, objects, versions, clock>>
allVars == <<buckets, objects, versions, clock, issued, config, uploads, worker>>

Idle == [at |-> "idle"]

LifecycleInit ==
    /\ Init
    /\ issued = {}
    /\ config = [b \in Buckets |-> None]
    /\ uploads = {}
    /\ worker = Idle

-----------------------------------------------------------------------------
(***************************************************************************)
(* The backend.                                                            *)
(***************************************************************************)
\* The id of a new version: a new uuid, "null", or none.
NewVid(status, vid) ==
    CASE status = "Enabled" -> vid \in Uuids \ issued
      [] status = "Suspended" -> vid = "null"
      [] OTHER -> vid = ""

Stamped(vid, body) == [vid |-> vid, latest |-> TRUE, modified |-> clock, body |-> body]

\* Slip: the id is not taken out of circulation.
WriteUnissued(b, k, body) ==
    \E vid \in Vids :
        /\ NewVid(buckets[b], vid)
        /\ UNCHANGED issued
        /\ PutObject(b, k, Stamped(vid, body))

Write(b, k, body) ==
    \E vid \in Vids :
        /\ NewVid(buckets[b], vid)
        /\ issued' = issued \cup ({vid} \cap Uuids)
        /\ PutObject(b, k, Stamped(vid, body))

Held(b, k, vid) ==
    LET m == GetObject(b, k, vid) IN m # None /\ m.body = "held"

\* DeleteObject of the backend.  Without a version id it writes a delete marker
\* if the bucket has ever had versioning, and else removes all there is.
RemoveObject(b, k, vid) ==
    IF vid = "" /\ buckets[b] \in {"Enabled", "Suspended"} THEN Write(b, k, "marker")
    ELSE /\ ~Held(b, k, vid)
         /\ IF vid = "" THEN DeleteObject(b, k) ELSE DeleteVersion(b, k, vid)
         /\ UNCHANGED issued

-----------------------------------------------------------------------------
(***************************************************************************)
(* Clients.                                                                *)
(***************************************************************************)
PutBucketLifecycle(b, c) ==
    /\ config' = [config EXCEPT ![b] = c]
    /\ UNCHANGED <<index, issued, uploads, worker>>

CreateMultipartUpload(b, k, id) ==
    /\ Exists(b)
    /\ \A u \in uploads : u.id # id
    /\ uploads' = uploads \cup {[b |-> b, key |-> k, id |-> id, initiated |-> clock]}
    /\ UNCHANGED <<index, issued, config, worker>>

\* A completion or an abortion by a client.
EndMultipartUpload(u) ==
    /\ uploads' = uploads \ {u}
    /\ UNCHANGED <<index, issued, config, worker>>

Tick ==
    /\ clock < MaxClock
    /\ clock' = clock + 1
    /\ UNCHANGED <<buckets, objects, versions, issued, config, uploads, worker>>

ClientStep ==
    \E b \in Buckets :
        \/ /\ \/ \E lock \in Locks : CreateBucket(b, lock)
              \/ DeleteBucket(b)
              \/ \E s \in Switches : buckets[b] = s[1] /\ UpdateBucket(b, s[2])
           /\ UNCHANGED <<issued, config, uploads, worker>>
        \/ \E k \in Keys :
            /\ Exists(b)
            /\ \/ \E body \in {"object", "held"} : Write(b, k, body)
               \/ \E vid \in {""} \cup VidsOf(versions[b][k]) : RemoveObject(b, k, vid)
            /\ UNCHANGED <<config, uploads, worker>>
        \/ \E c \in Configs \cup {None} : config[b] # c /\ PutBucketLifecycle(b, c)
        \/ \E k \in Keys, id \in UploadIds : CreateMultipartUpload(b, k, id)
        \/ \E u \in uploads : u.b = b /\ EndMultipartUpload(u)

-----------------------------------------------------------------------------
(***************************************************************************)
(* The worker.                                                             *)
(***************************************************************************)
Goto(w) == worker' = w /\ UNCHANGED <<index, issued, config, uploads>>

\* Where it goes on with the rule it is at, and how far the scan for it has got.
In(at, scan) ==
    [at |-> at, left |-> worker.left, b |-> worker.b, rules |-> worker.rules, scan |-> scan]

\* Once at startup and then every hour.
RunLifecycleCleanup ==
    /\ worker.at = "idle"
    /\ Goto([at |-> "bucket", left |-> Live])

\* A bucket without a configuration, be it the one of a bucket that is gone by
\* now, is passed over.
NextBucket ==
    /\ worker.at = "bucket"
    /\ \/ worker.left = {} /\ Goto(Idle)
       \/ \E b \in worker.left :
            LET left == worker.left \ {b}
            IN  IF config[b] = None THEN Goto([at |-> "bucket", left |-> left])
                ELSE Goto([at |-> "rule", left |-> left, b |-> b, rules |-> config[b]])

\* A rule may ask for expiration, for abortion or for both, in this order.
\* Each cutoff is set once, before the first page.
Rule == Head(worker.rules)
StartExpiration == In("list", [cutoff |-> clock - Rule.days, key |-> Empty, vid |-> ""])
StartAbortion == In("uploads", [cutoff |-> clock - Rule.abortDays])
LeaveRule == [at |-> "rule", left |-> worker.left, b |-> worker.b, rules |-> Tail(worker.rules)]
AfterExpiration == IF Rule.abortDays > 0 THEN StartAbortion ELSE LeaveRule

NextRule ==
    /\ worker.at = "rule"
    /\ Goto(IF worker.rules = <<>> THEN [at |-> "bucket", left |-> worker.left]
            ELSE IF ~Rule.enabled THEN LeaveRule
            ELSE IF Rule.days > 0 THEN StartExpiration
            ELSE AfterExpiration)

\* Slip: one tick too early.
ExpiredEarly(stamp, cutoff) == stamp <= cutoff

Expired(stamp, cutoff) == stamp < cutoff

\* A listing that fails ends the expiration of this rule.
ListPage ==
    /\ worker.at = "list"
    /\ IF ~Exists(worker.b) THEN Goto(AfterExpiration)
       ELSE \E page \in {ListObjectVersions(versions[worker.b], Rule.prefix, FALSE,
                                            worker.scan.key, worker.scan.vid, PageVersions)} :
            Goto(In("expire",
                    [cutoff |-> worker.scan.cutoff, key |-> page.next, vid |-> page.nextVid,
                     rows |-> {r \in page.rows : Expired(r.modified, worker.scan.cutoff)}]))

\* One deletion.  The code takes the objects of a page before its delete
\* markers; here they come in any order.  An error is logged and nothing else.
Expire(row) ==
    /\ worker.at = "expire" /\ row \in worker.scan.rows
    /\ IF ~Exists(worker.b) \/ Held(worker.b, row.key, row.vid) THEN UNCHANGED <<index, issued>>
       ELSE RemoveObject(worker.b, row.key, row.vid)
    /\ worker' = In("expire", [worker.scan EXCEPT !.rows = @ \ {row}])
    /\ UNCHANGED <<config, uploads>>

\* Slip: the worker forgets the markers.
PageDoneForgets ==
    /\ worker.at = "expire" /\ worker.scan.rows = {}
    /\ Goto(IF worker.scan.key = Empty THEN AfterExpiration
            ELSE In("list", [cutoff |-> worker.scan.cutoff, key |-> Empty, vid |-> ""]))

PageDone ==
    /\ worker.at = "expire" /\ worker.scan.rows = {}
    /\ Goto(IF worker.scan.key = Empty THEN AfterExpiration
            ELSE In("list", [cutoff |-> worker.scan.cutoff, key |-> worker.scan.key,
                             vid |-> worker.scan.vid]))

\* Uploads that are old enough and, as the listing does not filter them, have
\* the prefix of the rule.
Abortable(u) == Expired(u.initiated, worker.scan.cutoff) /\ u.key \in Under(Rule.prefix)

Listable(b) == {u \in uploads : u.b = b}

ListUploads ==
    /\ worker.at = "uploads"
    /\ IF ~Exists(worker.b) THEN Goto(LeaveRule)
       ELSE \E page \in {ListMultipartUploads(Listable(worker.b), Rule.prefix, PageUploads)} :
            Goto(In("abort", [cutoff |-> worker.scan.cutoff, truncated |-> page.truncated,
                              rows |-> {u \in page.uploads : Abortable(u)}]))

\* The upload may be gone: an error, which is logged.
AbortUpload(u) ==
    /\ worker.at = "abort" /\ u \in worker.scan.rows
    /\ uploads' = uploads \ {u}
    /\ worker' = In("abort", [worker.scan EXCEPT !.rows = @ \ {u}])
    /\ UNCHANGED <<index, issued, config>>

\* The markers are set for the next page, but the listing does not look at
\* them: it starts from the beginning again.
UploadsDone ==
    /\ worker.at = "abort" /\ worker.scan.rows = {}
    /\ Goto(IF worker.scan.truncated THEN In("uploads", [cutoff |-> worker.scan.cutoff])
            ELSE LeaveRule)

WorkerStep ==
    \/ RunLifecycleCleanup \/ NextBucket \/ NextRule
    \/ ListPage \/ PageDone
    \/ worker.at = "expire" /\ \E row \in worker.scan.rows : Expire(row)
    \/ ListUploads \/ UploadsDone
    \/ worker.at = "abort" /\ \E u \in worker.scan.rows : AbortUpload(u)

LifecycleNext == ClientStep \/ Tick \/ WorkerStep

\* The worker is one goroutine that waits for nothing but its ticker.
LifecycleSpec == LifecycleInit /\ [][LifecycleNext]_allVars /\ WF_allVars(WorkerStep)

-----------------------------------------------------------------------------
LifecycleTypeOK ==
    /\ TypeOK
    /\ issued \subseteq Uuids
    /\ \A b \in Buckets, k \in Keys : VidsOf(versions[b][k]) \cap Uuids \subseteq issued
    /\ config \in [Buckets -> Configs \cup {None}]
    /\ uploads \subseteq [b : Buckets, key : Keys, id : UploadIds, initiated : 0..MaxClock]
    /\ worker.at \in {"idle", "bucket", "rule", "list", "expire", "uploads", "abort"}

\* The worker removes a version with an id of its own only when that version is
\* older than the rule says, however long ago it listed it and whatever clients
\* did since; and a key whose current object is younger keeps that object as
\* the one a GET finds.
FreshStays ==
    [][worker.at = "expire" /\ worker' # worker =>
        \A b \in Buckets, k \in Keys :
            /\ \A m \in versions[b][k] :
                m.vid \in Uuids /\ m.vid \notin VidsOf(versions'[b][k]) =>
                    m.modified < clock - Rule.days
            /\ LET m == objects[b][k]
               IN  m # None /\ m.vid \in Uuids /\ m.modified >= clock - Rule.days =>
                    VidOf(objects'[b][k]) = m.vid]_allVars

\* Uploads the worker finds on every page and leaves alone.
Staying ==
    IF worker.at \in {"uploads", "abort"}
    THEN {u \in Listable(worker.b) : u.key >= Rule.prefix /\ ~Abortable(u)} ELSE {}

\* What makes the loop over uploads end: they do not fill a page.
Unobstructed == <>[](Cardinality(Staying) < PageUploads)

\* The worker always gets through its buckets and rules, although each page of
\* uploads starts from the beginning and clients go on all the time.
WorkerReturns == Unobstructed => []<>(worker.at = "idle")

Due(b, k, vid) ==
    /\ config[b] # None
    /\ \E i \in DOMAIN config[b] :
        LET r == config[b][i]
        IN  /\ r.enabled /\ r.days > 0 /\ k \in Under(r.prefix)
            /\ \E m \in versions[b][k] :
                m.vid = vid /\ m.body # "held" /\ m.modified < clock - r.days

\* No version stays due for ever: those that a run misses, because the version
\* its marker names was removed, a later run finds.
ExpiredGo ==
    Unobstructed => \A b \in Buckets, k \in Keys, vid \in Vids : []<>~Due(b, k, vid)
=============================================================================
