---------------------------- MODULE VersionIndex ----------------------------
(***************************************************************************)
(* The bucket and object metadata of internal/storage/metadata/bbolt.go.   *)
(* Every method there is one bbolt transaction, and bbolt runs its write   *)
(* transactions one at a time, so each is one action here.                 *)
(*                                                                         *)
(* An S3 bucket b lives in three bbolt buckets:                            *)
(*   "buckets"     b |-> BucketInfo                  variable buckets      *)
(*   "objects:b"   key |-> the record GET resolves   variable objects      *)
(*   "versions:b"  key \0 version id |-> record      variable versions     *)
(* "objects:b" is created and dropped in the transactions that create and  *)
(* drop the BucketInfo, so buckets[b] # None stands for both.  Dropping a  *)
(* bucket leaves "versions:b" where it is, and a bucket of the same name   *)
(* created later finds it again.                                           *)
(***************************************************************************)
EXTENDS Naturals

CONSTANTS Buckets,      \* bucket names
          Keys,         \* object keys
          Uuids,        \* version ids but the empty one and "null"
          Payloads,     \* the rest of an ObjectMeta, which no method here reads
          None,         \* "no such record"
          MaxClock      \* bound on the number of object writes

\* The Versioning field.  The console stores any string; every one but
\* "Enabled" and "Suspended" counts as the empty one.
Statuses == {"", "Enabled", "Suspended"}

\* VersionID: empty for a write to a bucket that never had versioning,
\* "null" for a write while versioning is suspended.
Vids == Uuids \cup {"", "null"}

Meta == [vid : Vids, latest : BOOLEAN, modified : 0..MaxClock, body : Payloads]

ASSUME ClockAssumption == MaxClock \in Nat
ASSUME NoneAssumption ==
    /\ None \notin Meta
    /\ None \notin Statuses
    /\ None \notin Vids
ASSUME UuidAssumption == Uuids \cap {"", "null"} = {}

VARIABLES buckets, objects, versions,
          clock         \* number of object writes so far, read by time.Now

vars == <<buckets, objects, versions, clock>>

NoObjects == [k \in Keys |-> None]
NoVersions == [k \in Keys |-> {}]

Init ==
    /\ buckets = [b \in Buckets |-> None]
    /\ objects = [b \in Buckets |-> NoObjects]
    /\ versions = [b \in Buckets |-> NoVersions]
    /\ clock = 0

Exists(b) == buckets[b] # None

\* Slip: an object-lock bucket gets a status of its own.
CreateBucketLocked(b, objectLock) ==
    /\ ~Exists(b)
    /\ buckets' = [buckets EXCEPT ![b] = IF objectLock THEN "Locked" ELSE ""]
    /\ UNCHANGED <<objects, versions, clock>>

\* An object-lock bucket is created with versioning on.
CreateBucket(b, objectLock) ==
    /\ ~Exists(b)
    /\ buckets' = [buckets EXCEPT ![b] = IF objectLock THEN "Enabled" ELSE ""]
    /\ UNCHANGED <<objects, versions, clock>>

\* Slip: the emptiness test is left out.
DeleteBucketUnchecked(b) ==
    /\ Exists(b)
    /\ buckets' = [buckets EXCEPT ![b] = None]
    /\ objects' = [objects EXCEPT ![b] = NoObjects]
    /\ UNCHANGED <<versions, clock>>

\* Refused while "objects:b" has an entry; "versions:b" is neither consulted
\* nor dropped.
DeleteBucket(b) ==
    /\ Exists(b)
    /\ objects[b] = NoObjects
    /\ buckets' = [buckets EXCEPT ![b] = None]
    /\ UNCHANGED <<objects, versions, clock>>

\* The versioning status is the only field of a BucketInfo that callers change.
UpdateBucket(b, status) ==
    /\ Exists(b)
    /\ buckets' = [buckets EXCEPT ![b] = status]
    /\ UNCHANGED <<objects, versions, clock>>

\* Storing m under its version id replaces the record that had that id.
WithVersion(S, m) == {n \in S : n.vid # m.vid} \cup {m}

BecomesHead(m) == m.latest \/ m.vid = ""

\* The time stamp in m was read by the caller, before this transaction.
PutObject(b, k, m) ==
    /\ Exists(b)
    /\ clock < MaxClock
    /\ clock' = clock + 1
    /\ objects' = IF BecomesHead(m) THEN [objects EXCEPT ![b][k] = m] ELSE objects
    /\ versions' = [versions EXCEPT ![b][k] = WithVersion(@, m)]
    /\ UNCHANGED buckets

\* Slip: only the head goes.
DeleteObjectHead(b, k) ==
    /\ Exists(b)
    /\ objects' = [objects EXCEPT ![b][k] = None]
    /\ UNCHANGED <<buckets, versions, clock>>

\* versionId = "": the head and every version go in one transaction.
DeleteObject(b, k) ==
    /\ Exists(b)
    /\ objects' = [objects EXCEPT ![b][k] = None]
    /\ versions' = [versions EXCEPT ![b][k] = {}]
    /\ UNCHANGED <<buckets, clock>>

\* Slip: the comparison is the wrong way round.
Oldest(S) == {m \in S : \A n \in S : m.modified <= n.modified}

\* The records with the greatest time stamp.  Equal stamps are decided by the
\* order of the version ids, which for random ids may be any.
Newest(S) == {m \in S : \A n \in S : n.modified <= m.modified}

Promoted(m) == [m EXCEPT !.latest = TRUE]

\* Slip: the promoted version is written to "objects:" only.
DeleteVersionOneTable(b, k, vid) ==
    LET rest == {m \in versions[b][k] : m.vid # vid}
    IN  /\ Exists(b)
        /\ versions' = [versions EXCEPT ![b][k] = rest]
        /\ \/ rest = {} /\ objects' = [objects EXCEPT ![b][k] = None]
           \/ \E m \in Newest(rest) : objects' = [objects EXCEPT ![b][k] = Promoted(m)]
        /\ UNCHANGED <<buckets, clock>>

\* versionId given: the version is dropped if it is there, and in every case
\* the newest of what is left is marked latest and written to both tables.
DeleteVersion(b, k, vid) ==
    LET rest == {m \in versions[b][k] : m.vid # vid}
    IN  /\ Exists(b)
        /\ \/ /\ rest = {}
              /\ objects' = [objects EXCEPT ![b][k] = None]
              /\ versions' = [versions EXCEPT ![b][k] = {}]
           \/ \E m \in Newest(rest) :
                /\ objects' = [objects EXCEPT ![b][k] = Promoted(m)]
                /\ versions' = [versions EXCEPT ![b][k] = WithVersion(rest, Promoted(m))]
        /\ UNCHANGED <<buckets, clock>>

\* What the read transactions return: the head, or the version asked for.
GetObject(b, k, vid) ==
    IF ~Exists(b) THEN None
    ELSE IF vid = "" THEN objects[b][k]
    ELSE IF \E m \in versions[b][k] : m.vid = vid
         THEN CHOOSE m \in versions[b][k] : m.vid = vid
         ELSE None

-----------------------------------------------------------------------------
(***************************************************************************)
(* The callers.  A handler marks what it writes as latest, or leaves the   *)
(* version id empty (a form upload, a copy with replaced metadata), or     *)
(* copies a record it read from "objects:".  It read the clock some time   *)
(* before its transaction: any stamp up to now.                            *)
(***************************************************************************)
Written == {m \in Meta : BecomesHead(m) /\ m.modified <= clock}

BucketStep(b) ==
    \/ \E objectLock \in BOOLEAN : CreateBucket(b, objectLock)
    \/ DeleteBucket(b)
    \/ \E status \in Statuses : UpdateBucket(b, status)

DeleteStep(b, k) ==
    \/ DeleteObject(b, k)
    \/ \E vid \in Vids \ {""} : DeleteVersion(b, k, vid)

Next ==
    \E b \in Buckets :
        \/ BucketStep(b)
        \/ \E k \in Keys :
            \/ DeleteStep(b, k)
            \/ \E m \in Written : PutObject(b, k, m)

Spec == Init /\ [][Next]_vars

\* One request at a time: the stamp is the time of the transaction.
SerialNext ==
    \E b \in Buckets :
        \/ BucketStep(b)
        \/ \E k \in Keys :
            \/ DeleteStep(b, k)
            \/ \E m \in Written : m.modified = clock /\ PutObject(b, k, m)

SerialSpec == Init /\ [][SerialNext]_vars

-----------------------------------------------------------------------------
TypeOK ==
    /\ buckets \in [Buckets -> Statuses \cup {None}]
    /\ objects \in [Buckets -> [Keys -> Meta \cup {None}]]
    /\ versions \in [Buckets -> [Keys -> SUBSET Meta]]
    /\ clock \in 0..MaxClock

\* The record GET resolves to is the very record kept for its version id: the
\* copy in "objects:" never goes stale against the one in "versions:".
HeadIsStored ==
    \A b \in Buckets, k \in Keys :
        objects[b][k] # None => objects[b][k] \in versions[b][k]

\* A key with versions left has a head, so that a listing shows it.
NoHiddenVersions ==
    \A b \in Buckets, k \in Keys : versions[b][k] # {} => objects[b][k] # None

\* A bucket that does not exist has no versions, although DeleteBucket looks
\* only at "objects:" and never drops "versions:": a bucket created again
\* under the same name does not bring old versions back.
GoneBucketsHoldNothing ==
    \A b \in Buckets, k \in Keys : ~Exists(b) => versions[b][k] = {}

\* With requests one at a time, the head is the newest version.
HeadIsNewest ==
    \A b \in Buckets, k \in Keys :
        \A m \in versions[b][k] : m.modified <= objects[b][k].modified

\* With requests one at a time, GET resolves to another version only because a
\* newer one was written or because the one it resolved to was removed.
HeadMove(b, k) ==
    (objects[b][k] # None /\ objects'[b][k] # None
       /\ objects'[b][k].vid # objects[b][k].vid)
    => \/ objects'[b][k].modified > objects[b][k].modified
       \/ \A m \in versions'[b][k] : m.vid # objects[b][k].vid

HeadMovesForCause == [][\A b \in Buckets, k \in Keys : HeadMove(b, k)]_vars

-----------------------------------------------------------------------------
Live == {b \in Buckets : Exists(b)}
VidsOf(S) == {m.vid : m \in S}
VidOf(h) == IF h = None THEN None ELSE h.vid
Stored == [b \in Buckets |-> [k \in Keys |-> VidsOf(versions[b][k])]]
Current == [b \in Buckets |-> [k \in Keys |-> VidOf(objects[b][k])]]

Store == INSTANCE VersionedStore WITH live <- Live, stored <- Stored, current <- Current

\* The two tables implement the store their callers have in mind, where a
\* bucket is deleted only when it has no version at all and a key has a
\* current version exactly when it has one.
ImplementsVersionedStore == Store!Spec
=============================================================================
