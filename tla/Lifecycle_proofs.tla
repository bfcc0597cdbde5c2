-------------------------- MODULE Lifecycle_proofs --------------------------
(***************************************************************************)
(* Theorems about Lifecycle, for any buckets, keys, uuids, uploads, page   *)
(* sizes and lifecycle configurations, and any bound on the clock.         *)
(***************************************************************************)
EXTENDS Lifecycle, VersionIndex_proofs

-----------------------------------------------------------------------------
(***************************************************************************)
(* Pages of versions.                                                      *)
(***************************************************************************)
\* What the worker takes from a page.
Listed == [key : Keys, vid : Vids, modified : 0..MaxClock]

From(r, table) == \E v \in table[r.key] : v.vid = r.vid /\ v.modified = r.modified

\* What a page shows was in the table when it was read.
LEMMA PageRows ==
    ASSUME NEW table \in [Keys -> SUBSET Meta], NEW prefix, NEW key, NEW vid, NEW n,
           NEW r \in ListObjectVersions(table, prefix, FALSE, key, vid, n).rows
    PROVE  r \in Listed /\ From(r, table)
  <1> DEFINE start == {k \in Keys : table[k] # {} /\ k >= IF key # Empty THEN key ELSE prefix}
             left(k) == IF k = key /\ vid # "" THEN table[k] \ Passed(table[k], vid) ELSE table[k]
             row(k, v) == [key |-> k, vid |-> v.vid, modified |-> v.modified]
             rows == UNION {IF Rolled(k, prefix, FALSE) THEN {PrefixRow(k)}
                            ELSE {row(k, v) : v \in left(k)} : k \in Run(start, prefix)}
             page == PageOf(rows, n)
  <1>1. ListObjectVersions(table, prefix, FALSE, key, vid, n) = page
    BY DEF ListObjectVersions, Only
  <1>2. page.rows = First(rows, n)
    BY DEF PageOf
  <1>3. r \in rows
    BY <1>1, <1>2 DEF First
  <1>4. PICK k \in Run(start, prefix) : r \in {row(k, v) : v \in left(k)}
    BY <1>3 DEF Rolled
  <1>5. k \in Keys
    BY DEF Run
  <1>6. PICK v \in left(k) : r = row(k, v)
    BY <1>4
  <1>7. v \in table[k]
    BY <1>6 DEF Passed
  <1>8. v \in Meta
    BY <1>5, <1>7
  <1>9. r \in Listed
    BY <1>5, <1>6, <1>8 DEF Listed, Meta
  <1> QED BY <1>6, <1>7, <1>9 DEF From

-----------------------------------------------------------------------------
(***************************************************************************)
(* What steps do to the tables.                                            *)
(***************************************************************************)
\* A write or a deletion of one key, by a client or by the worker.
Changes(b, k) ==
    \/ \E body \in Payloads : Write(b, k, body)
    \/ /\ UNCHANGED issued
       /\ \/ DeleteObject(b, k)
          \/ \E vid \in Vids : vid # "" /\ ~Held(b, k, vid) /\ DeleteVersion(b, k, vid)

Manages(b) ==
    /\ \/ \E lock \in Locks : CreateBucket(b, lock)
       \/ DeleteBucket(b)
       \/ \E s \in Switches : buckets[b] = s[1] /\ UpdateBucket(b, s[2])
    /\ UNCHANGED issued

\* Every step is one of these for the tables.
TableStep ==
    \/ \E b \in Buckets : Manages(b)
    \/ \E b \in Buckets, k \in Keys : Changes(b, k)
    \/ clock < MaxClock /\ clock' = clock + 1 /\ UNCHANGED <<buckets, objects, versions, issued>>
    \/ UNCHANGED <<index, issued>>

LEMMA RemovalChanges ==
    ASSUME NEW b \in Buckets, NEW k \in Keys, NEW vid \in Vids, RemoveObject(b, k, vid)
    PROVE  Changes(b, k)
  <1>1. CASE vid = "" /\ buckets[b] \in {"Enabled", "Suspended"}
    BY <1>1, PayloadAssumption DEF RemoveObject, Changes
  <1>2. CASE ~(vid = "" /\ buckets[b] \in {"Enabled", "Suspended"})
    BY <1>2 DEF RemoveObject, Changes
  <1> QED BY <1>1, <1>2

\* Where the worker is.
AtBucket == worker.at # "idle" => worker.left \subseteq Buckets

AtRule ==
    worker.at \notin {"idle", "bucket"} => worker.b \in Buckets /\ worker.rules \in Seq(Rules)

AtScan ==
    worker.at \in {"list", "expire", "uploads", "abort"} =>
        worker.rules # <<>> /\ worker = In(worker.at, worker.scan)

AtExpiration ==
    worker.at \in {"list", "expire"} =>
        worker.scan.cutoff \in Int /\ worker.scan.cutoff <= clock - Rule.days

AtDeletion ==
    worker.at = "expire" =>
        /\ worker.scan = [cutoff |-> worker.scan.cutoff, key |-> worker.scan.key,
                          vid |-> worker.scan.vid, rows |-> worker.scan.rows]
        /\ worker.scan.rows \subseteq Listed
        /\ \A row \in worker.scan.rows : row.modified < worker.scan.cutoff

AtAbortion ==
    worker.at = "abort" =>
        worker.scan = [cutoff |-> worker.scan.cutoff, truncated |-> worker.scan.truncated,
                       rows |-> worker.scan.rows]

WorkerOK == AtBucket /\ AtRule /\ AtScan /\ AtExpiration /\ AtDeletion /\ AtAbortion

LEMMA StepTables ==
    ASSUME WorkerOK, TypeOK, [LifecycleNext]_allVars
    PROVE  TableStep
  <1>1. CASE ClientStep
    <2>1. PICK b \in Buckets :
            \/ /\ \/ \E lock \in Locks : CreateBucket(b, lock)
                  \/ DeleteBucket(b)
                  \/ \E s \in Switches : buckets[b] = s[1] /\ UpdateBucket(b, s[2])
               /\ UNCHANGED <<issued, config, uploads, worker>>
            \/ \E k \in Keys :
                /\ Exists(b)
                /\ \/ \E body \in {"object", "held"} : Write(b, k, body)
                   \/ \E vid \in {""} \cup VidsOf(versions[b][k]) : RemoveObject(b, k, vid)
                /\ UNCHANGED <<config, uploads, worker>>
            \/ UNCHANGED <<index, issued>>
      BY <1>1 DEF ClientStep, PutBucketLifecycle, CreateMultipartUpload, EndMultipartUpload
    <2>2. CASE /\ \/ \E lock \in Locks : CreateBucket(b, lock)
                  \/ DeleteBucket(b)
                  \/ \E s \in Switches : buckets[b] = s[1] /\ UpdateBucket(b, s[2])
               /\ UNCHANGED <<issued, config, uploads, worker>>
      BY <2>2 DEF TableStep, Manages
    <2>3. ASSUME NEW k \in Keys, NEW body \in {"object", "held"}, Write(b, k, body)
          PROVE  TableStep
      BY <2>3, PayloadAssumption DEF TableStep, Changes
    <2>4. ASSUME NEW k \in Keys, NEW vid \in {""} \cup VidsOf(versions[b][k]), RemoveObject(b, k, vid)
          PROVE  TableStep
      <3>1. versions[b][k] \subseteq Meta
        BY DEF TypeOK
      <3>2. vid \in Vids
        BY <3>1 DEF Meta, VidsOf, Vids
      <3> QED BY <2>4, <3>2, RemovalChanges DEF TableStep
    <2> QED BY <2>1, <2>2, <2>3, <2>4 DEF TableStep
  <1>2. CASE Tick
    BY <1>2 DEF Tick, TableStep
  <1>3. CASE WorkerStep
    <2>1. ASSUME NEW row \in worker.scan.rows, worker.at = "expire", Expire(row)
          PROVE  TableStep
      <3>1. worker.b \in Buckets /\ row.key \in Keys /\ row.vid \in Vids
        BY <2>1 DEF WorkerOK, AtRule, AtDeletion, Listed
      <3> QED BY <2>1, <3>1, RemovalChanges DEF Expire, TableStep
    <2>2. CASE ~\E row \in worker.scan.rows : worker.at = "expire" /\ Expire(row)
      <3>1. UNCHANGED <<index, issued>>
        BY <1>3, <2>2 DEF WorkerStep, RunLifecycleCleanup, NextBucket, NextRule, ListPage, PageDone,
               ListUploads, UploadsDone, AbortUpload, Goto
      <3> QED BY <3>1 DEF TableStep
    <2> QED BY <2>1, <2>2
  <1>4. CASE UNCHANGED allVars
    BY <1>4 DEF allVars, TableStep, index
  <1> QED BY <1>1, <1>2, <1>3, <1>4 DEF LifecycleNext

\* What a write puts in.
LEMMA StampedFacts ==
    ASSUME TypeOK, NEW vid \in Vids, NEW body \in Payloads
    PROVE  /\ Stamped(vid, body) \in Written /\ Stamped(vid, body) \in Meta
           /\ Stamped(vid, body).vid = vid /\ Stamped(vid, body).modified = clock
  <1>1. clock \in 0..MaxClock /\ clock <= clock
    BY ClockAssumption DEF TypeOK
  <1>2. Stamped(vid, body) \in Meta
    BY <1>1 DEF Stamped, Meta
  <1> QED BY <1>1, <1>2 DEF Stamped, Written, BecomesHead

LEMMA ChangesSerially ==
    ASSUME TypeOK, NEW b \in Buckets, NEW k \in Keys, Changes(b, k)
    PROVE  SerialNext
  <1>1. ASSUME NEW body \in Payloads, Write(b, k, body) PROVE SerialNext
    <2>1. PICK vid \in Vids : PutObject(b, k, Stamped(vid, body))
      BY <1>1 DEF Write
    <2> QED BY <2>1, StampedFacts DEF SerialNext
  <1>2. CASE DeleteObject(b, k)
    BY <1>2 DEF SerialNext, DeleteStep
  <1>3. ASSUME NEW vid \in Vids, vid # "", DeleteVersion(b, k, vid) PROVE SerialNext
    BY <1>3 DEF SerialNext, DeleteStep
  <1> QED BY <1>1, <1>2, <1>3 DEF Changes

LEMMA ManagesSerially ==
    ASSUME NEW b \in Buckets, Manages(b)
    PROVE  SerialNext
  BY RequestsAssumption DEF Manages, SerialNext, BucketStep

\* The tables stay those of VersionIndex with requests one at a time, although
\* the clock goes on by itself.
LEMMA IndexStep ==
    ASSUME IndexInv, SerialInv, TableStep
    PROVE  IndexInv' /\ SerialInv'
  <1>0. TypeOK
    BY DEF IndexInv
  <1>1. CASE clock < MaxClock /\ clock' = clock + 1 /\ UNCHANGED <<buckets, objects, versions, issued>>
    <2>1. clock' \in 0..MaxClock /\ clock <= clock' /\ clock \in Nat
      BY <1>0, <1>1, ClockAssumption DEF TypeOK
    <2>2. IndexInv'
      BY <1>1, <2>1 DEF IndexInv, TypeOK, HeadIsStored, NoHiddenVersions, HeadsAreCopyable,
                        GoneBucketsHoldNothing, Exists
    <2>3. \A b \in Buckets, k \in Keys : \A m \in versions[b][k] : m.modified \in Nat
      BY <1>0, ClockAssumption DEF TypeOK, Meta
    <2>4. SerialInv'
      BY <1>1, <2>1, <2>3 DEF SerialInv, StampsArePast, StampsDiffer, HeadIsNewest
    <2> QED BY <2>2, <2>4
  <1>2. CASE UNCHANGED <<index, issued>>
    <2>1. UNCHANGED vars
      BY <1>2 DEF index, vars
    <2> QED BY <2>1, SerialStep, StepPreserves
  <1>3. CASE SerialNext
    BY <1>3, SerialStep, SerialStepIsStep, StepPreserves
  <1> QED BY <1>0, <1>1, <1>2, <1>3, ChangesSerially, ManagesSerially DEF TableStep

-----------------------------------------------------------------------------
(***************************************************************************)
(* Types, and where the worker is.                                         *)
(***************************************************************************)
IssuedOK ==
    /\ issued \subseteq Uuids
    /\ \A b \in Buckets, k \in Keys : VidsOf(versions[b][k]) \cap Uuids \subseteq issued

LEMMA PutFacts ==
    ASSUME TypeOK, NEW b \in Buckets, NEW k \in Keys, NEW m \in Meta, PutObject(b, k, m)
    PROVE  /\ versions'[b][k] = WithVersion(versions[b][k], m)
           /\ \A c \in Buckets, j \in Keys : ~(c = b /\ j = k) => versions'[c][j] = versions[c][j]
  BY DEF PutObject, TypeOK

LEMMA DeletionFacts ==
    ASSUME TypeOK, NEW b \in Buckets, NEW k \in Keys,
           DeleteObject(b, k) \/ \E vid \in Vids : DeleteVersion(b, k, vid)
    PROVE  /\ \A n \in versions'[b][k] :
                \E m \in versions[b][k] : m.vid = n.vid /\ m.modified = n.modified
           /\ \A m, n \in versions'[b][k] :
                m.vid = n.vid => m = n \/ (m \in versions[b][k] /\ n \in versions[b][k])
           /\ \A c \in Buckets, j \in Keys : ~(c = b /\ j = k) => versions'[c][j] = versions[c][j]
  <1>1. CASE DeleteObject(b, k)
    BY <1>1 DEF DeleteObject, TypeOK
  <1>2. ASSUME NEW vid \in Vids, DeleteVersion(b, k, vid)
        PROVE  /\ \A n \in versions'[b][k] :
                    \E m \in versions[b][k] : m.vid = n.vid /\ m.modified = n.modified
               /\ \A m, n \in versions'[b][k] :
                    m.vid = n.vid => m = n \/ (m \in versions[b][k] /\ n \in versions[b][k])
               /\ \A c \in Buckets, j \in Keys :
                    ~(c = b /\ j = k) => versions'[c][j] = versions[c][j]
    <2> DEFINE rest == {m \in versions[b][k] : m.vid # vid}
    <2>1. CASE versions' = [versions EXCEPT ![b][k] = {}]
      BY <2>1 DEF TypeOK
    <2>2. ASSUME NEW m \in Newest(rest),
                 versions' = [versions EXCEPT ![b][k] = WithVersion(rest, Promoted(m))]
          PROVE  /\ \A n \in versions'[b][k] :
                      \E o \in versions[b][k] : o.vid = n.vid /\ o.modified = n.modified
                 /\ \A o, n \in versions'[b][k] :
                      o.vid = n.vid => o = n \/ (o \in versions[b][k] /\ n \in versions[b][k])
                 /\ \A c \in Buckets, j \in Keys :
                      ~(c = b /\ j = k) => versions'[c][j] = versions[c][j]
      <3>1. m \in versions[b][k] /\ m \in Meta
        BY DEF Newest, TypeOK
      <3>2. Promoted(m).vid = m.vid /\ Promoted(m).modified = m.modified
        BY <3>1, PromotedMeta
      <3>3. versions'[b][k] = WithVersion(rest, Promoted(m))
        BY <2>2 DEF TypeOK
      <3>4. \A c \in Buckets, j \in Keys : ~(c = b /\ j = k) => versions'[c][j] = versions[c][j]
        BY <2>2 DEF TypeOK
      <3>5. \A n \in WithVersion(rest, Promoted(m)) :
                n = Promoted(m) \/ (n \in versions[b][k] /\ n.vid # m.vid)
        BY <3>2 DEF WithVersion
      <3> QED BY <3>1, <3>2, <3>3, <3>4, <3>5
    <2> QED BY <1>2, <2>1, <2>2 DEF DeleteVersion
  <1> QED BY <1>1, <1>2

\* One version of an id, as far as its time goes.
IdsDiffer ==
    \A b \in Buckets, k \in Keys : \A m, n \in versions[b][k] :
        m.vid = n.vid => m.modified = n.modified

LEMMA VersionsStep ==
    ASSUME TypeOK, IssuedOK, IdsDiffer, TableStep
    PROVE  /\ IssuedOK' /\ IdsDiffer' /\ issued \subseteq issued'
           /\ \A b \in Buckets, k \in Keys : \A n \in versions'[b][k] :
                \/ n.vid \notin issued
                \/ \E m \in versions[b][k] : m.vid = n.vid /\ m.modified = n.modified
  <1>1. CASE UNCHANGED <<versions, issued>>
    BY <1>1 DEF IssuedOK, IdsDiffer
  <1>2. ASSUME NEW b \in Buckets, NEW k \in Keys, NEW vid \in Vids, NEW body \in Payloads,
               NewVid(buckets[b], vid), issued' = issued \cup ({vid} \cap Uuids),
               PutObject(b, k, Stamped(vid, body))
        PROVE  /\ IssuedOK' /\ IdsDiffer' /\ issued \subseteq issued'
               /\ \A c \in Buckets, j \in Keys : \A n \in versions'[c][j] :
                    \/ n.vid \notin issued
                    \/ \E m \in versions[c][j] : m.vid = n.vid /\ m.modified = n.modified
    <2> DEFINE m0 == Stamped(vid, body)
    <2>1. m0 \in Meta /\ m0.vid = vid
      BY StampedFacts
    <2> HIDE DEF m0
    <2>2. /\ versions'[b][k] = WithVersion(versions[b][k], m0)
          /\ \A c \in Buckets, j \in Keys : ~(c = b /\ j = k) => versions'[c][j] = versions[c][j]
      BY <1>2, <2>1, PutFacts DEF m0
    <2>3. \A n \in versions'[b][k] : n = m0 \/ (n \in versions[b][k] /\ n.vid # vid)
      BY <2>1, <2>2 DEF WithVersion
    <2>4. vid \notin issued
      <3>1. CASE vid \in Uuids
        BY <1>2, <3>1, UuidAssumption DEF NewVid
      <3> QED BY <3>1 DEF IssuedOK
    <2>5. issued \subseteq issued' /\ issued' \subseteq Uuids
      BY <1>2 DEF IssuedOK
    <2>6. ASSUME NEW c \in Buckets, NEW j \in Keys, NEW n \in versions'[c][j], n.vid \in Uuids
          PROVE  n.vid \in issued'
      <3>1. CASE c = b /\ j = k
        BY <1>2, <2>1, <2>3, <2>6, <3>1 DEF IssuedOK, VidsOf
      <3>2. CASE ~(c = b /\ j = k)
        BY <2>2, <2>5, <2>6, <3>2 DEF IssuedOK, VidsOf
      <3> QED BY <3>1, <3>2
    <2>7. IssuedOK'
      BY <2>5, <2>6 DEF IssuedOK, VidsOf
    <2>8. IdsDiffer'
      BY <2>1, <2>2, <2>3 DEF IdsDiffer
    <2>9. ASSUME NEW c \in Buckets, NEW j \in Keys, NEW n \in versions'[c][j]
          PROVE  \/ n.vid \notin issued
                 \/ \E m \in versions[c][j] : m.vid = n.vid /\ m.modified = n.modified
      BY <2>1, <2>2, <2>3, <2>4
    <2> QED BY <2>5, <2>7, <2>8, <2>9
  <1>3. ASSUME NEW b \in Buckets, NEW k \in Keys, UNCHANGED issued,
               DeleteObject(b, k) \/ \E vid \in Vids : DeleteVersion(b, k, vid)
        PROVE  /\ IssuedOK' /\ IdsDiffer' /\ issued \subseteq issued'
               /\ \A c \in Buckets, j \in Keys : \A n \in versions'[c][j] :
                    \/ n.vid \notin issued
                    \/ \E m \in versions[c][j] : m.vid = n.vid /\ m.modified = n.modified
    <2>1. /\ \A n \in versions'[b][k] :
                \E m \in versions[b][k] : m.vid = n.vid /\ m.modified = n.modified
          /\ \A m, n \in versions'[b][k] :
                m.vid = n.vid => m = n \/ (m \in versions[b][k] /\ n \in versions[b][k])
          /\ \A c \in Buckets, j \in Keys : ~(c = b /\ j = k) => versions'[c][j] = versions[c][j]
      BY <1>3, DeletionFacts
    <2>2. \A c \in Buckets, j \in Keys : \A n \in versions'[c][j] :
            \E m \in versions[c][j] : m.vid = n.vid /\ m.modified = n.modified
      BY <2>1
    <2>3. IssuedOK'
      BY <1>3, <2>2 DEF IssuedOK, VidsOf
    <2>4. IdsDiffer'
      BY <2>1 DEF IdsDiffer
    <2> QED BY <1>3, <2>2, <2>3, <2>4
  <1>4. ASSUME NEW b \in Buckets, NEW k \in Keys, Changes(b, k)
        PROVE  \/ UNCHANGED <<versions, issued>>
               \/ \E vid \in Vids, body \in Payloads :
                    /\ NewVid(buckets[b], vid) /\ issued' = issued \cup ({vid} \cap Uuids)
                    /\ PutObject(b, k, Stamped(vid, body))
               \/ /\ UNCHANGED issued
                  /\ DeleteObject(b, k) \/ \E vid \in Vids : DeleteVersion(b, k, vid)
    BY <1>4 DEF Changes, Write
  <1>5. ASSUME NEW b \in Buckets, Manages(b) PROVE UNCHANGED <<versions, issued>>
    BY <1>5 DEF Manages, CreateBucket, DeleteBucket, UpdateBucket
  <1> QED BY <1>1, <1>2, <1>3, <1>4, <1>5 DEF TableStep, index

ConfigsOK ==
    /\ config \in [Buckets -> Configs \cup {None}]
    /\ uploads \subseteq [b : Buckets, key : Keys, id : UploadIds, initiated : 0..MaxClock]
    /\ worker.at \in {"idle", "bucket", "rule", "list", "expire", "uploads", "abort"}

LEMMA TypeParts == LifecycleTypeOK <=> TypeOK /\ IssuedOK /\ ConfigsOK
  BY DEF LifecycleTypeOK, IssuedOK, ConfigsOK

\* While its clients move, the worker's cutoff only falls further behind.
LEMMA WorkerStays ==
    ASSUME WorkerOK, TypeOK, TypeOK', worker' = worker, clock <= clock'
    PROVE  WorkerOK'
  <1>1. Rule' = Rule
    BY DEF Rule
  <1>2. In(worker.at, worker.scan)' = In(worker.at, worker.scan)
    BY DEF In
  <1>3. AtExpiration'
    <2> SUFFICES ASSUME worker.at \in {"list", "expire"}
                 PROVE  worker.scan.cutoff \in Int /\ worker.scan.cutoff <= clock' - Rule.days
      BY <1>1 DEF AtExpiration
    <2>1. worker.scan.cutoff \in Int /\ worker.scan.cutoff <= clock - Rule.days
      BY DEF WorkerOK, AtExpiration
    <2>2. clock \in Int /\ clock' \in Int
      BY ClockAssumption DEF TypeOK
    <2>3. worker.rules \in Seq(Rules) /\ worker.rules # <<>>
      BY DEF WorkerOK, AtRule, AtScan
    <2>4. Rule \in Rules
      BY <2>3 DEF Rule
    <2>5. Rule.days \in Int
      BY <2>4 DEF Rules
    <2> QED BY <2>1, <2>2, <2>5
  <1> QED BY <1>1, <1>2, <1>3 DEF WorkerOK, AtBucket, AtRule, AtScan, AtDeletion, AtAbortion

\* The places the worker may go to.
LEMMA ToIdle == ASSUME worker' = Idle PROVE WorkerOK' /\ worker'.at = "idle"
  BY DEF Idle, WorkerOK, AtBucket, AtRule, AtScan, AtExpiration, AtDeletion, AtAbortion

LEMMA ToBucket ==
    ASSUME NEW left \in SUBSET Buckets, worker' = [at |-> "bucket", left |-> left]
    PROVE  WorkerOK' /\ worker'.at = "bucket"
  BY DEF WorkerOK, AtBucket, AtRule, AtScan, AtExpiration, AtDeletion, AtAbortion

LEMMA ToRule ==
    ASSUME NEW left \in SUBSET Buckets, NEW b \in Buckets, NEW rules \in Seq(Rules),
           worker' = [at |-> "rule", left |-> left, b |-> b, rules |-> rules]
    PROVE  WorkerOK' /\ worker'.at = "rule"
  BY DEF WorkerOK, AtBucket, AtRule, AtScan, AtExpiration, AtDeletion, AtAbortion

\* With a rule at hand.
AtWork ==
    /\ worker.left \subseteq Buckets /\ worker.b \in Buckets
    /\ worker.rules \in Seq(Rules) /\ worker.rules # <<>>

LEMMA RuleFacts == AtWork => Rule \in Rules /\ Rule.days \in Int /\ Rule.abortDays \in Int
  <1> SUFFICES ASSUME AtWork PROVE Rule \in Rules /\ Rule.days \in Int /\ Rule.abortDays \in Int
    OBVIOUS
  <1>1. Rule \in Rules
    BY DEF AtWork, Rule
  <1> QED BY <1>1 DEF Rules

LEMMA InFields ==
    ASSUME NEW at, NEW scan, worker' = In(at, scan)
    PROVE  /\ worker'.at = at /\ worker'.scan = scan
           /\ worker'.left = worker.left /\ worker'.b = worker.b /\ worker'.rules = worker.rules
           /\ Rule' = Rule /\ worker' = In(worker.at, worker.scan)'
  BY DEF In, Rule

LEMMA ToList ==
    ASSUME AtWork, NEW cutoff \in Int, NEW key, NEW vid, cutoff <= clock' - Rule.days,
           worker' = In("list", [cutoff |-> cutoff, key |-> key, vid |-> vid])
    PROVE  WorkerOK' /\ worker'.at = "list"
  BY InFields DEF AtWork, WorkerOK, AtBucket, AtRule, AtScan, AtExpiration, AtDeletion, AtAbortion

LEMMA ToExpire ==
    ASSUME AtWork, NEW cutoff \in Int, NEW key, NEW vid, NEW rows \in SUBSET Listed,
           cutoff <= clock' - Rule.days, \A row \in rows : row.modified < cutoff,
           worker' = In("expire", [cutoff |-> cutoff, key |-> key, vid |-> vid, rows |-> rows])
    PROVE  WorkerOK' /\ worker'.at = "expire"
  BY InFields DEF AtWork, WorkerOK, AtBucket, AtRule, AtScan, AtExpiration, AtDeletion, AtAbortion

LEMMA ToUploads ==
    ASSUME AtWork, NEW scan, worker' = In("uploads", scan)
    PROVE  WorkerOK' /\ worker'.at = "uploads"
  BY InFields DEF AtWork, WorkerOK, AtBucket, AtRule, AtScan, AtExpiration, AtDeletion, AtAbortion

LEMMA ToAbort ==
    ASSUME AtWork, NEW cutoff, NEW truncated, NEW rows,
           worker' = In("abort", [cutoff |-> cutoff, truncated |-> truncated, rows |-> rows])
    PROVE  WorkerOK' /\ worker'.at = "abort"
  BY InFields DEF AtWork, WorkerOK, AtBucket, AtRule, AtScan, AtExpiration, AtDeletion, AtAbortion

LEMMA Working ==
    WorkerOK /\ worker.at \in {"list", "expire", "uploads", "abort"} => AtWork
  BY DEF WorkerOK, AtBucket, AtRule, AtScan, AtWork

LEMMA Leaving ==
    ASSUME AtWork, worker' = LeaveRule
    PROVE  WorkerOK' /\ worker'.at = "rule"
  <1>1. Tail(worker.rules) \in Seq(Rules)
    BY DEF AtWork
  <1> QED BY <1>1, ToRule DEF LeaveRule, AtWork

LEMMA AfterwardsOK ==
    ASSUME AtWork, worker' = AfterExpiration
    PROVE  WorkerOK' /\ worker'.at \in {"rule", "uploads"}
  BY Leaving, ToUploads DEF AfterExpiration, StartAbortion

\* One deletion takes a row off the list.
LEMMA ExpireWorker ==
    ASSUME WorkerOK, TypeOK, TypeOK', clock <= clock', NEW row, Expire(row)
    PROVE  /\ WorkerOK' /\ worker'.at = "expire" /\ worker'.b = worker.b /\ Rule' = Rule
           /\ worker'.scan.rows = worker.scan.rows \ {row}
  <1>1. worker.at = "expire" /\ worker' = In("expire", [worker.scan EXCEPT !.rows = @ \ {row}])
    BY DEF Expire
  <1>2. AtWork
    BY <1>1, Working
  <1>4. worker.scan = [cutoff |-> worker.scan.cutoff, key |-> worker.scan.key,
                       vid |-> worker.scan.vid, rows |-> worker.scan.rows]
    BY <1>1 DEF WorkerOK, AtDeletion
  <1>6. [worker.scan EXCEPT !.rows = @ \ {row}]
          = [cutoff |-> worker.scan.cutoff, key |-> worker.scan.key,
             vid |-> worker.scan.vid, rows |-> worker.scan.rows \ {row}]
    BY <1>4
  <1>7. worker' = In("expire", [cutoff |-> worker.scan.cutoff, key |-> worker.scan.key,
                                vid |-> worker.scan.vid, rows |-> worker.scan.rows \ {row}])
    BY <1>1, <1>6
  <1>5. clock \in Int /\ clock' \in Int /\ Rule.days \in Int
    BY <1>2, RuleFacts, ClockAssumption DEF TypeOK
  <1>8. /\ worker.scan.cutoff \in Int /\ worker.scan.cutoff <= clock' - Rule.days
        /\ worker.scan.rows \ {row} \in SUBSET Listed
        /\ \A r \in worker.scan.rows \ {row} : r.modified < worker.scan.cutoff
    BY <1>1, <1>5 DEF WorkerOK, AtExpiration, AtDeletion
  <1>9. WorkerOK' /\ worker'.at = "expire"
    BY <1>2, <1>7, <1>8, ToExpire
  <1> DEFINE scan == [cutoff |-> worker.scan.cutoff, key |-> worker.scan.key,
                      vid |-> worker.scan.vid, rows |-> worker.scan.rows \ {row}]
  <1>10. worker'.scan = scan /\ worker'.b = worker.b /\ Rule' = Rule
    BY <1>7, InFields
  <1>11. scan.rows = worker.scan.rows \ {row}
    OBVIOUS
  <1> QED BY <1>9, <1>10, <1>11

LEMMA AbortWorker ==
    ASSUME WorkerOK, NEW u, AbortUpload(u)
    PROVE  WorkerOK' /\ worker'.at = "abort"
  <1>1. worker.at = "abort" /\ worker' = In("abort", [worker.scan EXCEPT !.rows = @ \ {u}])
    BY DEF AbortUpload
  <1>2. AtWork
    BY <1>1, Working
  <1>4. worker.scan = [cutoff |-> worker.scan.cutoff, truncated |-> worker.scan.truncated,
                       rows |-> worker.scan.rows]
    BY <1>1 DEF WorkerOK, AtAbortion
  <1>6. [worker.scan EXCEPT !.rows = @ \ {u}]
          = [cutoff |-> worker.scan.cutoff, truncated |-> worker.scan.truncated,
             rows |-> worker.scan.rows \ {u}]
    BY <1>4
  <1>7. worker' = In("abort", [cutoff |-> worker.scan.cutoff, truncated |-> worker.scan.truncated,
                               rows |-> worker.scan.rows \ {u}])
    BY <1>1, <1>6
  <1> QED BY <1>2, <1>7, ToAbort

\* The steps of the worker that change no table.
Moves ==
    \/ RunLifecycleCleanup \/ NextBucket \/ NextRule
    \/ ListPage \/ PageDone \/ ListUploads \/ UploadsDone

LEMMA MovesWorker ==
    ASSUME WorkerOK, TypeOK, ConfigsOK, Moves
    PROVE  /\ WorkerOK' /\ UNCHANGED <<index, issued, config, uploads>>
           /\ worker'.at \in {"idle", "bucket", "rule", "list", "expire", "uploads", "abort"}
           /\ worker'.at = "expire" => ListPage
  <1>0. UNCHANGED <<index, issued, config, uploads>>
    BY DEF Moves, RunLifecycleCleanup, NextBucket, NextRule, ListPage, PageDone, ListUploads,
           UploadsDone, Goto
  <1>1. CASE RunLifecycleCleanup
    <2>1. Live \subseteq Buckets
      BY DEF Live
    <2> QED BY <1>0, <1>1, <2>1, ToBucket DEF RunLifecycleCleanup, Goto
  <1>2. CASE NextBucket
    <2>0. worker.left \subseteq Buckets
      BY <1>2 DEF NextBucket, WorkerOK, AtBucket
    <2>1. CASE worker' = Idle
      BY <1>0, <2>1, ToIdle
    <2>2. ASSUME NEW b \in worker.left,
                 worker' = IF config[b] = None THEN [at |-> "bucket", left |-> worker.left \ {b}]
                           ELSE [at |-> "rule", left |-> worker.left \ {b}, b |-> b, rules |-> config[b]]
          PROVE  WorkerOK' /\ worker'.at \in {"bucket", "rule"}
      <3>1. b \in Buckets /\ worker.left \ {b} \in SUBSET Buckets
        BY <2>0
      <3>2. CASE config[b] = None
        BY <2>2, <3>1, <3>2, ToBucket
      <3>3. CASE config[b] # None
        <4>1. config[b] \in Seq(Rules)
          BY <3>1, <3>3, RequestsAssumption DEF ConfigsOK
        <4> QED BY <2>2, <3>1, <3>3, <4>1, ToRule
      <3> QED BY <3>2, <3>3
    <2>3. \/ worker' = Idle
          \/ \E b \in worker.left :
                worker' = IF config[b] = None THEN [at |-> "bucket", left |-> worker.left \ {b}]
                          ELSE [at |-> "rule", left |-> worker.left \ {b}, b |-> b, rules |-> config[b]]
      BY <1>2 DEF NextBucket, Goto
    <2> QED BY <1>0, <2>1, <2>2, <2>3
  <1>3. CASE NextRule
    <2>0. /\ worker.at = "rule" /\ worker.left \subseteq Buckets
          /\ worker.b \in Buckets /\ worker.rules \in Seq(Rules)
      BY <1>3 DEF NextRule, WorkerOK, AtBucket, AtRule
    <2>1. CASE worker.rules = <<>>
      BY <1>0, <1>3, <2>0, <2>1, ToBucket DEF NextRule, Goto
    <2>2. CASE worker.rules # <<>>
      <3>0. AtWork
        BY <2>0, <2>2 DEF AtWork
      <3>1. worker' \in {LeaveRule, StartExpiration, AfterExpiration}
        BY <1>3, <2>2 DEF NextRule, Goto
      <3>2. CASE worker' = StartExpiration
        <4>1. clock - Rule.days \in Int /\ clock - Rule.days <= clock' - Rule.days
          BY <1>0, <3>0, RuleFacts, ClockAssumption DEF TypeOK, index
        <4> QED BY <1>0, <3>0, <3>2, <4>1, ToList DEF StartExpiration
      <3> QED BY <1>0, <3>0, <3>1, <3>2, Leaving, AfterwardsOK
    <2> QED BY <2>1, <2>2
  <1>4. CASE ListPage
    <2>0. worker.at = "list" /\ AtWork
      BY <1>4, Working DEF ListPage
    <2>1. CASE ~Exists(worker.b)
      BY <1>0, <1>4, <2>0, <2>1, AfterwardsOK DEF ListPage, Goto
    <2>2. CASE Exists(worker.b)
      <3> DEFINE page == ListObjectVersions(versions[worker.b], Rule.prefix, FALSE,
                                            worker.scan.key, worker.scan.vid, PageVersions)
                 rows == {r \in page.rows : Expired(r.modified, worker.scan.cutoff)}
      <3>1. worker' = In("expire", [cutoff |-> worker.scan.cutoff, key |-> page.next,
                                    vid |-> page.nextVid, rows |-> rows])
        BY <1>4, <2>2 DEF ListPage, Goto
      <3>2. rows \in SUBSET Listed
        <4>1. versions[worker.b] \in [Keys -> SUBSET Meta]
          BY <2>0 DEF AtWork, TypeOK
        <4>2. \A r \in page.rows : r \in Listed
          BY <4>1, PageRows, Zenon
        <4> QED BY <4>2
      <3>3. \A row \in rows : row.modified < worker.scan.cutoff
        BY DEF Expired
      <3>4. worker.scan.cutoff \in Int /\ worker.scan.cutoff <= clock' - Rule.days
        BY <1>0, <2>0 DEF WorkerOK, AtExpiration, index
      <3> HIDE DEF page, rows
      <3> QED BY <1>0, <1>4, <2>0, <3>1, <3>2, <3>3, <3>4, ToExpire
    <2> QED BY <2>1, <2>2
  <1>5. CASE PageDone
    <2>0. worker.at = "expire" /\ AtWork
      BY <1>5, Working DEF PageDone
    <2>1. worker.scan.cutoff \in Int /\ worker.scan.cutoff <= clock' - Rule.days
      BY <1>0, <2>0 DEF WorkerOK, AtExpiration, index
    <2>2. \/ worker' = AfterExpiration
          \/ worker' = In("list", [cutoff |-> worker.scan.cutoff, key |-> worker.scan.key,
                                   vid |-> worker.scan.vid])
      BY <1>5 DEF PageDone, Goto
    <2> QED BY <1>0, <2>0, <2>1, <2>2, AfterwardsOK, ToList
  <1>6. CASE ListUploads
    <2>0. worker.at = "uploads" /\ AtWork
      BY <1>6, Working DEF ListUploads
    <2> QED BY <1>0, <1>6, <2>0, Leaving, ToAbort DEF ListUploads, Goto
  <1>7. CASE UploadsDone
    <2>0. worker.at = "abort" /\ AtWork
      BY <1>7, Working DEF UploadsDone
    <2> QED BY <1>0, <1>7, <2>0, Leaving, ToUploads DEF UploadsDone, Goto
  <1> QED BY <1>1, <1>2, <1>3, <1>4, <1>5, <1>6, <1>7 DEF Moves

\* A version with an id of its own that the worker is about to delete is still
\* the one it has listed: its id is never given out again.
RowsStand ==
    worker.at = "expire" =>
        \A row \in worker.scan.rows : row.vid \in Uuids =>
            /\ row.vid \in issued
            /\ \A m \in versions[worker.b][row.key] : m.vid = row.vid => m.modified = row.modified

LifecycleInv ==
    /\ IndexInv /\ SerialInv
    /\ LifecycleTypeOK /\ IdsDiffer
    /\ WorkerOK /\ RowsStand

LEMMA LifecycleInvInit == LifecycleInit => LifecycleInv
  <1> SUFFICES ASSUME LifecycleInit PROVE LifecycleInv
    OBVIOUS
  <1>1. IndexInv /\ SerialInv /\ TypeOK
    BY InitEstablishes, SerialInit DEF LifecycleInit, IndexInv
  <1>2. worker.at = "idle"
    BY DEF LifecycleInit, Idle
  <1>3. WorkerOK /\ RowsStand
    BY <1>2 DEF WorkerOK, AtBucket, AtRule, AtScan, AtExpiration, AtDeletion, AtAbortion, RowsStand
  <1>4. IssuedOK /\ IdsDiffer
    BY DEF LifecycleInit, Init, NoVersions, IssuedOK, IdsDiffer, VidsOf
  <1>5. ConfigsOK
    BY <1>2 DEF LifecycleInit, ConfigsOK
  <1> QED BY <1>1, <1>3, <1>4, <1>5, TypeParts DEF LifecycleInv

LEMMA ClockGrows == ASSUME TypeOK, TableStep PROVE clock <= clock'
  <1>1. clock \in Nat
    BY ClockAssumption DEF TypeOK
  <1>2. ASSUME NEW b \in Buckets, Manages(b) PROVE clock' = clock
    BY <1>2 DEF Manages, CreateBucket, DeleteBucket, UpdateBucket
  <1>3. ASSUME NEW b \in Buckets, NEW k \in Keys, Changes(b, k) PROVE clock' \in {clock, clock + 1}
    BY <1>3 DEF Changes, Write, PutObject, DeleteObject, DeleteVersion
  <1>4. clock' \in {clock, clock + 1}
    BY <1>2, <1>3 DEF TableStep, index
  <1> QED BY <1>1, <1>4

LEMMA ConfigsStep ==
    ASSUME TypeOK, ConfigsOK, ClientStep \/ Tick \/ UNCHANGED allVars
    PROVE  ConfigsOK' /\ worker' = worker
  <1>1. CASE UNCHANGED <<config, uploads, worker>>
    BY <1>1 DEF ConfigsOK
  <1>2. ASSUME NEW b \in Buckets, NEW c \in Configs \cup {None}, PutBucketLifecycle(b, c)
        PROVE  ConfigsOK' /\ worker' = worker
    BY <1>2 DEF PutBucketLifecycle, ConfigsOK
  <1>3. ASSUME NEW b \in Buckets, NEW k \in Keys, NEW id \in UploadIds, CreateMultipartUpload(b, k, id)
        PROVE  ConfigsOK' /\ worker' = worker
    BY <1>3 DEF CreateMultipartUpload, ConfigsOK, TypeOK
  <1>4. ASSUME NEW u \in uploads, EndMultipartUpload(u)
        PROVE  ConfigsOK' /\ worker' = worker
    BY <1>4 DEF EndMultipartUpload, ConfigsOK
  <1> QED BY <1>1, <1>2, <1>3, <1>4 DEF ClientStep, Tick, allVars

\* Whatever clients do, what the worker has listed stands.
LEMMA RowsStay ==
    ASSUME TypeOK, IssuedOK, IdsDiffer, WorkerOK, RowsStand, TableStep,
           worker'.at = "expire" =>
               /\ worker.at = "expire" /\ worker'.b = worker.b
               /\ worker'.scan.rows \subseteq worker.scan.rows
    PROVE  RowsStand'
  <1> SUFFICES ASSUME worker'.at = "expire", NEW row \in worker'.scan.rows, row.vid \in Uuids
               PROVE  /\ row.vid \in issued'
                      /\ \A n \in versions'[worker'.b][row.key] :
                            n.vid = row.vid => n.modified = row.modified
    BY DEF RowsStand
  <1>1. worker.at = "expire" /\ row \in worker.scan.rows /\ worker'.b = worker.b
    OBVIOUS
  <1>2. worker.b \in Buckets /\ row.key \in Keys
    BY <1>1 DEF WorkerOK, AtRule, AtDeletion, Listed
  <1>3. /\ row.vid \in issued
        /\ \A m \in versions[worker.b][row.key] : m.vid = row.vid => m.modified = row.modified
    BY <1>1 DEF RowsStand
  <1>4. /\ issued \subseteq issued'
        /\ \A n \in versions'[worker.b][row.key] :
                \/ n.vid \notin issued
                \/ \E m \in versions[worker.b][row.key] : m.vid = n.vid /\ m.modified = n.modified
    BY <1>2, VersionsStep
  <1> QED BY <1>1, <1>3, <1>4

\* What a page shows stands when it is listed.
LEMMA RowsListed ==
    ASSUME TypeOK, IssuedOK, IdsDiffer, WorkerOK, ListPage
    PROVE  RowsStand'
  <1>0. worker.at = "list" /\ AtWork /\ UNCHANGED <<versions, issued>>
    BY Working DEF ListPage, Goto, index
  <1>1. CASE ~Exists(worker.b)
    <2>1. worker' = AfterExpiration
      BY <1>1 DEF ListPage, Goto
    <2> QED BY <1>0, <2>1, AfterwardsOK DEF RowsStand
  <1>2. CASE Exists(worker.b)
    <2> DEFINE page == ListObjectVersions(versions[worker.b], Rule.prefix, FALSE,
                                          worker.scan.key, worker.scan.vid, PageVersions)
               rows == {r \in page.rows : Expired(r.modified, worker.scan.cutoff)}
    <2>1. worker' = In("expire", [cutoff |-> worker.scan.cutoff, key |-> page.next,
                                  vid |-> page.nextVid, rows |-> rows])
      BY <1>2 DEF ListPage, Goto
    <2>2. versions[worker.b] \in [Keys -> SUBSET Meta]
      BY <1>0 DEF AtWork, TypeOK
    <2>3. \A r \in page.rows : r \in Listed /\ From(r, versions[worker.b])
      BY <2>2, PageRows, Zenon
    <2>4. worker'.b = worker.b /\ worker'.scan.rows \subseteq page.rows
      <3> HIDE DEF page
      <3> QED BY <2>1 DEF In
    <2> HIDE DEF page, rows
    <2> SUFFICES ASSUME NEW row \in worker'.scan.rows, row.vid \in Uuids
                 PROVE  /\ row.vid \in issued
                        /\ \A m \in versions[worker.b][row.key] :
                              m.vid = row.vid => m.modified = row.modified
      BY <1>0, <2>4 DEF RowsStand
    <2>5. row.key \in Keys
      BY <2>3, <2>4 DEF Listed
    <2>6. PICK v \in versions[worker.b][row.key] : v.vid = row.vid /\ v.modified = row.modified
      BY <2>3, <2>4 DEF From
    <2>7. row.vid \in issued
      BY <1>0, <2>5, <2>6 DEF AtWork, IssuedOK, VidsOf
    <2>8. \A m \in versions[worker.b][row.key] : m.vid = row.vid => m.modified = row.modified
      BY <1>0, <2>5, <2>6 DEF AtWork, IdsDiffer
    <2> QED BY <2>7, <2>8
  <1> QED BY <1>1, <1>2

LEMMA WorkerCases ==
    ASSUME WorkerStep
    PROVE  \/ Moves
           \/ worker.at = "expire" /\ \E row \in worker.scan.rows : Expire(row)
           \/ worker.at = "abort" /\ \E u \in worker.scan.rows : AbortUpload(u)
  BY DEF WorkerStep, Moves

LEMMA LifecycleInvStep == LifecycleInv /\ [LifecycleNext]_allVars => LifecycleInv'
  <1> SUFFICES ASSUME LifecycleInv, [LifecycleNext]_allVars PROVE LifecycleInv'
    OBVIOUS
  <1>0. /\ IndexInv /\ SerialInv /\ TypeOK /\ IssuedOK /\ ConfigsOK
        /\ IdsDiffer /\ WorkerOK /\ RowsStand
    BY TypeParts DEF LifecycleInv
  <1>1. TableStep
    BY <1>0, StepTables
  <1>2. IndexInv' /\ SerialInv' /\ TypeOK'
    BY <1>0, <1>1, IndexStep DEF IndexInv
  <1>3. IssuedOK' /\ IdsDiffer' /\ clock <= clock'
    BY <1>0, <1>1, VersionsStep, ClockGrows
  <1>4. ConfigsOK' /\ WorkerOK' /\ RowsStand'
    <2>1. CASE ClientStep \/ Tick \/ UNCHANGED allVars
      <3>1. ConfigsOK' /\ worker' = worker
        BY <1>0, <2>1, ConfigsStep
      <3> QED BY <1>0, <1>1, <1>2, <1>3, <3>1, WorkerStays, RowsStay
    <2>2. CASE Moves
      <3>1. /\ WorkerOK' /\ UNCHANGED <<index, issued, config, uploads>>
            /\ worker'.at \in {"idle", "bucket", "rule", "list", "expire", "uploads", "abort"}
            /\ worker'.at = "expire" => ListPage
        BY <1>0, <2>2, MovesWorker
      <3>2. CASE ListPage
        BY <1>0, <3>1, <3>2, RowsListed DEF ConfigsOK
      <3>3. CASE worker'.at # "expire"
        BY <1>0, <3>1, <3>3 DEF ConfigsOK, RowsStand
      <3> QED BY <3>1, <3>2, <3>3
    <2>3. ASSUME NEW row \in worker.scan.rows, worker.at = "expire", Expire(row)
          PROVE  ConfigsOK' /\ WorkerOK' /\ RowsStand'
      <3>1. /\ WorkerOK' /\ worker'.at = "expire" /\ worker'.b = worker.b
            /\ worker'.scan.rows = worker.scan.rows \ {row}
        BY <1>0, <1>2, <1>3, <2>3, ExpireWorker
      <3>2. RowsStand'
        BY <1>0, <1>1, <2>3, <3>1, RowsStay
      <3>3. ConfigsOK'
        BY <1>0, <2>3, <3>1 DEF Expire, ConfigsOK
      <3> QED BY <3>1, <3>2, <3>3
    <2>4. ASSUME NEW u \in worker.scan.rows, worker.at = "abort", AbortUpload(u)
          PROVE  ConfigsOK' /\ WorkerOK' /\ RowsStand'
      <3>1. WorkerOK' /\ worker'.at = "abort"
        BY <1>0, <2>4, AbortWorker
      <3> QED BY <1>0, <2>4, <3>1 DEF AbortUpload, ConfigsOK, RowsStand
    <2> QED BY <2>1, <2>2, <2>3, <2>4, WorkerCases DEF LifecycleNext
  <1>5. LifecycleTypeOK'
    BY <1>2, <1>3, <1>4 DEF LifecycleTypeOK, IssuedOK, ConfigsOK
  <1> QED BY <1>2, <1>3, <1>4, <1>5 DEF LifecycleInv

LEMMA LifecycleInvariant == LifecycleSpec => []LifecycleInv
  BY LifecycleInvInit, LifecycleInvStep, PTL DEF LifecycleSpec

\* Types of the tables, the uploads and the worker's state, and no version id
\* in a table that was not given out.
THEOREM LifecycleTypeCorrect == LifecycleSpec => []LifecycleTypeOK
  <1>1. LifecycleInv => LifecycleTypeOK
    BY DEF LifecycleInv
  <1> QED BY <1>1, LifecycleInvariant, PTL

-----------------------------------------------------------------------------
(***************************************************************************)
(* What the worker leaves alone.                                           *)
(***************************************************************************)
\* Buckets are created with versioning on, and nobody sets it to anything but
\* enabled or suspended.
AlwaysVersioned == Locks \subseteq {TRUE} /\ \A s \in Switches : s[2] # ""

\* Then every version has an id, "null" at least.
AllHaveIds ==
    /\ \A b \in Buckets : buckets[b] # ""
    /\ \A b \in Buckets, k \in Keys : \A m \in versions[b][k] : m.vid # ""
    /\ worker.at = "expire" => \A row \in worker.scan.rows : row.vid # ""

LEMMA AllHaveIdsInit == LifecycleInit => AllHaveIds
  <1> SUFFICES ASSUME LifecycleInit PROVE AllHaveIds
    OBVIOUS
  <1>1. \A b \in Buckets : buckets[b] # ""
    BY NoneAssumption DEF LifecycleInit, Init, Statuses
  <1>2. \A b \in Buckets, k \in Keys : versions[b][k] = {}
    BY DEF LifecycleInit, Init, NoVersions
  <1>3. worker.at = "idle"
    BY DEF LifecycleInit, Idle
  <1> QED BY <1>1, <1>2, <1>3 DEF AllHaveIds

LEMMA TablesHaveIds ==
    ASSUME AlwaysVersioned, TypeOK, AllHaveIds, TableStep
    PROVE  /\ \A b \in Buckets : buckets'[b] # ""
           /\ \A b \in Buckets, k \in Keys : \A m \in versions'[b][k] : m.vid # ""
  <1>1. CASE UNCHANGED <<buckets, versions>>
    BY <1>1 DEF AllHaveIds
  <1>2. ASSUME NEW b \in Buckets, Manages(b)
        PROVE  /\ \A c \in Buckets : buckets'[c] # ""
               /\ UNCHANGED versions
    <2>1. UNCHANGED versions
      BY <1>2 DEF Manages, CreateBucket, DeleteBucket, UpdateBucket
    <2>2. CASE \E lock \in Locks : CreateBucket(b, lock)
      BY <2>2 DEF AlwaysVersioned, CreateBucket, AllHaveIds, TypeOK
    <2>3. CASE DeleteBucket(b)
      BY <2>3, NoneAssumption DEF DeleteBucket, AllHaveIds, TypeOK, Statuses
    <2>4. CASE \E s \in Switches : UpdateBucket(b, s[2])
      BY <2>4 DEF AlwaysVersioned, UpdateBucket, AllHaveIds, TypeOK
    <2> QED BY <1>2, <2>1, <2>2, <2>3, <2>4 DEF Manages
  <1>3. ASSUME NEW b \in Buckets, NEW k \in Keys, Changes(b, k)
        PROVE  /\ UNCHANGED buckets
               /\ \A c \in Buckets, j \in Keys : \A m \in versions'[c][j] : m.vid # ""
    <2>1. CASE \E body \in Payloads : Write(b, k, body)
      <3>1. PICK body \in Payloads, vid \in Vids :
                NewVid(buckets[b], vid) /\ PutObject(b, k, Stamped(vid, body))
        BY <2>1 DEF Write
      <3>2. buckets[b] \in Statuses \ {""}
        BY <3>1 DEF PutObject, Exists, TypeOK, AllHaveIds
      <3>3. vid # ""
        BY <3>1, <3>2, UuidAssumption DEF NewVid, Statuses
      <3> DEFINE m0 == Stamped(vid, body)
      <3>4. m0 \in Meta /\ m0.vid = vid
        BY StampedFacts
      <3> HIDE DEF m0
      <3>5. /\ versions'[b][k] = WithVersion(versions[b][k], m0)
            /\ \A c \in Buckets, j \in Keys : ~(c = b /\ j = k) => versions'[c][j] = versions[c][j]
        BY <3>1, <3>4, PutFacts DEF m0
      <3>6. \A n \in versions'[b][k] : n = m0 \/ n \in versions[b][k]
        BY <3>5 DEF WithVersion
      <3>7. UNCHANGED buckets
        BY <3>1 DEF PutObject
      <3> QED BY <3>3, <3>4, <3>5, <3>6, <3>7 DEF AllHaveIds
    <2>2. CASE DeleteObject(b, k) \/ \E vid \in Vids : DeleteVersion(b, k, vid)
      <3>1. UNCHANGED buckets
        BY <2>2 DEF DeleteObject, DeleteVersion
      <3>2. /\ \A n \in versions'[b][k] :
                 \E m \in versions[b][k] : m.vid = n.vid /\ m.modified = n.modified
            /\ \A c \in Buckets, j \in Keys : ~(c = b /\ j = k) => versions'[c][j] = versions[c][j]
        BY <2>2, DeletionFacts
      <3>3. \A c \in Buckets, j \in Keys : \A m \in versions[c][j] : m.vid # ""
        BY DEF AllHaveIds
      <3>4. \A m \in versions'[b][k] : m.vid # ""
        BY <3>2, <3>3
      <3> QED BY <3>1, <3>2, <3>3, <3>4
    <2> QED BY <1>3, <2>1, <2>2 DEF Changes
  <1> QED BY <1>1, <1>2, <1>3 DEF TableStep, index, AllHaveIds

LEMMA AllHaveIdsStep ==
    ASSUME AlwaysVersioned, LifecycleInv, AllHaveIds, [LifecycleNext]_allVars
    PROVE  AllHaveIds'
  <1>0. /\ TypeOK /\ ConfigsOK /\ WorkerOK
    BY TypeParts DEF LifecycleInv
  <1>1. TableStep
    BY <1>0, StepTables
  <1>2. TypeOK' /\ clock <= clock'
    BY <1>0, <1>1, IndexStep, ClockGrows DEF LifecycleInv, IndexInv
  <1>3. worker'.at = "expire" => \A row \in worker'.scan.rows : row.vid # ""
    <2>1. CASE worker' = worker
      BY <2>1 DEF AllHaveIds
    <2>2. CASE ListPage
      <3>0. worker.at = "list" /\ AtWork
        BY <1>0, <2>2, Working DEF ListPage
      <3>1. CASE ~Exists(worker.b)
        <4>1. worker' = AfterExpiration
          BY <2>2, <3>1 DEF ListPage, Goto
        <4> QED BY <3>0, <4>1, AfterwardsOK
      <3>2. CASE Exists(worker.b)
        <4> DEFINE page == ListObjectVersions(versions[worker.b], Rule.prefix, FALSE,
                                              worker.scan.key, worker.scan.vid, PageVersions)
                   rows == {r \in page.rows : Expired(r.modified, worker.scan.cutoff)}
        <4>1. worker' = In("expire", [cutoff |-> worker.scan.cutoff, key |-> page.next,
                                      vid |-> page.nextVid, rows |-> rows])
          BY <2>2, <3>2 DEF ListPage, Goto
        <4>2. versions[worker.b] \in [Keys -> SUBSET Meta]
          BY <1>0, <3>0 DEF AtWork, TypeOK
        <4>3. \A r \in page.rows : r \in Listed /\ From(r, versions[worker.b])
          BY <4>2, PageRows, Zenon
        <4>4. worker'.scan.rows \subseteq page.rows
          <5> HIDE DEF page
          <5> QED BY <4>1 DEF In
        <4> HIDE DEF page, rows
        <4> QED BY <3>0, <4>3, <4>4 DEF From, AllHaveIds, AtWork, Listed
      <3> QED BY <3>1, <3>2
    <2>3. CASE Moves /\ ~ListPage
      BY <1>0, <2>3, MovesWorker
    <2>4. ASSUME NEW row \in worker.scan.rows, worker.at = "expire", Expire(row)
          PROVE  \A r \in worker'.scan.rows : r.vid # ""
      <3>1. worker'.scan.rows = worker.scan.rows \ {row}
        BY <1>0, <1>2, <2>4, ExpireWorker
      <3> QED BY <2>4, <3>1 DEF AllHaveIds
    <2>5. ASSUME NEW u \in worker.scan.rows, AbortUpload(u)
          PROVE  worker'.at = "abort"
      BY <1>0, <2>5, AbortWorker
    <2>6. CASE ClientStep \/ Tick \/ UNCHANGED allVars
      BY <1>0, <2>1, <2>6, ConfigsStep
    <2> QED BY <2>2, <2>3, <2>4, <2>5, <2>6, WorkerCases DEF LifecycleNext
  <1>4. QED
    BY <1>0, <1>1, <1>3, TablesHaveIds DEF AllHaveIds

\* What a deletion of one version by the worker leaves.
Spared(b, k) ==
    /\ \A m \in versions[b][k] :
        m.vid \in Uuids /\ m.vid \notin VidsOf(versions'[b][k]) => m.modified < clock - Rule.days
    /\ LET m == objects[b][k]
       IN  m # None /\ m.vid \in Uuids /\ m.modified >= clock - Rule.days =>
            VidOf(objects'[b][k]) = m.vid

LEMMA ExpireSpares ==
    ASSUME LifecycleInv, AllHaveIds, worker.at = "expire", NEW row \in worker.scan.rows, Expire(row),
           NEW b \in Buckets, NEW k \in Keys
    PROVE  Spared(b, k)
  <1> USE DEF Spared
  <1>0. TypeOK /\ WorkerOK /\ HeadIsStored /\ HeadIsNewest /\ StampsDiffer
    BY DEF LifecycleInv, IndexInv, SerialInv
  <1>1. CASE UNCHANGED <<objects, versions>>
    BY <1>1 DEF VidsOf, VidOf
  <1>2. CASE DeleteVersion(worker.b, row.key, row.vid)
    <2> DEFINE rest == {m \in versions[worker.b][row.key] : m.vid # row.vid}
    <2>1. /\ worker.b \in Buckets /\ row.key \in Keys /\ row.vid \in Vids
          /\ row.modified \in Int /\ row.modified < worker.scan.cutoff
          /\ worker.scan.cutoff \in Int /\ worker.scan.cutoff <= clock - Rule.days
      BY <1>0, ClockAssumption DEF WorkerOK, AtRule, AtDeletion, AtExpiration, Listed
    <2>2. clock \in Int /\ Rule.days \in Int
      BY <1>0, Working, RuleFacts, ClockAssumption DEF TypeOK
    <2>3. row.modified < clock - Rule.days
      BY <2>1, <2>2
    <2>4. \/ rest = {} /\ objects' = [objects EXCEPT ![worker.b][row.key] = None]
          \/ \E m \in Newest(rest) :
                /\ objects' = [objects EXCEPT ![worker.b][row.key] = Promoted(m)]
                /\ versions' = [versions EXCEPT ![worker.b][row.key] = WithVersion(rest, Promoted(m))]
      BY <1>2 DEF DeleteVersion
    <2>6. CASE ~(b = worker.b /\ k = row.key)
      <3>1. versions'[b][k] = versions[b][k] /\ objects'[b][k] = objects[b][k]
        <4>1. versions'[b][k] = versions[b][k]
          BY <1>0, <1>2, <2>1, <2>6, DeletionFacts
        <4>2. objects'[b][k] = objects[b][k]
          <5>1. PICK h : objects' = [objects EXCEPT ![worker.b][row.key] = h]
            BY <2>4
          <5> QED BY <1>0, <2>1, <2>6, <5>1 DEF TypeOK
        <4> QED BY <4>1, <4>2
      <3> QED BY <3>1 DEF VidsOf, VidOf
    <2>7. CASE b = worker.b /\ k = row.key
      <3>1. \A m \in versions[b][k] :
                m.vid \in Uuids /\ m.vid = row.vid => m.modified < clock - Rule.days
        BY <2>3, <2>7 DEF LifecycleInv, RowsStand
      <3>2. rest \subseteq Meta
        BY <1>0, <2>1 DEF TypeOK
      <3>3. \A m \in rest : m.vid \in VidsOf(versions'[b][k])
        <4>1. CASE rest = {}
          BY <4>1
        <4>2. ASSUME NEW m \in Newest(rest),
                     versions' = [versions EXCEPT ![worker.b][row.key] = WithVersion(rest, Promoted(m))]
              PROVE  \A n \in rest : n.vid \in VidsOf(versions'[b][k])
          <5>1. versions'[b][k] = WithVersion(rest, Promoted(m))
            BY <1>0, <2>1, <2>7, <4>2 DEF TypeOK
          <5>2. m \in Meta
            BY <3>2 DEF Newest
          <5>3. Promoted(m).vid = m.vid
            BY <5>2, PromotedMeta
          <5> QED BY <5>1, <5>3 DEF WithVersion, VidsOf
        <4> QED BY <2>4, <4>1, <4>2
      <3>4. \A m \in versions[b][k] :
                m.vid \in Uuids /\ m.vid \notin VidsOf(versions'[b][k]) => m.modified < clock - Rule.days
        BY <2>7, <3>1, <3>3
      <3>5. ASSUME objects[b][k] # None, objects[b][k].vid \in Uuids,
                   objects[b][k].modified >= clock - Rule.days
            PROVE  VidOf(objects'[b][k]) = objects[b][k].vid
        <4>1. objects[b][k] \in versions[b][k] /\ objects[b][k] \in Meta
          BY <1>0, <3>5 DEF HeadIsStored, TypeOK
        <4>2. objects[b][k].modified \in Int
          BY <4>1, ClockAssumption DEF Meta
        <4>3. objects[b][k].vid # row.vid
          BY <2>2, <3>1, <3>5, <4>1, <4>2
        <4>4. objects[b][k] \in rest
          BY <2>7, <4>1, <4>3
        <4>5. PICK m \in Newest(rest) : objects' = [objects EXCEPT ![worker.b][row.key] = Promoted(m)]
          BY <2>4, <4>4
        <4>6. m \in versions[b][k] /\ m \in Meta /\ objects[b][k].modified <= m.modified
          BY <2>7, <3>2, <4>4 DEF Newest
        <4>7. m.modified <= objects[b][k].modified
          BY <1>0, <4>6 DEF HeadIsNewest
        <4>8. m.modified \in Int
          BY <4>6, ClockAssumption DEF Meta
        <4>9. m.vid = objects[b][k].vid
          BY <1>0, <4>1, <4>2, <4>6, <4>7, <4>8 DEF StampsDiffer
        <4>10. objects'[b][k] = Promoted(m)
          BY <1>0, <2>1, <2>7, <4>5 DEF TypeOK
        <4>11. Promoted(m) # None /\ Promoted(m).vid = m.vid
          BY <4>6, PromotedMeta, NoneAssumption
        <4> QED BY <4>9, <4>10, <4>11 DEF VidOf
      <3> QED BY <3>4, <3>5
    <2> QED BY <2>6, <2>7
  <1>3. row.vid # ""
    BY DEF AllHaveIds
  <1> QED BY <1>1, <1>2, <1>3 DEF Expire, RemoveObject, index

\* In buckets that have always been versioned, the worker removes a version
\* with an id of its own only when the rule says so, and a younger current
\* object stays current, whatever clients do between the listing of a page
\* and its deletions (lifecycle.go:68-116).
THEOREM FreshVersionsStay ==
    ASSUME AlwaysVersioned
    PROVE  LifecycleSpec => FreshStays
  <1> DEFINE Step == worker.at = "expire" /\ worker' # worker =>
                        \A b \in Buckets, k \in Keys : Spared(b, k)
  <1>1. LifecycleInv /\ AllHaveIds /\ [LifecycleNext]_allVars => AllHaveIds'
    BY AllHaveIdsStep
  <1>2. LifecycleInv /\ AllHaveIds /\ [LifecycleNext]_allVars => [Step]_allVars
    <2> SUFFICES ASSUME LifecycleInv, AllHaveIds, LifecycleNext, worker.at = "expire", worker' # worker,
                        NEW b \in Buckets, NEW k \in Keys
                 PROVE  Spared(b, k)
      OBVIOUS
    <2>0. TypeOK /\ ConfigsOK /\ WorkerOK
      BY TypeParts DEF LifecycleInv
    <2>1. CASE ClientStep \/ Tick
      BY <2>0, <2>1, ConfigsStep
    <2>2. CASE Moves
      <3>1. UNCHANGED <<objects, versions>>
        BY <2>0, <2>2, MovesWorker DEF index
      <3> QED BY <3>1 DEF Spared, VidsOf, VidOf
    <2>3. CASE \E row \in worker.scan.rows : Expire(row)
      BY <2>3, ExpireSpares
    <2> QED BY <2>1, <2>2, <2>3, WorkerCases DEF LifecycleNext
  <1>3. FreshStays <=> [][Step]_allVars
    BY PTL DEF FreshStays, Spared
  <1> QED BY <1>1, <1>2, <1>3, AllHaveIdsInit, LifecycleInvariant, PTL DEF LifecycleSpec

=============================================================================
