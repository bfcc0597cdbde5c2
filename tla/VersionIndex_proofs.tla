------------------------ MODULE VersionIndex_proofs ------------------------
(***************************************************************************)
(* Theorems about VersionIndex, for any sets of buckets, keys, version ids *)
(* and payloads.                                                           *)
(***************************************************************************)
EXTENDS VersionIndex, TLAPS

\* Every head is marked latest or has no version id.
HeadsAreCopyable ==
    \A b \in Buckets, k \in Keys : objects[b][k] # None => BecomesHead(objects[b][k])

\* The inductive invariant.  HeadIsStored needs HeadsAreCopyable to know that
\* a write that replaces the head's version record also replaces the head;
\* GoneBucketsHoldNothing needs NoHiddenVersions, because DeleteBucket looks
\* at the heads only.
IndexInv ==
    /\ TypeOK
    /\ HeadIsStored
    /\ NoHiddenVersions
    /\ HeadsAreCopyable
    /\ GoneBucketsHoldNothing

LEMMA InitEstablishes == Init => IndexInv
  <1> SUFFICES ASSUME Init PROVE IndexInv
    OBVIOUS
  <1>1. TypeOK
    BY ClockAssumption DEF Init, TypeOK, NoObjects, NoVersions
  <1>2. QED
    BY <1>1 DEF Init, IndexInv, HeadIsStored, NoHiddenVersions, HeadsAreCopyable,
                GoneBucketsHoldNothing, NoObjects, NoVersions

\* CreateBucket and UpdateBucket leave both object tables alone.
LEMMA StatusChange ==
  ASSUME IndexInv, NEW b \in Buckets, NEW s \in Statuses,
         buckets' = [buckets EXCEPT ![b] = s],
         UNCHANGED <<objects, versions, clock>>
  PROVE  IndexInv'
  <1>1. TypeOK'
    BY DEF IndexInv, TypeOK
  <1>2. \A c \in Buckets : ~Exists(c)' => ~Exists(c)
    BY NoneAssumption DEF IndexInv, TypeOK, Exists
  <1>3. GoneBucketsHoldNothing'
    BY <1>2 DEF IndexInv, GoneBucketsHoldNothing
  <1>4. QED
    BY <1>1, <1>3 DEF IndexInv, HeadIsStored, NoHiddenVersions, HeadsAreCopyable

LEMMA CreateBucketStep ==
  ASSUME IndexInv, NEW b \in Buckets, NEW objectLock \in BOOLEAN,
         CreateBucket(b, objectLock)
  PROVE  IndexInv'
  BY StatusChange DEF CreateBucket, Statuses

LEMMA UpdateBucketStep ==
  ASSUME IndexInv, NEW b \in Buckets, NEW s \in Statuses, UpdateBucket(b, s)
  PROVE  IndexInv'
  BY StatusChange DEF UpdateBucket

\* The emptiness test on the heads is a test on the versions.
LEMMA NoHeadsNoVersions ==
  ASSUME IndexInv, NEW b \in Buckets, objects[b] = NoObjects
  PROVE  \A k \in Keys : versions[b][k] = {}
  BY DEF IndexInv, NoHiddenVersions, NoObjects

LEMMA DeleteBucketStep ==
  ASSUME IndexInv, NEW b \in Buckets, DeleteBucket(b)
  PROVE  IndexInv'
  <1>1. TypeOK'
    BY DEF IndexInv, TypeOK, DeleteBucket
  <1>2. \A c \in Buckets : c # b => Exists(c)' = Exists(c)
    BY DEF IndexInv, TypeOK, DeleteBucket, Exists
  <1>3. \A k \in Keys : versions[b][k] = {}
    BY NoHeadsNoVersions DEF DeleteBucket
  <1>4. GoneBucketsHoldNothing'
    BY <1>2, <1>3 DEF IndexInv, GoneBucketsHoldNothing, DeleteBucket
  <1>5. QED
    BY <1>1, <1>4 DEF IndexInv, HeadIsStored, NoHiddenVersions, HeadsAreCopyable,
                      DeleteBucket

\* A step that replaces the head and the version set of one key of an
\* existing bucket, and leaves the two consistent.
LEMMA KeyUpdate ==
  ASSUME IndexInv,
         NEW b \in Buckets, NEW k \in Keys, Exists(b),
         NEW h \in Meta \cup {None}, NEW S \in SUBSET Meta,
         h # None => h \in S /\ BecomesHead(h),
         S # {} => h # None,
         objects' = [objects EXCEPT ![b][k] = h],
         versions' = [versions EXCEPT ![b][k] = S],
         clock' \in 0..MaxClock,
         UNCHANGED buckets
  PROVE  IndexInv'
  <1>1. TypeOK'
    BY DEF IndexInv, TypeOK
  <1>2. /\ objects'[b][k] = h
        /\ versions'[b][k] = S
        /\ \A c \in Buckets, j \in Keys :
              ~(c = b /\ j = k) => /\ objects'[c][j] = objects[c][j]
                                   /\ versions'[c][j] = versions[c][j]
    BY DEF IndexInv, TypeOK
  <1>3. HeadIsStored'
    BY <1>2 DEF IndexInv, HeadIsStored
  <1>4. NoHiddenVersions'
    BY <1>2 DEF IndexInv, NoHiddenVersions
  <1>5. HeadsAreCopyable'
    BY <1>2 DEF IndexInv, HeadsAreCopyable
  <1>6. GoneBucketsHoldNothing'
    BY <1>2 DEF IndexInv, GoneBucketsHoldNothing, Exists
  <1>7. QED
    BY <1>1, <1>3, <1>4, <1>5, <1>6 DEF IndexInv

LEMMA PutObjectStep ==
  ASSUME IndexInv, NEW b \in Buckets, NEW k \in Keys, NEW m \in Written,
         PutObject(b, k, m)
  PROVE  IndexInv'
  <1> DEFINE S == WithVersion(versions[b][k], m)
  <1>1. m \in Meta /\ BecomesHead(m) /\ m # None
    BY NoneAssumption DEF Written
  <1>2. S \in SUBSET Meta /\ m \in S
    BY <1>1 DEF WithVersion, IndexInv, TypeOK
  <1>3. clock' \in 0..MaxClock
    BY ClockAssumption DEF PutObject, IndexInv, TypeOK
  <1>4. /\ objects' = [objects EXCEPT ![b][k] = m]
        /\ versions' = [versions EXCEPT ![b][k] = S]
        /\ UNCHANGED buckets
        /\ Exists(b)
    BY <1>1 DEF PutObject
  <1> HIDE DEF S
  <1>5. QED
    BY <1>1, <1>2, <1>3, <1>4, KeyUpdate

LEMMA DeleteObjectStep ==
  ASSUME IndexInv, NEW b \in Buckets, NEW k \in Keys, DeleteObject(b, k)
  PROVE  IndexInv'
  <1>1. clock' \in 0..MaxClock
    BY DEF DeleteObject, IndexInv, TypeOK
  <1>2. /\ objects' = [objects EXCEPT ![b][k] = None]
        /\ versions' = [versions EXCEPT ![b][k] = {}]
        /\ UNCHANGED buckets
        /\ Exists(b)
    BY DEF DeleteObject
  <1>3. None \in Meta \cup {None} /\ {} \in SUBSET Meta
    OBVIOUS
  <1>4. QED
    BY <1>1, <1>2, <1>3, KeyUpdate

LEMMA PromotedMeta ==
  ASSUME NEW m \in Meta
  PROVE  /\ Promoted(m) \in Meta
         /\ Promoted(m).vid = m.vid
         /\ Promoted(m).modified = m.modified
         /\ BecomesHead(Promoted(m))
  BY DEF Promoted, Meta, BecomesHead

LEMMA DeleteVersionStep ==
  ASSUME IndexInv, NEW b \in Buckets, NEW k \in Keys, NEW vid \in Vids,
         DeleteVersion(b, k, vid)
  PROVE  IndexInv'
  <1> DEFINE rest == {m \in versions[b][k] : m.vid # vid}
  <1>1. rest \in SUBSET Meta
    BY DEF IndexInv, TypeOK
  <1>2. clock' \in 0..MaxClock /\ UNCHANGED buckets /\ Exists(b)
    BY DEF DeleteVersion, IndexInv, TypeOK
  <1>3. CASE /\ rest = {}
             /\ objects' = [objects EXCEPT ![b][k] = None]
             /\ versions' = [versions EXCEPT ![b][k] = {}]
    BY <1>2, <1>3, KeyUpdate
  <1>4. CASE \E m \in Newest(rest) :
                /\ objects' = [objects EXCEPT ![b][k] = Promoted(m)]
                /\ versions' = [versions EXCEPT ![b][k] = WithVersion(rest, Promoted(m))]
    <2>1. PICK m \in Newest(rest) :
                /\ objects' = [objects EXCEPT ![b][k] = Promoted(m)]
                /\ versions' = [versions EXCEPT ![b][k] = WithVersion(rest, Promoted(m))]
      BY <1>4
    <2> DEFINE S == WithVersion(rest, Promoted(m))
    <2>2. m \in Meta
      BY <1>1 DEF Newest
    <2>3. Promoted(m) \in Meta /\ BecomesHead(Promoted(m)) /\ Promoted(m) # None
      BY <2>2, PromotedMeta, NoneAssumption
    <2>4. S \in SUBSET Meta /\ Promoted(m) \in S
      BY <1>1, <2>3 DEF WithVersion
    <2>5. versions' = [versions EXCEPT ![b][k] = S]
      BY <2>1
    <2> HIDE DEF S
    <2>6. QED
      BY <1>2, <2>1, <2>3, <2>4, <2>5, KeyUpdate
  <1>5. QED
    BY <1>3, <1>4 DEF DeleteVersion

LEMMA StepPreserves == IndexInv /\ [Next]_vars => IndexInv'
  <1> SUFFICES ASSUME IndexInv, [Next]_vars PROVE IndexInv'
    OBVIOUS
  <1>1. ASSUME NEW b \in Buckets, NEW objectLock \in BOOLEAN, CreateBucket(b, objectLock)
        PROVE  IndexInv'
    BY <1>1, CreateBucketStep
  <1>2. ASSUME NEW b \in Buckets, DeleteBucket(b) PROVE IndexInv'
    BY <1>2, DeleteBucketStep
  <1>3. ASSUME NEW b \in Buckets, NEW s \in Statuses, UpdateBucket(b, s) PROVE IndexInv'
    BY <1>3, UpdateBucketStep
  <1>4. ASSUME NEW b \in Buckets, NEW k \in Keys, DeleteObject(b, k) PROVE IndexInv'
    BY <1>4, DeleteObjectStep
  <1>5. ASSUME NEW b \in Buckets, NEW k \in Keys, NEW vid \in Vids, DeleteVersion(b, k, vid)
        PROVE  IndexInv'
    BY <1>5, DeleteVersionStep
  <1>6. ASSUME NEW b \in Buckets, NEW k \in Keys, NEW m \in Written, PutObject(b, k, m)
        PROVE  IndexInv'
    BY <1>6, PutObjectStep
  <1>7. CASE UNCHANGED vars
    BY <1>7 DEF vars, IndexInv, TypeOK, HeadIsStored, NoHiddenVersions,
                HeadsAreCopyable, GoneBucketsHoldNothing, Exists
  <1>8. QED
    BY <1>1, <1>2, <1>3, <1>4, <1>5, <1>6, <1>7 DEF Next, BucketStep, DeleteStep

\* In every reachable state the two object tables are well typed and agree with
\* each other: the conjunction of the properties below.
THEOREM IndexInvariant == Spec => []IndexInv
  BY InitEstablishes, StepPreserves, PTL DEF Spec

\* Type correctness of the metadata tables.
THEOREM TypeCorrect == Spec => []TypeOK
  <1>1. IndexInv => TypeOK
    BY DEF IndexInv
  <1>2. QED
    BY <1>1, IndexInvariant, PTL

\* The record a plain GET resolves to is the record stored for its version id,
\* whatever mixture of PUT, copy, DELETE and DELETE ?versionId ran before.
THEOREM HeadAlwaysStored == Spec => []HeadIsStored
  <1>1. IndexInv => HeadIsStored
    BY DEF IndexInv
  <1>2. QED
    BY <1>1, IndexInvariant, PTL

\* No key has versions hidden behind a missing head: what ListObjectVersions
\* shows as stored, a plain GET finds something of (bbolt.go:486-601).
THEOREM NoVersionsHidden == Spec => []NoHiddenVersions
  <1>1. IndexInv => NoHiddenVersions
    BY DEF IndexInv
  <1>2. QED
    BY <1>1, IndexInvariant, PTL

\* No version outlives its bucket, although DeleteBucket never drops the
\* versions table: a bucket created again under the same name starts empty.
THEOREM NoGhostVersions == Spec => []GoneBucketsHoldNothing
  <1>1. IndexInv => GoneBucketsHoldNothing
    BY DEF IndexInv
  <1>2. QED
    BY <1>1, IndexInvariant, PTL

-----------------------------------------------------------------------------
(***************************************************************************)
(* One request at a time.  Stamps then grow with every write, which ties   *)
(* the choice DeleteVersion makes to the order of the writes.              *)
(***************************************************************************)
StampsArePast ==
    \A b \in Buckets, k \in Keys : \A m \in versions[b][k] : m.modified < clock

StampsDiffer ==
    \A b \in Buckets, k \in Keys : \A m, n \in versions[b][k] :
        m.modified = n.modified => m.vid = n.vid

SerialInv == StampsArePast /\ StampsDiffer /\ HeadIsNewest

LEMMA SerialStepIsStep == [SerialNext]_vars => [Next]_vars
  BY DEF SerialNext, Next

LEMMA SerialIndexInvariant == SerialSpec => []IndexInv
  BY InitEstablishes, StepPreserves, SerialStepIsStep, PTL DEF SerialSpec

LEMMA SerialInit == Init => SerialInv
  BY DEF Init, SerialInv, StampsArePast, StampsDiffer, HeadIsNewest, NoObjects, NoVersions

\* A step that gives one key a new head and version set, as in KeyUpdate.
LEMMA SerialKeyUpdate ==
  ASSUME IndexInv, SerialInv,
         NEW b \in Buckets, NEW k \in Keys,
         NEW h \in Meta \cup {None}, NEW S \in SUBSET Meta,
         \A m \in S : m.modified < clock' /\ m.modified <= h.modified,
         \A m, n \in S : m.modified = n.modified => m.vid = n.vid,
         objects' = [objects EXCEPT ![b][k] = h],
         versions' = [versions EXCEPT ![b][k] = S],
         clock' \in Nat, clock <= clock'
  PROVE  SerialInv'
  <1>1. /\ objects'[b][k] = h
        /\ versions'[b][k] = S
        /\ \A c \in Buckets, j \in Keys :
              ~(c = b /\ j = k) => /\ objects'[c][j] = objects[c][j]
                                   /\ versions'[c][j] = versions[c][j]
    BY DEF IndexInv, TypeOK
  <1>2. \A c \in Buckets, j \in Keys : \A m \in versions[c][j] : m.modified < clock'
    BY ClockAssumption DEF IndexInv, TypeOK, SerialInv, StampsArePast, Meta
  <1>3. StampsArePast'
    BY <1>1, <1>2 DEF StampsArePast
  <1>4. StampsDiffer'
    BY <1>1 DEF SerialInv, StampsDiffer
  <1>5. HeadIsNewest'
    BY <1>1 DEF SerialInv, HeadIsNewest
  <1>6. QED
    BY <1>3, <1>4, <1>5 DEF SerialInv

LEMMA SerialPut ==
  ASSUME IndexInv, SerialInv, NEW b \in Buckets, NEW k \in Keys, NEW m \in Written,
         m.modified = clock, PutObject(b, k, m)
  PROVE  SerialInv'
  <1> DEFINE S == WithVersion(versions[b][k], m)
  <1>1. m \in Meta /\ BecomesHead(m)
    BY DEF Written
  <1>2. /\ objects' = [objects EXCEPT ![b][k] = m]
        /\ versions' = [versions EXCEPT ![b][k] = S]
        /\ clock \in Nat
        /\ clock' = clock + 1
    BY <1>1, ClockAssumption DEF PutObject, IndexInv, TypeOK
  <1>3. S \in SUBSET Meta
    BY <1>1 DEF WithVersion, IndexInv, TypeOK
  <1>4. \A n \in S : n.modified \in Nat /\ (n = m \/ n.modified < clock)
    BY <1>1, ClockAssumption DEF WithVersion, SerialInv, StampsArePast, IndexInv, TypeOK, Meta
  <1>5. \A n \in S : n.modified < clock' /\ n.modified <= m.modified
    BY <1>2, <1>4
  <1>6. \A n, o \in S : n # m /\ o # m => n \in versions[b][k] /\ o \in versions[b][k]
    BY DEF WithVersion
  <1>7. \A n, o \in S : n.modified = o.modified => n.vid = o.vid
    BY <1>2, <1>4, <1>6 DEF SerialInv, StampsDiffer
  <1>8. clock' \in Nat /\ clock <= clock' /\ m \in Meta \cup {None}
    BY <1>1, <1>2
  <1> HIDE DEF S
  <1>9. QED
    BY <1>2, <1>3, <1>5, <1>7, <1>8, SerialKeyUpdate

LEMMA SerialDeleteObject ==
  ASSUME IndexInv, SerialInv, NEW b \in Buckets, NEW k \in Keys, DeleteObject(b, k)
  PROVE  SerialInv'
  <1>1. /\ objects' = [objects EXCEPT ![b][k] = None]
        /\ versions' = [versions EXCEPT ![b][k] = {}]
        /\ clock' \in Nat /\ clock <= clock'
    BY ClockAssumption DEF DeleteObject, IndexInv, TypeOK
  <1>2. /\ None \in Meta \cup {None} /\ {} \in SUBSET Meta
        /\ \A m \in {} : m.modified < clock' /\ m.modified <= None.modified
        /\ \A m, n \in {} : m.modified = n.modified => m.vid = n.vid
    OBVIOUS
  <1>3. QED
    BY <1>1, <1>2, SerialKeyUpdate

LEMMA SerialDeleteVersion ==
  ASSUME IndexInv, SerialInv, NEW b \in Buckets, NEW k \in Keys, NEW vid \in Vids,
         DeleteVersion(b, k, vid)
  PROVE  SerialInv'
  <1> DEFINE rest == {m \in versions[b][k] : m.vid # vid}
  <1>1. rest \in SUBSET Meta /\ rest \in SUBSET versions[b][k]
    BY DEF IndexInv, TypeOK
  <1>2. clock' = clock /\ clock' \in Nat /\ clock <= clock'
    BY ClockAssumption DEF DeleteVersion, IndexInv, TypeOK
  <1>3. CASE /\ rest = {}
             /\ objects' = [objects EXCEPT ![b][k] = None]
             /\ versions' = [versions EXCEPT ![b][k] = {}]
    <2>1. /\ None \in Meta \cup {None} /\ {} \in SUBSET Meta
          /\ \A m \in {} : m.modified < clock' /\ m.modified <= None.modified
          /\ \A m, n \in {} : m.modified = n.modified => m.vid = n.vid
      OBVIOUS
    <2>2. QED
      BY <1>2, <1>3, <2>1, SerialKeyUpdate
  <1>4. CASE \E m \in Newest(rest) :
                /\ objects' = [objects EXCEPT ![b][k] = Promoted(m)]
                /\ versions' = [versions EXCEPT ![b][k] = WithVersion(rest, Promoted(m))]
    <2>1. PICK m \in Newest(rest) :
                /\ objects' = [objects EXCEPT ![b][k] = Promoted(m)]
                /\ versions' = [versions EXCEPT ![b][k] = WithVersion(rest, Promoted(m))]
      BY <1>4
    <2> DEFINE S == WithVersion(rest, Promoted(m))
    <2>2. m \in rest /\ m \in Meta /\ \A n \in rest : n.modified <= m.modified
      BY <1>1 DEF Newest
    <2>3. Promoted(m) \in Meta /\ Promoted(m).vid = m.vid /\ Promoted(m).modified = m.modified
      BY <2>2, PromotedMeta
    <2>4. S \in SUBSET Meta
      BY <1>1, <2>3 DEF WithVersion
    <2>5. \A n \in S : \E o \in rest : o.vid = n.vid /\ o.modified = n.modified
      BY <2>2, <2>3 DEF WithVersion
    <2>6. \A n \in S : n.modified < clock' /\ n.modified <= Promoted(m).modified
      BY <1>1, <1>2, <2>2, <2>3, <2>5 DEF SerialInv, StampsArePast
    <2>7. \A n, o \in S : n.modified = o.modified => n.vid = o.vid
      BY <1>1, <2>5 DEF SerialInv, StampsDiffer
    <2>8. versions' = [versions EXCEPT ![b][k] = S]
      BY <2>1
    <2> DEFINE h == Promoted(m)
    <2>9. /\ h \in Meta \cup {None}
          /\ objects' = [objects EXCEPT ![b][k] = h]
          /\ \A n \in S : n.modified < clock' /\ n.modified <= h.modified
      BY <2>1, <2>3, <2>6
    <2> HIDE DEF S, h
    <2>10. QED
      BY <1>2, <2>4, <2>7, <2>8, <2>9, SerialKeyUpdate
  <1>5. QED
    BY <1>3, <1>4 DEF DeleteVersion

LEMMA SerialUntouched ==
  ASSUME IndexInv, SerialInv, UNCHANGED <<objects, versions, clock>>
  PROVE  SerialInv'
  BY DEF SerialInv, StampsArePast, StampsDiffer, HeadIsNewest

LEMMA SerialStep == IndexInv /\ SerialInv /\ [SerialNext]_vars => SerialInv'
  <1> SUFFICES ASSUME IndexInv, SerialInv, [SerialNext]_vars PROVE SerialInv'
    OBVIOUS
  <1>1. ASSUME NEW b \in Buckets, BucketStep(b) PROVE SerialInv'
    BY <1>1, SerialUntouched DEF BucketStep, CreateBucket, DeleteBucket, UpdateBucket
  <1>2. ASSUME NEW b \in Buckets, NEW k \in Keys, DeleteStep(b, k) PROVE SerialInv'
    BY <1>2, SerialDeleteObject, SerialDeleteVersion DEF DeleteStep
  <1>3. ASSUME NEW b \in Buckets, NEW k \in Keys, NEW m \in Written,
               m.modified = clock, PutObject(b, k, m)
        PROVE  SerialInv'
    BY <1>3, SerialPut
  <1>4. CASE UNCHANGED vars
    BY <1>4, SerialUntouched DEF vars
  <1>5. QED
    BY <1>1, <1>2, <1>3, <1>4 DEF SerialNext

LEMMA SerialInvariant == SerialSpec => []SerialInv
  BY SerialInit, SerialStep, SerialIndexInvariant, PTL DEF SerialSpec

\* With requests one at a time, a plain GET resolves to the newest version that
\* is left, however many versions were deleted by id before.
THEOREM SerialHeadIsNewest == SerialSpec => []HeadIsNewest
  <1>1. SerialInv => HeadIsNewest
    BY DEF SerialInv
  <1>2. QED
    BY <1>1, SerialInvariant, PTL

LEMMA SerialHeadMove ==
  ASSUME IndexInv, SerialInv, SerialNext, NEW b \in Buckets, NEW k \in Keys
  PROVE  HeadMove(b, k)
  <1> SUFFICES ASSUME objects[b][k] # None, objects'[b][k] # None,
                      objects'[b][k].vid # objects[b][k].vid
               PROVE  \/ objects'[b][k].modified > objects[b][k].modified
                      \/ \A m \in versions'[b][k] : m.vid # objects[b][k].vid
    BY DEF HeadMove
  <1>1. objects[b][k] \in versions[b][k] /\ objects[b][k] \in Meta
    BY DEF IndexInv, TypeOK, HeadIsStored
  <1>2. PICK c \in Buckets : BucketStep(c) \/ \E j \in Keys :
              DeleteStep(c, j) \/ \E m \in Written : m.modified = clock /\ PutObject(c, j, m)
    BY DEF SerialNext
  <1>3. CASE BucketStep(c)
    BY <1>3 DEF BucketStep, CreateBucket, DeleteBucket, UpdateBucket
  <1>4. CASE \E j \in Keys : \E m \in Written : m.modified = clock /\ PutObject(c, j, m)
    <2>1. PICK j \in Keys, m \in Written : m.modified = clock /\ PutObject(c, j, m)
      BY <1>4
    <2>2. m \in Meta /\ objects' = [objects EXCEPT ![c][j] = m]
      BY <2>1 DEF Written, PutObject
    <2>3. c = b /\ j = k /\ objects'[b][k] = m
      BY <2>2 DEF IndexInv, TypeOK
    <2>4. objects[b][k].modified < clock
      BY <1>1 DEF SerialInv, StampsArePast
    <2>5. QED
      BY <1>1, <2>1, <2>2, <2>3, <2>4, ClockAssumption DEF Meta
  <1>5. CASE \E j \in Keys : DeleteStep(c, j)
    <2>1. PICK j \in Keys : DeleteStep(c, j)
      BY <1>5
    <2>2. CASE DeleteObject(c, j)
      BY <2>2 DEF DeleteObject, IndexInv, TypeOK
    <2>3. CASE \E vid \in Vids : DeleteVersion(c, j, vid)
      <3>1. PICK vid \in Vids : DeleteVersion(c, j, vid)
        BY <2>3
      <3> DEFINE rest == {m \in versions[c][j] : m.vid # vid}
      <3>2. CASE objects' = [objects EXCEPT ![c][j] = None]
        BY <3>2 DEF IndexInv, TypeOK
      <3>3. CASE \E m \in Newest(rest) :
                    /\ objects' = [objects EXCEPT ![c][j] = Promoted(m)]
                    /\ versions' = [versions EXCEPT ![c][j] = WithVersion(rest, Promoted(m))]
        <4>1. PICK m \in Newest(rest) :
                    /\ objects' = [objects EXCEPT ![c][j] = Promoted(m)]
                    /\ versions' = [versions EXCEPT ![c][j] = WithVersion(rest, Promoted(m))]
          BY <3>3
        <4>2. /\ m \in rest /\ m \in versions[c][j] /\ m \in Meta
              /\ \A n \in rest : n.modified <= m.modified
          BY DEF Newest, IndexInv, TypeOK
        <4>3. /\ c = b /\ j = k
              /\ objects'[b][k].vid = m.vid
              /\ versions'[b][k] = WithVersion(rest, Promoted(m))
          BY <4>1, <4>2, PromotedMeta DEF IndexInv, TypeOK
        <4>4. CASE objects[b][k].vid = vid
          BY <4>2, <4>3, <4>4, PromotedMeta DEF WithVersion
        <4>5. CASE objects[b][k].vid # vid
          <5>1. objects[b][k] \in rest
            BY <1>1, <4>3, <4>5
          <5>2. /\ m.modified \in Nat /\ objects[b][k].modified \in Nat
                /\ objects[b][k].modified <= m.modified
            BY <1>1, <4>2, <5>1, ClockAssumption DEF Meta
          <5>3. m.modified <= objects[b][k].modified
            BY <4>2, <4>3 DEF SerialInv, HeadIsNewest
          <5>4. m.modified = objects[b][k].modified
            BY <5>2, <5>3
          <5>5. m.vid = objects[b][k].vid
            BY <1>1, <4>2, <4>3, <5>4 DEF SerialInv, StampsDiffer
          <5>6. QED
            BY <4>3, <5>5
        <4>6. QED
          BY <4>4, <4>5
      <3>4. QED
        BY <3>1, <3>2, <3>3 DEF DeleteVersion
    <2>4. QED
      BY <2>1, <2>2, <2>3 DEF DeleteStep
  <1>6. QED
    BY <1>2, <1>3, <1>4, <1>5

\* With requests one at a time, no DELETE ?versionId of an old version changes
\* what GET returns: only a newer write or the loss of the head does.
THEOREM SerialHeadMoves == SerialSpec => HeadMovesForCause
  <1>1. IndexInv /\ SerialInv /\ [SerialNext]_vars
        => [\A b \in Buckets, k \in Keys : HeadMove(b, k)]_vars
    BY SerialHeadMove
  <1>2. QED
    BY <1>1, SerialIndexInvariant, SerialInvariant, PTL DEF SerialSpec, HeadMovesForCause

-----------------------------------------------------------------------------
(***************************************************************************)
(* The two tables implement the versioned store.                           *)
(***************************************************************************)
LEMMA StoreInit == Init => Store!Init
  BY NoneAssumption DEF Init, Store!Init, Live, Stored, Current, VidsOf, VidOf, Exists,
                        NoObjects, NoVersions

\* A step of one key, as in KeyUpdate, seen through the mapping.
LEMMA StoreKeyUpdate ==
  ASSUME IndexInv, NEW b \in Buckets, NEW k \in Keys, NEW h, NEW S,
         objects' = [objects EXCEPT ![b][k] = h],
         versions' = [versions EXCEPT ![b][k] = S],
         UNCHANGED buckets
  PROVE  /\ Current' = [Current EXCEPT ![b][k] = VidOf(h)]
         /\ Stored' = [Stored EXCEPT ![b][k] = VidsOf(S)]
         /\ Live' = Live
  <1>1. /\ objects'[b][k] = h
        /\ versions'[b][k] = S
        /\ \A c \in Buckets, j \in Keys :
              ~(c = b /\ j = k) => /\ objects'[c][j] = objects[c][j]
                                   /\ versions'[c][j] = versions[c][j]
    BY DEF IndexInv, TypeOK
  <1>2. Current' = [Current EXCEPT ![b][k] = VidOf(h)]
    <2>1. \A c \in Buckets : Current[c] = [j \in Keys |-> VidOf(objects[c][j])]
      BY DEF Current
    <2>2. \A c \in Buckets : Current'[c] =
              IF c = b THEN [Current[b] EXCEPT ![k] = VidOf(h)] ELSE Current[c]
      BY <1>1, <2>1 DEF Current, VidOf
    <2>3. QED
      BY <2>2 DEF Current
  <1>3. Stored' = [Stored EXCEPT ![b][k] = VidsOf(S)]
    <2>1. \A c \in Buckets : Stored[c] = [j \in Keys |-> VidsOf(versions[c][j])]
      BY DEF Stored
    <2>2. Stored' = [c \in Buckets |-> [j \in Keys |-> VidsOf(versions'[c][j])]]
      BY DEF Stored, VidsOf
    <2>3. \A c \in Buckets, j \in Keys :
              VidsOf(versions'[c][j])
              = IF c = b /\ j = k THEN VidsOf(S) ELSE VidsOf(versions[c][j])
      BY <1>1
    <2>4. ASSUME NEW c \in Buckets, c # b
          PROVE  [j \in Keys |-> VidsOf(versions'[c][j])] = Stored[c]
      BY <2>1, <2>3, <2>4
    <2>5. [j \in Keys |-> VidsOf(versions'[b][j])] = [Stored[b] EXCEPT ![k] = VidsOf(S)]
      <3>1. \A j \in Keys : VidsOf(versions'[b][j])
                = IF j = k THEN VidsOf(S) ELSE Stored[b][j]
        BY <2>1, <2>3
      <3>2. Stored[b] = [j \in Keys |-> Stored[b][j]]
        BY <2>1
      <3>3. QED
        BY <3>1, <3>2
    <2>6. Stored' = [c \in Buckets |->
              IF c = b THEN [Stored[b] EXCEPT ![k] = VidsOf(S)] ELSE Stored[c]]
      BY <2>2, <2>4, <2>5
    <2>7. Stored = [c \in Buckets |-> Stored[c]]
      BY DEF Stored
    <2>8. QED
      BY <2>6, <2>7
  <1>4. Live' = Live
    BY DEF Live, Exists
  <1>5. QED
    BY <1>2, <1>3, <1>4

LEMMA VidsWithVersion ==
  ASSUME NEW S, NEW m
  PROVE  VidsOf(WithVersion(S, m)) = VidsOf(S) \cup {m.vid}
  BY DEF VidsOf, WithVersion

LEMMA VidsWithout ==
  ASSUME NEW S, NEW vid
  PROVE  VidsOf({m \in S : m.vid # vid}) = VidsOf(S) \ {vid}
  BY DEF VidsOf

LEMMA StoreBucketStep ==
  ASSUME IndexInv, NEW b \in Buckets, BucketStep(b)
  PROVE  [Store!Next]_Store!vars
  <1>1. Stored' = Stored /\ Current' = Current
    BY DEF BucketStep, CreateBucket, DeleteBucket, UpdateBucket, Stored, Current, VidOf, VidsOf
  <1>2. CASE \E objectLock \in BOOLEAN : CreateBucket(b, objectLock)
    <2>1. Live' = Live \cup {b} /\ b \notin Live
      BY <1>2, NoneAssumption DEF CreateBucket, Live, Exists, IndexInv, TypeOK, Statuses
    <2>2. Store!Create(b)
      BY <1>1, <2>1 DEF Store!Create
    <2>3. QED
      BY <2>2 DEF Store!Next
  <1>3. CASE DeleteBucket(b)
    <2>1. Live' = Live \ {b} /\ b \in Live
      BY <1>3 DEF DeleteBucket, Live, Exists, IndexInv, TypeOK
    <2>2. \A k \in Keys : versions[b][k] = {}
      BY <1>3, NoHeadsNoVersions DEF DeleteBucket
    <2>3. \A k \in Keys : Stored[b][k] = {}
      BY <2>2 DEF Stored, VidsOf
    <2>4. Store!Retire(b)
      BY <1>1, <2>1, <2>3 DEF Store!Retire
    <2>5. QED
      BY <2>4 DEF Store!Next
  <1>4. CASE \E status \in Statuses : UpdateBucket(b, status)
    <2>1. Live' = Live
      BY <1>4, NoneAssumption DEF UpdateBucket, Live, Exists, IndexInv, TypeOK
    <2>2. QED
      BY <1>1, <2>1 DEF Store!vars
  <1>5. QED
    BY <1>2, <1>3, <1>4 DEF BucketStep

LEMMA StorePut ==
  ASSUME IndexInv, NEW b \in Buckets, NEW k \in Keys, NEW m \in Written, PutObject(b, k, m)
  PROVE  Store!Next
  <1>1. m \in Meta /\ BecomesHead(m) /\ m # None /\ m.vid \in Vids
    BY NoneAssumption DEF Written, Meta
  <1>2. /\ Current' = [Current EXCEPT ![b][k] = VidOf(m)]
        /\ Stored' = [Stored EXCEPT ![b][k] = VidsOf(WithVersion(versions[b][k], m))]
        /\ Live' = Live
    BY <1>1, StoreKeyUpdate DEF PutObject
  <1>3. VidsOf(WithVersion(versions[b][k], m)) = Stored[b][k] \cup {m.vid}
    BY VidsWithVersion DEF Stored
  <1>4. Stored' = [Stored EXCEPT ![b][k] = Stored[b][k] \cup {m.vid}]
    BY <1>2, <1>3
  <1>5. VidOf(m) = m.vid /\ b \in Live
    BY <1>1 DEF VidOf, PutObject, Live
  <1>6. Store!Write(b, k, m.vid)
    BY <1>2, <1>4, <1>5 DEF Store!Write
  <1>7. QED
    BY <1>1, <1>6 DEF Store!Next

LEMMA StoreDelete ==
  ASSUME IndexInv, NEW b \in Buckets, NEW k \in Keys, DeleteObject(b, k)
  PROVE  Store!Next
  <1>1. /\ Current' = [Current EXCEPT ![b][k] = VidOf(None)]
        /\ Stored' = [Stored EXCEPT ![b][k] = VidsOf({})]
        /\ Live' = Live
    BY StoreKeyUpdate DEF DeleteObject
  <1>2. VidOf(None) = None /\ VidsOf({}) = {} /\ b \in Live
    BY DEF VidOf, VidsOf, DeleteObject, Live
  <1>3. Store!RemoveAll(b, k)
    BY <1>1, <1>2 DEF Store!RemoveAll
  <1>4. QED
    BY <1>3 DEF Store!Next

LEMMA StoreDeleteVersion ==
  ASSUME IndexInv, NEW b \in Buckets, NEW k \in Keys, NEW vid \in Vids,
         DeleteVersion(b, k, vid)
  PROVE  Store!Next
  <1> DEFINE rest == {m \in versions[b][k] : m.vid # vid}
  <1>1. VidsOf(rest) = Stored[b][k] \ {vid}
    BY VidsWithout DEF Stored
  <1>2. b \in Live /\ UNCHANGED buckets
    BY DEF DeleteVersion, Live
  <1>3. CASE /\ rest = {}
             /\ objects' = [objects EXCEPT ![b][k] = None]
             /\ versions' = [versions EXCEPT ![b][k] = {}]
    <2>1. /\ Current' = [Current EXCEPT ![b][k] = VidOf(None)]
          /\ Stored' = [Stored EXCEPT ![b][k] = VidsOf({})]
          /\ Live' = Live
      BY <1>2, <1>3, StoreKeyUpdate
    <2>2. VidOf(None) = None /\ VidsOf({}) = {} /\ Stored[b][k] \ {vid} = {}
      BY <1>1, <1>3 DEF VidOf, VidsOf
    <2>3. Store!Remove(b, k, vid)
      BY <1>2, <2>1, <2>2 DEF Store!Remove
    <2>4. QED
      BY <2>3 DEF Store!Next
  <1>4. CASE \E m \in Newest(rest) :
                /\ objects' = [objects EXCEPT ![b][k] = Promoted(m)]
                /\ versions' = [versions EXCEPT ![b][k] = WithVersion(rest, Promoted(m))]
    <2>1. PICK m \in Newest(rest) :
                /\ objects' = [objects EXCEPT ![b][k] = Promoted(m)]
                /\ versions' = [versions EXCEPT ![b][k] = WithVersion(rest, Promoted(m))]
      BY <1>4
    <2>2. /\ m \in rest /\ m \in Meta /\ Promoted(m) # None
          /\ Promoted(m).vid = m.vid
      BY PromotedMeta, NoneAssumption DEF Newest, IndexInv, TypeOK
    <2>3. /\ Current' = [Current EXCEPT ![b][k] = VidOf(Promoted(m))]
          /\ Stored' = [Stored EXCEPT ![b][k] = VidsOf(WithVersion(rest, Promoted(m)))]
          /\ Live' = Live
      BY <1>2, <2>1, StoreKeyUpdate
    <2>4. m.vid \in VidsOf(rest)
      BY <2>2 DEF VidsOf
    <2>5. VidsOf(WithVersion(rest, Promoted(m))) = Stored[b][k] \ {vid}
      BY <1>1, <2>2, <2>4, VidsWithVersion
    <2>6. VidOf(Promoted(m)) = m.vid
      BY <2>2 DEF VidOf
    <2>7. Store!Remove(b, k, vid)
      BY <1>1, <1>2, <2>3, <2>4, <2>5, <2>6 DEF Store!Remove
    <2>8. QED
      BY <2>7 DEF Store!Next
  <1>5. QED
    BY <1>3, <1>4 DEF DeleteVersion

LEMMA StoreStep == IndexInv /\ [Next]_vars => [Store!Next]_Store!vars
  <1> SUFFICES ASSUME IndexInv, [Next]_vars PROVE [Store!Next]_Store!vars
    OBVIOUS
  <1>1. CASE UNCHANGED vars
    BY <1>1 DEF vars, Store!vars, Live, Stored, Current, Exists, VidOf, VidsOf
  <1>2. ASSUME NEW b \in Buckets, NEW k \in Keys, DeleteStep(b, k) PROVE Store!Next
    BY <1>2, StoreDelete, StoreDeleteVersion DEF DeleteStep
  <1>3. QED
    BY <1>1, <1>2, StoreBucketStep, StorePut DEF Next

\* The heads-and-versions tables implement a store in which a bucket retires
\* only when it keeps no version and a key is readable exactly when it keeps one.
THEOREM IndexImplementsStore == Spec => ImplementsVersionedStore
  BY StoreInit, StoreStep, IndexInvariant, PTL DEF Spec, Store!Spec, ImplementsVersionedStore
=============================================================================
