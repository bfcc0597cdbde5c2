------------------------ MODULE ObjectBackend_proofs ------------------------
(***************************************************************************)
(* Theorems about ObjectBackend, for any sets of buckets, keys, version    *)
(* ids, request slots and operations, and any bound on the requests.       *)
(***************************************************************************)
EXTENDS ObjectBackend, VersionIndex_proofs

\* What a request hands to PutObject becomes a head.
WritersBecomeHeads ==
    \A p \in Procs :
        req[p].at \in {"upload", "rename", "place", "commit", "mark", "copy"}
        => BecomesHead(req[p].m)

LocalInv ==
    /\ files \in [Paths -> Contents \cup {None}]
    /\ req \in [Procs -> Requests]
    /\ started \in 0..MaxClock
    /\ issued \subseteq Uuids
    /\ WritersBecomeHeads

\* The inductive invariant behind type correctness and the refinement.  The
\* invariant of the index is part of it: a copy hands on the record of a head,
\* and that it becomes a head again is the index's HeadsAreCopyable.
BackendInv == IndexInv /\ LocalInv

-----------------------------------------------------------------------------
(***************************************************************************)
(* Requests by the step they are at.                                       *)
(***************************************************************************)
LEMMA UnstampedType ==
  ASSUME NEW r \in Requests, r.at \in {"upload", "rename", "open"}
  PROVE  r \in Unstamped
  BY DEF Requests, Idle, Unstamped, Stamped, Answering, Copying, Removing, Dropping

LEMMA StampedType ==
  ASSUME NEW r \in Requests, r.at \in {"place", "commit", "mark"}
  PROVE  r \in Stamped
  BY DEF Requests, Idle, Unstamped, Stamped, Answering, Copying, Removing, Dropping

LEMMA CopyingType ==
  ASSUME NEW r \in Requests, r.at = "copy"
  PROVE  r \in Copying
  BY DEF Requests, Idle, Unstamped, Stamped, Answering, Copying, Removing, Dropping

LEMMA RemovingType ==
  ASSUME NEW r \in Requests, r.at \in {"lock", "remove", "unlink"}
  PROVE  r \in Removing
  BY DEF Requests, Idle, Unstamped, Stamped, Answering, Copying, Removing, Dropping

LEMMA DroppingType ==
  ASSUME NEW r \in Requests, r.at = "rmdir"
  PROVE  r \in Dropping
  BY DEF Requests, Idle, Unstamped, Stamped, Answering, Copying, Removing, Dropping

\* A step that gives one request a new state and touches nothing else local.
LEMMA RequestUpdate ==
  ASSUME LocalInv, NEW p \in Procs, NEW r \in Requests,
         req' = [req EXCEPT ![p] = r],
         r.at \in {"upload", "rename", "place", "commit", "mark", "copy"} => BecomesHead(r.m)
  PROVE  req' \in [Procs -> Requests] /\ WritersBecomeHeads'
  <1>1. req' \in [Procs -> Requests]
    BY DEF LocalInv
  <1>2. \A q \in Procs : req'[q] = IF q = p THEN r ELSE req[q]
    BY DEF LocalInv
  <1>3. QED
    BY <1>1, <1>2 DEF LocalInv, WritersBecomeHeads, BecomesHead

LEMMA FinishLocal ==
  ASSUME LocalInv, NEW p \in Procs, Finish(p)
  PROVE  req' \in [Procs -> Requests] /\ WritersBecomeHeads'
  <1>1. Idle \in Requests /\ Idle.at = "idle"
    BY DEF Requests, Idle
  <1>2. QED
    BY <1>1, RequestUpdate DEF Finish

\* The fields but at do not change.
LEMMA GotoLocal ==
  ASSUME LocalInv, NEW p \in Procs, NEW at, Goto(p, at),
         \/ req[p].at = "upload" /\ at = "rename"
         \/ req[p].at = "place" /\ at = "commit"
         \/ req[p].at = "lock" /\ at = "remove"
         \/ req[p].at = "remove" /\ at = "unlink"
  PROVE  req' \in [Procs -> Requests] /\ WritersBecomeHeads'
  <1> DEFINE r == [req[p] EXCEPT !.at = at]
  <1>1. req' = [req EXCEPT ![p] = r] /\ req[p] \in Requests
    BY DEF Goto, LocalInv
  <1>2. CASE req[p].at = "upload" /\ at = "rename"
    <2>1. req[p] \in Unstamped
      BY <1>1, <1>2, UnstampedType
    <2>2. r \in Unstamped /\ r.at = "rename" /\ r.m = req[p].m
      BY <1>2, <2>1 DEF Unstamped
    <2>3. r \in Requests /\ BecomesHead(r.m)
      BY <1>2, <2>2 DEF Requests, LocalInv, WritersBecomeHeads
    <2>4. QED
      BY <1>1, <2>2, <2>3, RequestUpdate
  <1>3. CASE req[p].at = "place" /\ at = "commit"
    <2>1. req[p] \in Stamped
      BY <1>1, <1>3, StampedType
    <2>2. r \in Stamped /\ r.at = "commit" /\ r.m = req[p].m
      BY <1>3, <2>1 DEF Stamped
    <2>3. r \in Requests /\ BecomesHead(r.m)
      BY <1>3, <2>2 DEF Requests, LocalInv, WritersBecomeHeads
    <2>4. QED
      BY <1>1, <2>2, <2>3, RequestUpdate
  <1>4. CASE at \in {"remove", "unlink"} /\ req[p].at \in {"lock", "remove"}
    <2>1. req[p] \in Removing
      BY <1>1, <1>4, RemovingType
    <2>2. r \in Removing /\ r.at \in {"remove", "unlink"}
      BY <1>4, <2>1 DEF Removing
    <2>3. r \in Requests
      BY <2>2 DEF Requests
    <2>4. QED
      BY <1>1, <2>2, <2>3, RequestUpdate
  <1>5. QED
    BY <1>2, <1>3, <1>4

-----------------------------------------------------------------------------
(***************************************************************************)
(* Requests that arrive.                                                   *)
(***************************************************************************)
LEMMA BeginLocal ==
  ASSUME LocalInv, NEW p \in Procs, NEW op, NEW r \in Requests, Begin(p, op, r),
         UNCHANGED files, issued' \subseteq Uuids,
         r.at \in {"upload", "rename", "place", "commit", "mark", "copy"} => BecomesHead(r.m)
  PROVE  LocalInv'
  <1>1. req' \in [Procs -> Requests] /\ WritersBecomeHeads'
    BY RequestUpdate DEF Begin
  <1>2. started' \in 0..MaxClock
    BY ClockAssumption DEF Begin, LocalInv
  <1>3. QED
    BY <1>1, <1>2 DEF LocalInv

LEMMA NewVidType ==
  ASSUME LocalInv, NEW b \in Buckets, NEW vid \in Vids, NewVid(b, vid)
  PROVE  issued' \subseteq Uuids
  BY DEF NewVid, LocalInv

LEMMA ZeroStamp == 0 \in 0..MaxClock
  BY ClockAssumption

\* What the handlers build is a record, and one that becomes a head.
LEMMA RecordType ==
  ASSUME NEW vid \in Vids, NEW latest \in BOOLEAN, NEW body \in Body,
         latest = TRUE \/ vid = ""
  PROVE  Record(vid, latest, body) \in Meta /\ BecomesHead(Record(vid, latest, body))
  <1>1. body \in Payloads
    BY BodyAssumption, Zenon
  <1>2. Record(vid, latest, body) \in Meta
    BY <1>1, ZeroStamp DEF Record, Meta
  <1>3. QED
    BY <1>2 DEF Record, BecomesHead

LEMMA NextContent ==
  ASSUME LocalInv, NEW p \in Procs, NEW op, NEW r, Begin(p, op, r), NEW hold \in BOOLEAN
  PROVE  [content |-> started + 1, marker |-> FALSE, hold |-> hold] \in Body
  BY ClockAssumption DEF LocalInv, Begin, Body, Contents

LEMMA UploadType ==
  ASSUME NEW b \in Buckets, NEW k \in Keys, NEW m \in Meta
  PROVE  /\ Upload(b, k, m) \in Requests
         /\ Upload(b, k, m).at = "upload" /\ Upload(b, k, m).m = m
  BY DEF Upload, Requests, Unstamped

LEMMA StampedRequest ==
  ASSUME LocalInv, TypeOK, NEW at \in {"place", "commit", "mark"}, NEW b \in Buckets, NEW k \in Keys,
         NEW m \in Meta
  PROVE  [at |-> at, b |-> b, k |-> k, since |-> clock, m |-> m] \in Requests
  BY DEF Requests, Stamped, TypeOK

LEMMA BeginPutLocal ==
  ASSUME BackendInv, NEW p \in Procs, NEW b \in Buckets, NEW k \in Keys, NEW hold \in BOOLEAN,
         BeginPut(p, b, k, hold)
  PROVE  LocalInv'
  <1> DEFINE body == [content |-> started + 1, marker |-> FALSE, hold |-> hold]
  <1>1. PICK vid \in Vids : NewVid(b, vid)
                            /\ Begin(p, "put", Upload(b, k, Record(vid, TRUE, body)))
                            /\ UNCHANGED files
    BY DEF BeginPut
  <1>2. LocalInv /\ body \in Body
    BY <1>1, NextContent DEF BackendInv
  <1> HIDE DEF body
  <1>3. Record(vid, TRUE, body) \in Meta /\ BecomesHead(Record(vid, TRUE, body))
    BY <1>2, RecordType
  <1>4. issued' \subseteq Uuids
    BY <1>1, <1>2, NewVidType
  <1>5. QED
    BY <1>1, <1>2, <1>3, <1>4, UploadType, BeginLocal

LEMMA BeginPostLocal ==
  ASSUME BackendInv, NEW p \in Procs, NEW b \in Buckets, NEW k \in Keys, BeginPost(p, b, k)
  PROVE  LocalInv'
  <1> DEFINE body == [content |-> started + 1, marker |-> FALSE, hold |-> FALSE]
  <1>1. Begin(p, "post", Upload(b, k, Record("", FALSE, body))) /\ UNCHANGED <<files, issued>>
    BY DEF BeginPost
  <1>2. LocalInv /\ body \in Body
    BY <1>1, NextContent DEF BackendInv
  <1> HIDE DEF body
  <1>3. Record("", FALSE, body) \in Meta /\ BecomesHead(Record("", FALSE, body))
    BY <1>2, RecordType DEF Vids
  <1>4. QED
    BY <1>1, <1>2, <1>3, UploadType, BeginLocal DEF LocalInv

LEMMA BeginCompleteLocal ==
  ASSUME BackendInv, NEW p \in Procs, NEW b \in Buckets, NEW k \in Keys, NEW hold \in BOOLEAN,
         BeginComplete(p, b, k, hold)
  PROVE  LocalInv'
  <1> DEFINE body == [content |-> started + 1, marker |-> FALSE, hold |-> hold]
             r(vid) == [at |-> "place", b |-> b, k |-> k, since |-> clock,
                        m |-> Record(vid, TRUE, body)]
  <1>1. PICK vid \in Vids : NewVid(b, vid) /\ Begin(p, "complete", r(vid)) /\ UNCHANGED files
    BY DEF BeginComplete
  <1>2. LocalInv /\ TypeOK /\ body \in Body
    BY <1>1, NextContent DEF BackendInv, IndexInv
  <1> HIDE DEF body
  <1>3. Record(vid, TRUE, body) \in Meta /\ BecomesHead(Record(vid, TRUE, body))
    BY <1>2, RecordType
  <1>4. r(vid) \in Requests /\ BecomesHead(r(vid).m)
    BY <1>2, <1>3, StampedRequest
  <1>5. issued' \subseteq Uuids
    BY <1>1, <1>2, NewVidType
  <1> HIDE DEF r
  <1>6. QED
    BY <1>1, <1>2, <1>4, <1>5, BeginLocal

LEMMA GetObjectType ==
  ASSUME IndexInv, NEW b \in Buckets, NEW k \in Keys, NEW vid \in Vids,
         GetObject(b, k, vid) # None
  PROVE  /\ GetObject(b, k, vid) \in Meta
         /\ vid = "" => BecomesHead(GetObject(b, k, vid))
  <1>1. CASE vid = ""
    BY <1>1 DEF GetObject, IndexInv, TypeOK, HeadsAreCopyable
  <1>2. CASE vid # ""
    <2>1. \E m \in versions[b][k] : m.vid = vid
      BY <1>2 DEF GetObject
    <2>2. GetObject(b, k, vid) \in versions[b][k]
      BY <1>2, <2>1 DEF GetObject
    <2>3. QED
      BY <1>2, <2>2 DEF IndexInv, TypeOK
  <1>3. QED
    BY <1>1, <1>2

LEMMA BeginGetLocal ==
  ASSUME BackendInv, NEW p \in Procs, NEW b \in Buckets, NEW k \in Keys, NEW vid \in Vids,
         BeginGet(p, b, k, vid)
  PROVE  LocalInv'
  <1> DEFINE m == GetObject(b, k, vid)
             r == [at |-> "open", b |-> b, k |-> k, m |-> m]
  <1>1. m \in Meta
    BY GetObjectType DEF BeginGet, BackendInv
  <1>2. Begin(p, "get", r) /\ UNCHANGED <<files, issued>>
    BY DEF BeginGet
  <1> HIDE DEF m
  <1>3. r \in Requests /\ r.at = "open"
    BY <1>1 DEF Requests, Unstamped
  <1> HIDE DEF r
  <1>4. QED
    BY <1>2, <1>3, BeginLocal DEF BackendInv, LocalInv

LEMMA BeginCopyLocal ==
  ASSUME BackendInv, NEW p \in Procs, NEW srcB \in Buckets, NEW srcK \in Keys,
         NEW b \in Buckets, NEW k \in Keys, NEW replace \in BOOLEAN, NEW hold \in BOOLEAN,
         BeginCopy(p, srcB, srcK, b, k, replace, hold)
  PROVE  LocalInv'
  <1> DEFINE m == GetObject(srcB, srcK, "")
             r == [at |-> "copy", srcB |-> srcB, srcK |-> srcK, b |-> b, k |-> k,
                   m |-> m, replace |-> replace, hold |-> hold]
  <1>1. m \in Meta /\ BecomesHead(m)
    BY GetObjectType DEF BeginCopy, BackendInv, Vids
  <1>2. Begin(p, "copy", r) /\ UNCHANGED <<files, issued>>
    BY DEF BeginCopy
  <1> HIDE DEF m
  <1>3. r \in Requests /\ BecomesHead(r.m)
    BY <1>1 DEF Requests, Copying
  <1> HIDE DEF r
  <1>4. QED
    BY <1>2, <1>3, BeginLocal DEF BackendInv, LocalInv

LEMMA DeletionType ==
  ASSUME NEW b \in Buckets, NEW k \in Keys, NEW vid \in Vids
  PROVE  Deletion(b, k, vid) \in Requests /\ Deletion(b, k, vid).at = "lock"
  BY DEF Deletion, Requests, Removing

LEMMA BeginDeleteLocal ==
  ASSUME BackendInv, NEW p \in Procs, NEW b \in Buckets, NEW k \in Keys, BeginDelete(p, b, k)
  PROVE  LocalInv'
  <1>1. LocalInv /\ TypeOK /\ UNCHANGED files
    BY DEF BackendInv, IndexInv, BeginDelete
  <1>2. CASE Begin(p, "delete", Deletion(b, k, "")) /\ UNCHANGED issued
    BY <1>1, <1>2, DeletionType, BeginLocal DEF LocalInv, Vids
  <1> DEFINE body == [content |-> 0, marker |-> TRUE, hold |-> FALSE]
             r(vid) == [at |-> "mark", b |-> b, k |-> k, since |-> clock,
                        m |-> Record(vid, TRUE, body)]
  <1>3. ASSUME NEW vid \in Vids, NewVid(b, vid), Begin(p, "delete", r(vid))
        PROVE  LocalInv'
    <2>1. body \in Body
      BY ClockAssumption DEF Body, Contents
    <2> HIDE DEF body
    <2>2. Record(vid, TRUE, body) \in Meta /\ BecomesHead(Record(vid, TRUE, body))
      BY <2>1, RecordType
    <2>3. r(vid) \in Requests /\ BecomesHead(r(vid).m)
      BY <1>1, <2>2, StampedRequest
    <2>4. issued' \subseteq Uuids
      BY <1>1, <1>3, NewVidType
    <2> HIDE DEF r
    <2>5. QED
      BY <1>1, <1>3, <2>3, <2>4, BeginLocal
  <1>4. QED
    BY <1>2, <1>3 DEF BeginDelete

LEMMA BeginDeleteVersionLocal ==
  ASSUME BackendInv, NEW p \in Procs, NEW b \in Buckets, NEW k \in Keys, NEW vid \in Vids,
         BeginDeleteVersion(p, b, k, vid)
  PROVE  LocalInv'
  BY DeletionType, BeginLocal DEF BeginDeleteVersion, BackendInv, LocalInv

LEMMA BeginRequestLocal ==
  ASSUME BackendInv, NEW p \in Procs, BeginRequest(p)
  PROVE  UNCHANGED <<vars, files>> /\ LocalInv'
  <1>1. /\ Disclosed \cup MadeUp \cup {"null"} \subseteq Vids
        /\ Holds \subseteq BOOLEAN
    BY PathAssumption DEF BackendInv, LocalInv, Disclosed, Vids, Holds
  <1>2. LocalInv'
    BY <1>1, BeginPutLocal, BeginPostLocal, BeginCompleteLocal, BeginGetLocal, BeginCopyLocal,
       BeginDeleteLocal, BeginDeleteVersionLocal DEF BeginRequest
  <1>3. \A b, k, hold : BeginPut(p, b, k, hold) \/ BeginComplete(p, b, k, hold) => UNCHANGED <<vars, files>>
    BY DEF BeginPut, BeginComplete
  <1>4. \A b, k : BeginPost(p, b, k) \/ BeginDelete(p, b, k) => UNCHANGED <<vars, files>>
    BY DEF BeginPost, BeginDelete
  <1>5. \A b, k, vid : BeginGet(p, b, k, vid) \/ BeginDeleteVersion(p, b, k, vid) => UNCHANGED <<vars, files>>
    BY DEF BeginGet, BeginDeleteVersion
  <1>6. \A srcB, srcK, b, k, replace, hold :
           BeginCopy(p, srcB, srcK, b, k, replace, hold) => UNCHANGED <<vars, files>>
    BY DEF BeginCopy
  <1>7. UNCHANGED <<vars, files>>
    BY <1>3, <1>4, <1>5, <1>6 DEF BeginRequest
  <1>8. QED
    BY <1>2, <1>7

-----------------------------------------------------------------------------
(***************************************************************************)
(* The steps of a request.                                                 *)
(***************************************************************************)
LEMMA PathType ==
  ASSUME NEW b \in Buckets, NEW k \in Keys, NEW vid \in Vids
  PROVE  FileVid(vid) \in FileVids /\ Path(b, k, vid) \in Paths
  <1>1. FileVid(vid) \in FileVids
    BY DEF FileVid, FileVids, Vids
  <1>2. QED
    BY <1>1, PathAssumption DEF Path

LEMMA FileUpdate ==
  ASSUME LocalInv, NEW b \in Buckets, NEW k \in Keys, NEW vid \in Vids,
         NEW c \in Contents \cup {None},
         files' = [files EXCEPT ![Path(b, k, vid)] = c]
  PROVE  files' \in [Paths -> Contents \cup {None}]
  BY DEF LocalInv

\* The file of a record that is being written.
LEMMA FileOfRecord ==
  ASSUME LocalInv, NEW r, r \in Unstamped \/ r \in Stamped,
         NEW c \in {r.m.body.content, None},
         files' = [files EXCEPT ![Path(r.b, r.k, r.m.vid)] = c]
  PROVE  files' \in [Paths -> Contents \cup {None}]
  <1>1. r.b \in Buckets /\ r.k \in Keys /\ r.m \in Meta
    BY DEF Unstamped, Stamped
  <1>2. r.m.vid \in Vids /\ r.m.body \in Payloads
    BY <1>1 DEF Meta
  <1>3. r.m.body.content \in Contents
    BY <1>2, BodyAssumption DEF Body
  <1>4. QED
    BY <1>1, <1>2, <1>3, FileUpdate

\* A record whose stamp was read since r.since is one the index expects.
LEMMA CommitIsPut ==
  ASSUME IndexInv, NEW r \in Stamped, BecomesHead(r.m), CommitRecord(r)
  PROVE  Next
  <1>1. PICK t \in r.since..clock : PutObject(r.b, r.k, [r.m EXCEPT !.modified = t])
    BY DEF CommitRecord
  <1>2. r.b \in Buckets /\ r.k \in Keys /\ r.m \in Meta /\ r.since \in 0..MaxClock
    BY DEF Stamped
  <1>3. clock \in 0..MaxClock
    BY DEF IndexInv, TypeOK
  <1>4. t \in 0..MaxClock /\ t <= clock
    BY <1>2, <1>3, ClockAssumption
  <1> DEFINE m == [r.m EXCEPT !.modified = t]
  <1>5. m \in Meta /\ m.modified = t /\ m.latest = r.m.latest /\ m.vid = r.m.vid
    BY <1>2, <1>4 DEF Meta
  <1>6. m \in Written
    BY <1>4, <1>5 DEF Written, BecomesHead
  <1>7. QED
    BY <1>1, <1>2, <1>6 DEF Next

LEMMA CheckBucketLocal ==
  ASSUME LocalInv, NEW p \in Procs, CheckBucket(p)
  PROVE  LocalInv'
  <1>1. UNCHANGED <<files, started, issued>>
    BY DEF CheckBucket
  <1>2. req' \in [Procs -> Requests] /\ WritersBecomeHeads'
    BY FinishLocal, GotoLocal DEF CheckBucket
  <1>3. QED
    BY <1>1, <1>2 DEF LocalInv

LEMMA RenameFileLocal ==
  ASSUME LocalInv, TypeOK, NEW p \in Procs, RenameFile(p)
  PROVE  LocalInv'
  <1> DEFINE r == req[p]
             s == [at |-> "commit", b |-> r.b, k |-> r.k, m |-> r.m, since |-> clock]
  <1>1. r \in Unstamped /\ BecomesHead(r.m)
    BY UnstampedType DEF RenameFile, LocalInv, WritersBecomeHeads
  <1>2. files' = [files EXCEPT ![Path(r.b, r.k, r.m.vid)] = r.m.body.content]
        /\ req' = [req EXCEPT ![p] = s]
        /\ UNCHANGED <<started, issued>>
    BY DEF RenameFile
  <1> HIDE DEF r
  <1>3. files' \in [Paths -> Contents \cup {None}]
    BY <1>1, <1>2, FileOfRecord
  <1>4. s \in Requests /\ BecomesHead(s.m)
    BY <1>1 DEF Requests, Unstamped, Stamped, TypeOK
  <1> HIDE DEF s
  <1>5. req' \in [Procs -> Requests] /\ WritersBecomeHeads'
    BY <1>2, <1>4, RequestUpdate
  <1>6. QED
    BY <1>2, <1>3, <1>5 DEF LocalInv

LEMMA PlaceFileLocal ==
  ASSUME LocalInv, NEW p \in Procs, PlaceFile(p)
  PROVE  LocalInv'
  <1>1. req[p] \in Stamped
    BY StampedType DEF PlaceFile, LocalInv
  <1>2. files' \in [Paths -> Contents \cup {None}]
    BY <1>1, FileOfRecord DEF PlaceFile
  <1>3. req' \in [Procs -> Requests] /\ WritersBecomeHeads'
    BY GotoLocal DEF PlaceFile
  <1>4. QED
    BY <1>2, <1>3 DEF LocalInv, PlaceFile

LEMMA CommitPutFailsLocal ==
  ASSUME LocalInv, NEW p \in Procs, CommitPutFails(p)
  PROVE  LocalInv'
  <1>1. req[p] \in Stamped
    BY StampedType DEF CommitPutFails, LocalInv
  <1>2. files' \in [Paths -> Contents \cup {None}]
    BY <1>1, FileOfRecord DEF CommitPutFails
  <1>3. QED
    BY <1>2, FinishLocal DEF LocalInv, CommitPutFails

LEMMA PutStepSafe ==
  ASSUME BackendInv, NEW p \in Procs, PutStep(p)
  PROVE  [Next]_vars /\ LocalInv'
  <1>1. LocalInv /\ IndexInv /\ TypeOK
    BY DEF BackendInv, IndexInv
  <1>2. CASE CheckBucket(p)
    BY <1>1, <1>2, CheckBucketLocal DEF CheckBucket
  <1>3. CASE UploadFails(p)
    BY <1>1, <1>3, FinishLocal DEF UploadFails, LocalInv
  <1>4. CASE RenameFile(p)
    BY <1>1, <1>4, RenameFileLocal DEF RenameFile
  <1>5. CASE PlaceFile(p)
    BY <1>1, <1>5, PlaceFileLocal DEF PlaceFile
  <1>6. CASE CommitPut(p)
    <2>1. req[p] \in Stamped /\ BecomesHead(req[p].m)
      BY <1>1, <1>6, StampedType DEF CommitPut, LocalInv, WritersBecomeHeads
    <2>2. Next
      BY <1>1, <1>6, <2>1, CommitIsPut DEF CommitPut
    <2>3. LocalInv'
      BY <1>1, <1>6, FinishLocal DEF CommitPut, LocalInv
    <2>4. QED
      BY <2>2, <2>3
  <1>7. CASE CommitPutFails(p)
    BY <1>1, <1>7, CommitPutFailsLocal DEF CommitPutFails
  <1>8. QED
    BY <1>2, <1>3, <1>4, <1>5, <1>6, <1>7 DEF PutStep

LEMMA FileType ==
  ASSUME LocalInv, NEW b \in Buckets, NEW k \in Keys, NEW m \in Meta, File(b, k, m.vid) # None
  PROVE  File(b, k, m.vid) \in Contents
  <1>1. m.vid \in Vids
    BY DEF Meta
  <1>2. QED
    BY <1>1, PathType DEF File, LocalInv

LEMMA OpenFileLocal ==
  ASSUME LocalInv, NEW p \in Procs, OpenFile(p)
  PROVE  LocalInv'
  <1> DEFINE r == req[p]
             s == [at |-> "send", b |-> r.b, k |-> r.k, m |-> r.m,
                   data |-> File(r.b, r.k, r.m.vid)]
  <1>1. UNCHANGED <<files, started, issued>>
    BY DEF OpenFile
  <1>2. CASE Finish(p)
    BY <1>1, <1>2, FinishLocal DEF LocalInv
  <1>3. CASE File(r.b, r.k, r.m.vid) # None /\ req' = [req EXCEPT ![p] = s]
    <2>1. r \in Unstamped
      BY UnstampedType DEF OpenFile, LocalInv
    <2> HIDE DEF r
    <2>2. r.m \in Meta /\ r.b \in Buckets /\ r.k \in Keys
      BY <2>1 DEF Unstamped
    <2>3. File(r.b, r.k, r.m.vid) \in Contents
      BY <1>3, <2>2, FileType
    <2>4. s \in Requests /\ s.at = "send"
      BY <2>2, <2>3 DEF Requests, Answering
    <2> HIDE DEF s
    <2>5. req' \in [Procs -> Requests] /\ WritersBecomeHeads'
      BY <1>3, <2>4, RequestUpdate
    <2>6. QED
      BY <1>1, <2>5 DEF LocalInv
  <1>4. QED
    BY <1>2, <1>3 DEF OpenFile

LEMMA RestampedType ==
  ASSUME NEW m \in Meta, NEW body \in Payloads
  PROVE  LET n == [m EXCEPT !.modified = 0, !.body = body]
         IN  n \in Meta /\ n.vid = m.vid /\ n.latest = m.latest
  <1> DEFINE n1 == [m EXCEPT !.modified = 0]
             n2 == [n1 EXCEPT !.body = body]
  <1>1. n1 \in Meta /\ n1.vid = m.vid /\ n1.latest = m.latest
    BY ZeroStamp DEF Meta
  <1> HIDE DEF n1
  <1>2. n2 \in Meta /\ n2.vid = n1.vid /\ n2.latest = n1.latest
    BY <1>1 DEF Meta
  <1>3. QED
    BY <1>1, <1>2 DEF n1

\* The copied record keeps its version id and latest mark.
LEMMA CopyOpenLocal ==
  ASSUME LocalInv, NEW p \in Procs, CopyOpen(p)
  PROVE  LocalInv'
  <1> DEFINE r == req[p]
             data == File(r.srcB, r.srcK, r.m.vid)
             body == [content |-> data, marker |-> FALSE, hold |-> r.hold]
             fresh == Record("", FALSE, body)
             same == [r.m EXCEPT !.modified = 0, !.body.content = data]
  <1>1. UNCHANGED <<files, started, issued>>
    BY DEF CopyOpen
  <1>2. CASE Finish(p)
    BY <1>1, <1>2, FinishLocal DEF LocalInv
  <1>3. ASSUME data # None, NEW m, m = (IF r.replace THEN fresh ELSE same),
               req' = [req EXCEPT ![p] = Upload(r.b, r.k, m)]
        PROVE  LocalInv'
    <2>1. r \in Copying /\ BecomesHead(r.m)
      BY CopyingType DEF CopyOpen, LocalInv, WritersBecomeHeads
    <2> HIDE DEF r
    <2>2. /\ r.m \in Meta /\ r.b \in Buckets /\ r.k \in Keys
          /\ r.srcB \in Buckets /\ r.srcK \in Keys /\ r.hold \in BOOLEAN
      BY <2>1 DEF Copying
    <2>3. data \in Contents
      BY <1>3, <2>2, FileType
    <2> HIDE DEF data
    <2>4. body \in Body
      BY <2>2, <2>3 DEF Body
    <2> HIDE DEF body
    <2>5. fresh \in Meta /\ BecomesHead(fresh)
      BY <2>4, RecordType DEF Vids
    <2>6. r.m.body \in Body
      BY <2>2, BodyAssumption DEF Meta
    <2>7. [r.m.body EXCEPT !.content = data] \in Payloads
      BY <2>3, <2>6, BodyAssumption DEF Body
    <2>8. same = [r.m EXCEPT !.modified = 0, !.body = [r.m.body EXCEPT !.content = data]]
      BY <2>2 DEF Meta
    <2> HIDE DEF same
    <2>9. same \in Meta /\ same.vid = r.m.vid /\ same.latest = r.m.latest
      BY <2>2, <2>7, <2>8, RestampedType
    <2>10. m \in Meta /\ BecomesHead(m)
      BY <1>3, <2>1, <2>5, <2>9 DEF BecomesHead
    <2> DEFINE u == Upload(r.b, r.k, m)
    <2>11. u \in Requests /\ u.m = m /\ req' = [req EXCEPT ![p] = u]
      BY <1>3, <2>2, <2>10, UploadType
    <2> HIDE DEF u
    <2>12. req' \in [Procs -> Requests] /\ WritersBecomeHeads'
      BY <2>10, <2>11, RequestUpdate
    <2>13. QED
      BY <1>1, <2>12 DEF LocalInv
  <1>4. QED
    BY <1>2, <1>3 DEF CopyOpen

LEMMA ReadStepSafe ==
  ASSUME BackendInv, NEW p \in Procs, ReadStep(p)
  PROVE  UNCHANGED vars /\ LocalInv'
  <1>1. LocalInv
    BY DEF BackendInv
  <1>2. CASE SendBody(p)
    BY <1>1, <1>2, FinishLocal DEF SendBody, LocalInv
  <1>3. QED
    BY <1>1, <1>2, OpenFileLocal, CopyOpenLocal DEF ReadStep, OpenFile, CopyOpen

LEMMA CommitDeleteSafe ==
  ASSUME LocalInv, NEW p \in Procs, CommitDelete(p)
  PROVE  [Next]_vars /\ LocalInv'
  <1>1. req[p] \in Removing
    BY RemovingType DEF CommitDelete, LocalInv
  <1>2. req[p].b \in Buckets /\ req[p].k \in Keys /\ req[p].vid \in Vids
    BY <1>1 DEF Removing
  <1>3. [Next]_vars
    BY <1>2 DEF CommitDelete, Next, DeleteStep
  <1>4. req' \in [Procs -> Requests] /\ WritersBecomeHeads'
    BY FinishLocal, GotoLocal DEF CommitDelete
  <1>5. QED
    BY <1>3, <1>4 DEF CommitDelete, LocalInv

LEMMA UnlinkLocal ==
  ASSUME LocalInv, NEW p \in Procs, Unlink(p)
  PROVE  LocalInv'
  <1>1. req[p] \in Removing
    BY RemovingType DEF Unlink, LocalInv
  <1>2. req[p].b \in Buckets /\ req[p].k \in Keys /\ req[p].vid \in Vids
    BY <1>1 DEF Removing
  <1>3. files' \in [Paths -> Contents \cup {None}]
    BY <1>2, FileUpdate DEF Unlink
  <1>4. QED
    BY <1>3, FinishLocal DEF Unlink, LocalInv

LEMMA RemoveStepSafe ==
  ASSUME BackendInv, NEW p \in Procs, RemoveStep(p)
  PROVE  [Next]_vars /\ LocalInv'
  <1>1. LocalInv /\ IndexInv
    BY DEF BackendInv
  <1>2. CASE CommitMarker(p)
    <2>1. req[p] \in Stamped /\ BecomesHead(req[p].m)
      BY <1>1, <1>2, StampedType DEF CommitMarker, LocalInv, WritersBecomeHeads
    <2>2. [Next]_vars
      BY <1>1, <1>2, <2>1, CommitIsPut DEF CommitMarker
    <2>3. LocalInv'
      BY <1>1, <1>2, FinishLocal DEF CommitMarker, LocalInv
    <2>4. QED
      BY <2>2, <2>3
  <1>3. CASE CheckLock(p)
    <2>1. req' \in [Procs -> Requests] /\ WritersBecomeHeads'
      BY <1>1, <1>3, FinishLocal, GotoLocal DEF CheckLock
    <2>2. QED
      BY <1>1, <1>3, <2>1 DEF CheckLock, LocalInv
  <1>4. CASE CommitDelete(p)
    BY <1>1, <1>4, CommitDeleteSafe
  <1>5. CASE Unlink(p)
    BY <1>1, <1>5, UnlinkLocal DEF Unlink
  <1>6. CASE DeleteFails(p)
    BY <1>1, <1>6, FinishLocal DEF DeleteFails, LocalInv
  <1>7. QED
    BY <1>2, <1>3, <1>4, <1>5, <1>6 DEF RemoveStep

LEMMA RemoveDirLocal ==
  ASSUME LocalInv, NEW p \in Procs, RemoveDir(p)
  PROVE  LocalInv'
  <1>1. files' \in [Paths -> Contents \cup {None}]
    BY DEF RemoveDir, LocalInv
  <1>2. QED
    BY <1>1, FinishLocal DEF RemoveDir, LocalInv

LEMMA BucketRequestSafe ==
  ASSUME LocalInv, NEW p \in Procs, BucketRequest(p)
  PROVE  Next /\ LocalInv'
  <1>1. Next
    BY DEF BucketRequest, HandleCreateBucket, HandleDeleteBucket, AdminDeleteBucket,
           PutBucketVersioning, AdminPutBucketVersioning, Next, BucketStep, Statuses
  <1>2. CASE UNCHANGED <<files, req, started, issued>>
    BY <1>1, <1>2 DEF LocalInv, WritersBecomeHeads, BecomesHead
  <1>3. ASSUME NEW b \in Buckets, HandleDeleteBucket(p, b) PROVE LocalInv'
    <2> DEFINE r == [at |-> "rmdir", b |-> b]
    <2>1. r \in Requests /\ r.at = "rmdir"
      BY DEF Requests, Dropping
    <2>2. req' = [req EXCEPT ![p] = r] /\ UNCHANGED <<files, started, issued>>
      BY <1>3 DEF HandleDeleteBucket
    <2> HIDE DEF r
    <2>3. QED
      BY <2>1, <2>2, RequestUpdate DEF LocalInv
  <1>4. QED
    BY <1>1, <1>2, <1>3 DEF BucketRequest, HandleCreateBucket, AdminDeleteBucket,
       PutBucketVersioning, AdminPutBucketVersioning

LEMMA CrashLocal ==
  ASSUME LocalInv, Crash
  PROVE  LocalInv'
  BY DEF LocalInv, Crash, Requests, Idle, WritersBecomeHeads

-----------------------------------------------------------------------------
LEMMA BackendInitEstablishes == BackendInit => BackendInv
  <1> SUFFICES ASSUME BackendInit PROVE BackendInv
    OBVIOUS
  <1>1. IndexInv
    BY InitEstablishes DEF BackendInit
  <1>2. LocalInv
    BY ClockAssumption DEF BackendInit, LocalInv, Requests, Idle, WritersBecomeHeads
  <1>3. QED
    BY <1>1, <1>2 DEF BackendInv

\* Every step of the handlers is a step of the index or leaves it alone.
LEMMA BackendStepSafe ==
  BackendInv /\ [BackendNext]_backendVars => [Next]_vars /\ LocalInv'
  <1> SUFFICES ASSUME BackendInv, [BackendNext]_backendVars PROVE [Next]_vars /\ LocalInv'
    OBVIOUS
  <1>1. CASE UNCHANGED backendVars
    BY <1>1 DEF backendVars, BackendInv, LocalInv, WritersBecomeHeads, BecomesHead
  <1>2. CASE Crash
    BY <1>2, CrashLocal DEF BackendInv, Crash
  <1>3. ASSUME NEW p \in Procs, BucketRequest(p) PROVE [Next]_vars /\ LocalInv'
    BY <1>3, BucketRequestSafe DEF BackendInv
  <1>4. ASSUME NEW p \in Procs, BeginRequest(p) PROVE [Next]_vars /\ LocalInv'
    BY <1>4, BeginRequestLocal
  <1>5. ASSUME NEW p \in Procs, RemoveDir(p) PROVE [Next]_vars /\ LocalInv'
    BY <1>5, RemoveDirLocal DEF BackendInv, RemoveDir
  <1>6. QED
    BY <1>1, <1>2, <1>3, <1>4, <1>5, PutStepSafe, ReadStepSafe, RemoveStepSafe DEF BackendNext

LEMMA BackendStepPreserves == BackendInv /\ [BackendNext]_backendVars => BackendInv'
  BY BackendStepSafe, StepPreserves DEF BackendInv

LEMMA BackendInvariant == BackendSpec => []BackendInv
  BY BackendInitEstablishes, BackendStepPreserves, PTL DEF BackendSpec

\* Type correctness: the tables, the files and the requests in flight.
THEOREM BackendTypeCorrect == BackendSpec => []BackendTypeOK
  <1>1. BackendInv => BackendTypeOK
    BY DEF BackendInv, IndexInv, LocalInv, BackendTypeOK
  <1>2. QED
    BY <1>1, BackendInvariant, PTL

\* The handlers implement the index: whatever requests run at once, wherever
\* one fails and whenever the process dies, the tables change only as
\* VersionIndex says.
THEOREM BackendImplementsIndex == BackendSpec => ImplementsIndex
  <1>1. BackendInit => Init
    BY DEF BackendInit
  <1>2. QED
    BY <1>1, BackendStepSafe, BackendInvariant, PTL DEF BackendSpec, Spec, ImplementsIndex

\* So the theorems about VersionIndex hold of the handlers too: GET resolves
\* to a record stored under its version id, and no version outlives its bucket.
THEOREM BackendHeadAlwaysStored == BackendSpec => [](HeadIsStored /\ GoneBucketsHoldNothing)
  BY BackendImplementsIndex, HeadAlwaysStored, NoGhostVersions, PTL DEF ImplementsIndex
-----------------------------------------------------------------------------
(***************************************************************************)
(* The files of versions with an id of their own, for any number of        *)
(* requests at a time, of buckets, keys and ids, with crashes and failing  *)
(* writes: every operation but COPY and the backend's bucket deletion.     *)
(*                                                                         *)
(* COPY writes a record with the id of another, and the bucket deletion    *)
(* removes files without looking; with either, VersionIntact fails.        *)
(***************************************************************************)
NoSharing == Ops \cap {"copy", "deleteBucket"} = {}

\* What a request in flight does with a version id.
Writes(r, u) == r.at \in {"upload", "rename", "place", "commit", "mark"} /\ r.m.vid = u
Removes(r, u) == r.at \in {"lock", "remove", "unlink"} /\ r.vid = u
Reads(r, u) == r.at = "open" /\ r.m.vid = u
Uses(r, u) == Writes(r, u) \/ Removes(r, u) \/ Reads(r, u)
Recorded(u) == \E b \in Buckets, k \in Keys : \E m \in versions[b][k] : m.vid = u

\* No request shares ids or removes directories, and "mark" writes a marker.
OnlyOwnOps ==
    \A p \in Procs : /\ req[p].at \notin {"copy", "rmdir"}
                     /\ req[p].at = "mark" => req[p].m.body.marker

\* The version ids that clients may name.
Known == issued \cup MadeUp

UsedAreKnown ==
    \A u \in Uuids :
        Recorded(u) \/ (\E p \in Procs : Uses(req[p], u)) => u \in Known

\* No version has an id that a client made up.
MadeUpIsNone ==
    \A u \in MadeUp :
        ~Recorded(u) /\ \A p \in Procs : ~Writes(req[p], u) /\ ~Reads(req[p], u)

\* Until its record is committed, a version id is known to its writer only.
SoleWriter ==
    \A p \in Procs, u \in Uuids :
        Writes(req[p], u) => /\ ~Recorded(u)
                             /\ \A q \in Procs \ {p} : ~Uses(req[q], u)

\* The file is in place, unless another name has removed it.
Placed(c, b, k, m) ==
    /\ c \in {None, m.body.content}
    /\ Alone(b, k, m.vid) => c = m.body.content
InPlace(b, k, m) == Placed(File(b, k, m.vid), b, k, m)

\* Between the rename and the commit the file is in place, and from then on.
FilePlaced ==
    \A p \in Procs :
        req[p].at = "commit" /\ req[p].m.vid \in Uuids => InPlace(req[p].b, req[p].k, req[p].m)

VersionsInPlace ==
    \A b \in Buckets, k \in Keys : \A m \in versions[b][k] :
        m.vid \in Uuids /\ ~m.body.marker => InPlace(b, k, m)

\* Between the removal of a record and that of its file the record stays away.
RecordRemoved ==
    \A p \in Procs :
        req[p].at = "unlink" /\ req[p].vid \in Uuids
        => \A m \in versions[req[p].b][req[p].k] : m.vid # req[p].vid

\* A GET finds the file it has read the record of, or none.
FileAwaited ==
    \A p \in Procs :
        req[p].at = "open" /\ req[p].m.vid \in Uuids /\ ~req[p].m.body.marker
        => File(req[p].b, req[p].k, req[p].m.vid) \in {None, req[p].m.body.content}

\* The inductive invariant: a file is touched only by the writer of its version
\* before the record is there, and by removers after the record is gone.
FilesInv ==
    /\ OnlyOwnOps
    /\ UsedAreKnown
    /\ MadeUpIsNone
    /\ SoleWriter
    /\ FilePlaced
    /\ RecordRemoved
    /\ FileAwaited
    /\ VersionsInPlace
    /\ VersionReadsMatch

-----------------------------------------------------------------------------
LEMMA IdleUsesNothing ==
  /\ Idle \in Requests /\ Idle.at = "idle"
  /\ \A u \in Uuids : ~Uses(Idle, u)
  BY DEF Requests, Idle, Uses, Writes, Removes, Reads

SetRequest(p, r) == req' = [req EXCEPT ![p] = r]

LEMMA StillInPlace ==
  ASSUME UNCHANGED files
  PROVE  \A b, k, m : InPlace(b, k, m)' = InPlace(b, k, m)
  BY DEF InPlace, File

LEMMA OneRequestChanges ==
  ASSUME LocalInv, NEW p \in Procs, NEW r, SetRequest(p, r)
  PROVE  \A q \in Procs : req'[q] = IF q = p THEN r ELSE req[q]
  BY DEF LocalInv, SetRequest

\* A step that concerns one request only.
LEMMA RequestStep ==
  ASSUME FilesInv, LocalInv, NEW p \in Procs, NEW r,
         SetRequest(p, r),
         UNCHANGED <<versions, files>>, issued \subseteq issued',
         r.at \notin {"copy", "rmdir", "commit", "unlink"},
         r.at = "mark" => r.m.body.marker,
         \A u \in Uuids : Uses(r, u) => u \in Known',
         \A u \in MadeUp : ~Writes(r, u) /\ ~Reads(r, u),
         \A u \in Uuids : Writes(r, u) => Writes(req[p], u) \/ u \notin Known,
         \A u \in Uuids : Uses(r, u) /\ ~Writes(r, u) => \A q \in Procs : ~Writes(req[q], u),
         r.at = "open" /\ r.m.vid \in Uuids /\ ~r.m.body.marker
         => File(r.b, r.k, r.m.vid) \in {None, r.m.body.content},
         r.at = "send" /\ r.m.vid \in Uuids => r.m.body.marker \/ r.data = r.m.body.content
  PROVE  FilesInv'
  <1>1. \A q \in Procs : req'[q] = IF q = p THEN r ELSE req[q]
    BY OneRequestChanges
  <1>2. /\ \A u : Recorded(u)' = Recorded(u)
        /\ \A b, k, u : File(b, k, u)' = File(b, k, u)
    BY DEF Recorded, File
  <1>3. \A q \in Procs : \A u : Uses(req[q], u)' = Uses(req'[q], u)
    BY DEF Uses, Writes, Removes, Reads
  <1>4. \A q \in Procs : \A u : Writes(req[q], u)' = Writes(req'[q], u)
    BY DEF Writes
  <1>5. \A q \in Procs : \A u : Writes(req[q], u) => Uses(req[q], u)
    BY DEF Uses
  <1>6. OnlyOwnOps'
    BY <1>1 DEF FilesInv, OnlyOwnOps
  <1>7. UsedAreKnown'
    BY <1>1, <1>2, <1>3 DEF FilesInv, UsedAreKnown, Known
  <1>14. MadeUpIsNone'
    BY <1>1, <1>2 DEF FilesInv, MadeUpIsNone, Writes, Reads
  <1>8. SoleWriter'
    <2> SUFFICES ASSUME NEW q \in Procs, NEW u \in Uuids, Writes(req'[q], u)
                 PROVE  /\ ~Recorded(u)
                        /\ \A q2 \in Procs \ {q} : ~Uses(req'[q2], u)
      BY <1>2, <1>3, <1>4 DEF SoleWriter
    <2>1. CASE q = p /\ u \notin Known
      BY <1>1, <2>1 DEF FilesInv, UsedAreKnown
    <2>2. CASE q = p /\ Writes(req[p], u)
      BY <1>1, <2>2 DEF FilesInv, SoleWriter
    <2>3. CASE q # p
      <3>1. Writes(req[q], u) /\ u \in Known
        BY <1>1, <1>5, <2>3 DEF FilesInv, UsedAreKnown
      <3>2. ~Uses(r, u)
        BY <1>5, <2>3, <3>1 DEF FilesInv, SoleWriter
      <3>3. QED
        BY <1>1, <3>1, <3>2 DEF FilesInv, SoleWriter
    <2>4. QED
      BY <1>1, <2>1, <2>2, <2>3
  <1>9. FilePlaced' /\ RecordRemoved'
    BY <1>1, <1>2, StillInPlace DEF FilesInv, FilePlaced, RecordRemoved
  <1>10. FileAwaited'
    BY <1>1, <1>2 DEF FilesInv, FileAwaited
  <1>11. VersionsInPlace'
    BY StillInPlace DEF FilesInv, VersionsInPlace
  <1>12. VersionReadsMatch'
    BY <1>1 DEF FilesInv, VersionReadsMatch
  <1>13. QED
    BY <1>6, <1>7, <1>14, <1>8, <1>9, <1>10, <1>11, <1>12 DEF FilesInv

LEMMA FinishStep ==
  ASSUME FilesInv, LocalInv, NEW p \in Procs, Finish(p), UNCHANGED <<versions, files, issued>>
  PROVE  FilesInv'
  <1>1. SetRequest(p, Idle)
    BY DEF Finish, SetRequest
  <1> HIDE DEF Idle
  <1>2. \A u \in Uuids : ~Writes(Idle, u) /\ ~Reads(Idle, u)
    BY IdleUsesNothing DEF Uses
  <1>3. QED
    BY <1>1, <1>2, IdleUsesNothing, RequestStep, PathAssumption

-----------------------------------------------------------------------------
(***************************************************************************)
(* Requests that arrive.                                                   *)
(***************************************************************************)
\* A write starts with an id that nobody knows yet, or with none.
LEMMA FreshWrite ==
  ASSUME FilesInv, LocalInv, NEW p \in Procs, NEW r \in Requests, NEW b \in Buckets,
         r.at \in {"upload", "place", "mark"}, r.at = "mark" => r.m.body.marker,
         NewVid(b, r.m.vid), SetRequest(p, r), UNCHANGED <<versions, files>>
  PROVE  FilesInv'
  <1>1. \A u \in Uuids : Uses(r, u) => r.m.vid = u /\ Writes(r, u)
    BY DEF Uses, Writes, Removes, Reads
  <1>2. issued \subseteq issued'
    BY DEF NewVid
  <1>3. r.m.vid \in Uuids => r.m.vid \notin Known /\ r.m.vid \in Known'
    BY UuidAssumption DEF NewVid, Known
  <1>4. \A u \in MadeUp : ~Writes(r, u) /\ ~Reads(r, u)
    BY <1>1, <1>3, PathAssumption DEF Uses, Known
  <1>5. QED
    BY <1>1, <1>2, <1>3, <1>4, RequestStep DEF Uses

LEMMA BeginPutFiles ==
  ASSUME FilesInv, BackendInv, NEW p \in Procs, NEW b \in Buckets, NEW k \in Keys,
         NEW hold \in BOOLEAN, BeginPut(p, b, k, hold)
  PROVE  FilesInv'
  <1> DEFINE body == [content |-> started + 1, marker |-> FALSE, hold |-> hold]
             r(vid) == Upload(b, k, Record(vid, TRUE, body))
  <1>1. PICK vid \in Vids : NewVid(b, vid) /\ Begin(p, "put", r(vid)) /\ UNCHANGED <<vars, files>>
    BY DEF BeginPut
  <1>2. LocalInv /\ body \in Body
    BY <1>1, NextContent DEF BackendInv
  <1> HIDE DEF body
  <1>3. Record(vid, TRUE, body) \in Meta
    BY <1>2, RecordType
  <1>4. r(vid) \in Requests /\ r(vid).at = "upload" /\ r(vid).m.vid = vid
    BY <1>3, UploadType DEF Record
  <1> HIDE DEF r
  <1>5. QED
    BY <1>1, <1>2, <1>4, FreshWrite DEF Begin, vars, SetRequest

LEMMA BeginPostFiles ==
  ASSUME FilesInv, BackendInv, NEW p \in Procs, NEW b \in Buckets, NEW k \in Keys,
         BeginPost(p, b, k)
  PROVE  FilesInv'
  <1> DEFINE body == [content |-> started + 1, marker |-> FALSE, hold |-> FALSE]
             r == Upload(b, k, Record("", FALSE, body))
  <1>1. Begin(p, "post", r) /\ UNCHANGED <<vars, files, issued>>
    BY DEF BeginPost
  <1>2. r.at = "upload" /\ r.m.vid = ""
    BY DEF Upload, Record
  <1> HIDE DEF r
  <1>3. \A u \in Uuids : ~Uses(r, u) /\ ~Writes(r, u) /\ ~Reads(r, u)
    BY <1>2, UuidAssumption DEF Uses, Writes, Removes, Reads
  <1>4. QED
    BY <1>1, <1>2, <1>3, RequestStep, PathAssumption DEF BackendInv, Begin, vars, SetRequest

LEMMA BeginCompleteFiles ==
  ASSUME FilesInv, BackendInv, NEW p \in Procs, NEW b \in Buckets, NEW k \in Keys,
         NEW hold \in BOOLEAN, BeginComplete(p, b, k, hold)
  PROVE  FilesInv'
  <1> DEFINE body == [content |-> started + 1, marker |-> FALSE, hold |-> hold]
             r(vid) == [at |-> "place", b |-> b, k |-> k, since |-> clock,
                        m |-> Record(vid, TRUE, body)]
  <1>1. PICK vid \in Vids : NewVid(b, vid) /\ Begin(p, "complete", r(vid))
                            /\ UNCHANGED <<vars, files>>
    BY DEF BeginComplete
  <1>2. LocalInv /\ TypeOK /\ body \in Body
    BY <1>1, NextContent DEF BackendInv, IndexInv
  <1> HIDE DEF body
  <1>3. Record(vid, TRUE, body) \in Meta
    BY <1>2, RecordType
  <1>4. r(vid) \in Requests /\ r(vid).at = "place" /\ r(vid).m.vid = vid
    BY <1>2, <1>3, StampedRequest DEF Record
  <1> HIDE DEF r
  <1>5. QED
    BY <1>1, <1>2, <1>4, FreshWrite DEF Begin, vars, SetRequest

\* What a GET finds is recorded.
LEMMA FoundIsRecorded ==
  ASSUME IndexInv, NEW b \in Buckets, NEW k \in Keys, NEW vid \in Vids,
         GetObject(b, k, vid) # None
  PROVE  GetObject(b, k, vid) \in versions[b][k]
  <1>1. CASE vid = ""
    BY <1>1 DEF GetObject, IndexInv, HeadIsStored
  <1>2. CASE vid # ""
    <2>1. \E m \in versions[b][k] : m.vid = vid
      BY <1>2 DEF GetObject
    <2>2. QED
      BY <1>2, <2>1 DEF GetObject
  <1>3. QED
    BY <1>1, <1>2

LEMMA BeginGetFiles ==
  ASSUME FilesInv, BackendInv, NEW p \in Procs, NEW b \in Buckets, NEW k \in Keys,
         NEW vid \in Vids, BeginGet(p, b, k, vid)
  PROVE  FilesInv'
  <1> DEFINE m == GetObject(b, k, vid)
             r == [at |-> "open", b |-> b, k |-> k, m |-> m]
  <1>1. m \in versions[b][k]
    BY FoundIsRecorded DEF BeginGet, BackendInv
  <1>2. Begin(p, "get", r) /\ UNCHANGED <<vars, files, issued>>
    BY DEF BeginGet
  <1> HIDE DEF m
  <1>3. Recorded(m.vid)
    BY <1>1 DEF Recorded
  <1>4. \A u \in Uuids : Uses(r, u) => u = m.vid
    BY DEF Uses, Writes, Removes, Reads
  <1>5. \A u : ~Writes(r, u)
    BY DEF Writes
  <1>6. /\ m.vid \in Uuids => m.vid \in Known /\ \A q \in Procs : ~Writes(req[q], m.vid)
        /\ m.vid \notin MadeUp
    BY <1>3 DEF FilesInv, UsedAreKnown, SoleWriter, MadeUpIsNone
  <1>7. m.vid \in Uuids /\ ~m.body.marker => File(b, k, m.vid) \in {None, m.body.content}
    BY <1>1 DEF FilesInv, VersionsInPlace, InPlace, Placed
  <1>8. r.at = "open" /\ r.m = m /\ r.b = b /\ r.k = k
    OBVIOUS
  <1> HIDE DEF r
  <1>9. LocalInv /\ SetRequest(p, r) /\ UNCHANGED <<versions, files, issued>>
    BY <1>2 DEF BackendInv, Begin, vars, SetRequest
  <1>10. \A u \in Uuids : Uses(r, u) => u \in Known' /\ \A q \in Procs : ~Writes(req[q], u)
    BY <1>4, <1>6, <1>9 DEF Known
  <1>11. \A u \in MadeUp : ~Writes(r, u) /\ ~Reads(r, u)
    BY <1>5, <1>6, <1>8 DEF Reads
  <1>12. QED
    BY <1>5, <1>7, <1>8, <1>9, <1>10, <1>11, RequestStep

LEMMA BeginDeletion ==
  ASSUME FilesInv, LocalInv, NEW p \in Procs, NEW b \in Buckets, NEW k \in Keys,
         NEW vid \in Vids, SetRequest(p, Deletion(b, k, vid)),
         UNCHANGED <<versions, files, issued>>,
         vid \in Uuids => vid \in Disclosed \cup MadeUp
  PROVE  FilesInv'
  <1> DEFINE r == Deletion(b, k, vid)
  <1>1. r.at = "lock" /\ r.vid = vid
    BY DEF Deletion
  <1> HIDE DEF r
  <1>2. \A u \in Uuids : (Uses(r, u) => u = vid) /\ ~Writes(r, u) /\ ~Reads(r, u)
    BY <1>1 DEF Uses, Writes, Removes, Reads
  <1>3. vid \in Uuids => vid \in Known /\ \A q \in Procs : ~Writes(req[q], vid)
    <2> SUFFICES ASSUME vid \in Disclosed, NEW q \in Procs, Writes(req[q], vid) PROVE FALSE
      BY DEF Disclosed, Known, FilesInv, MadeUpIsNone
    <2>1. Recorded(vid)
      BY DEF Disclosed, Writes, Recorded
    <2>2. vid \in Uuids
      BY DEF Disclosed, LocalInv
    <2>3. QED
      BY <2>1, <2>2 DEF FilesInv, SoleWriter
  <1>4. SetRequest(p, r)
    BY DEF r
  <1>5. \A u \in Uuids : Uses(r, u) => u \in Known' /\ \A q \in Procs : ~Writes(req[q], u)
    BY <1>2, <1>3 DEF Known
  <1>6. QED
    BY <1>1, <1>2, <1>4, <1>5, RequestStep, PathAssumption

LEMMA BeginDeleteFiles ==
  ASSUME FilesInv, BackendInv, NEW p \in Procs, NEW b \in Buckets, NEW k \in Keys,
         BeginDelete(p, b, k)
  PROVE  FilesInv'
  <1>1. LocalInv /\ TypeOK /\ UNCHANGED <<vars, files>>
    BY DEF BackendInv, IndexInv, BeginDelete
  <1>2. CASE Begin(p, "delete", Deletion(b, k, "")) /\ UNCHANGED issued
    BY <1>1, <1>2, UuidAssumption, BeginDeletion DEF Begin, vars, Vids, SetRequest
  <1> DEFINE body == [content |-> 0, marker |-> TRUE, hold |-> FALSE]
             r(vid) == [at |-> "mark", b |-> b, k |-> k, since |-> clock,
                        m |-> Record(vid, TRUE, body)]
  <1>3. ASSUME NEW vid \in Vids, NewVid(b, vid), Begin(p, "delete", r(vid))
        PROVE  FilesInv'
    <2>1. body \in Body /\ body.marker
      BY ClockAssumption DEF Body, Contents
    <2> HIDE DEF body
    <2>2. Record(vid, TRUE, body) \in Meta
      BY <2>1, RecordType
    <2>3. r(vid) \in Requests /\ r(vid).at = "mark" /\ r(vid).m.vid = vid
          /\ r(vid).m.body.marker
      BY <1>1, <2>1, <2>2, StampedRequest DEF Record
    <2> HIDE DEF r
    <2>4. QED
      BY <1>1, <1>3, <2>3, FreshWrite DEF Begin, vars, SetRequest
  <1>4. QED
    BY <1>2, <1>3 DEF BeginDelete

LEMMA BeginDeleteVersionFiles ==
  ASSUME FilesInv, BackendInv, NEW p \in Procs, NEW b \in Buckets, NEW k \in Keys,
         NEW vid \in Disclosed \cup MadeUp \cup {"null"}, BeginDeleteVersion(p, b, k, vid)
  PROVE  FilesInv'
  <1>1. vid \in Vids /\ (vid \in Uuids => vid \in Disclosed \cup MadeUp)
    BY UuidAssumption, PathAssumption DEF BackendInv, LocalInv, Disclosed, Vids
  <1>2. QED
    BY <1>1, BeginDeletion DEF BeginDeleteVersion, Begin, vars, BackendInv, SetRequest

LEMMA BeginRequestFiles ==
  ASSUME NoSharing, FilesInv, BackendInv, NEW p \in Procs, BeginRequest(p)
  PROVE  FilesInv'
  <1>1. \A srcB, srcK, b, k, replace, hold : ~BeginCopy(p, srcB, srcK, b, k, replace, hold)
    BY DEF NoSharing, BeginCopy, Begin
  <1>2. Holds \subseteq BOOLEAN
    BY DEF Holds
  <1>3. QED
    BY <1>1, <1>2, BeginPutFiles, BeginPostFiles, BeginCompleteFiles, BeginGetFiles, BeginDeleteFiles,
       BeginDeleteVersionFiles DEF BeginRequest

-----------------------------------------------------------------------------
(***************************************************************************)
(* Steps that touch neither a file nor a record.                           *)
(***************************************************************************)
LEMMA CheckBucketFiles ==
  ASSUME FilesInv, LocalInv, NEW p \in Procs, CheckBucket(p)
  PROVE  FilesInv'
  <1> DEFINE r == [req[p] EXCEPT !.at = "rename"]
  <1>1. UNCHANGED <<versions, files, issued>> /\ req[p].at = "upload"
    BY DEF CheckBucket, vars
  <1>2. CASE Finish(p)
    BY <1>1, <1>2, FinishStep
  <1>3. CASE Goto(p, "rename")
    <2>1. req[p] \in Unstamped
      BY <1>1, UnstampedType DEF LocalInv
    <2>2. r.at = "rename" /\ r.m = req[p].m
      BY <2>1 DEF Unstamped
    <2>3. SetRequest(p, r)
      BY <1>3 DEF Goto, SetRequest
    <2> HIDE DEF r
    <2>4. \A u \in Uuids : Uses(r, u) => Writes(r, u) /\ Writes(req[p], u) /\ Uses(req[p], u)
      BY <1>1, <2>2 DEF Uses, Writes, Removes, Reads
    <2>5. \A u \in Uuids : (Writes(r, u) => Uses(r, u)) /\ (Reads(r, u) => Uses(r, u))
      BY DEF Uses
    <2>6. /\ \A u \in Uuids : Uses(req[p], u) => u \in Known'
          /\ \A u \in MadeUp : u \in Uuids /\ ~Writes(req[p], u)
      BY <1>1, PathAssumption DEF FilesInv, UsedAreKnown, MadeUpIsNone, Known
    <2>7. QED
      BY <1>1, <2>2, <2>3, <2>4, <2>5, <2>6, RequestStep
  <1>4. QED
    BY <1>2, <1>3 DEF CheckBucket

LEMMA CheckLockFiles ==
  ASSUME FilesInv, LocalInv, NEW p \in Procs, CheckLock(p)
  PROVE  FilesInv'
  <1> DEFINE r == [req[p] EXCEPT !.at = "remove"]
  <1>1. UNCHANGED <<versions, files, issued>> /\ req[p].at = "lock"
    BY DEF CheckLock, vars
  <1>2. CASE Finish(p)
    BY <1>1, <1>2, FinishStep
  <1>3. CASE Goto(p, "remove")
    <2>1. req[p] \in Removing
      BY <1>1, RemovingType DEF LocalInv
    <2>2. r.at = "remove" /\ r.vid = req[p].vid
      BY <2>1 DEF Removing
    <2>3. SetRequest(p, r)
      BY <1>3 DEF Goto, SetRequest
    <2> HIDE DEF r
    <2>4. \A u \in Uuids : /\ ~Writes(r, u) /\ ~Reads(r, u) /\ ~Writes(req[p], u)
                           /\ Uses(r, u) => Uses(req[p], u)
      BY <1>1, <2>2 DEF Uses, Writes, Removes, Reads
    <2>5. \A u \in Uuids : Uses(req[p], u) => u \in Known' /\ \A q \in Procs : ~Writes(req[q], u)
      BY <1>1, <2>4 DEF FilesInv, UsedAreKnown, SoleWriter, Known
    <2>6. QED
      BY <1>1, <2>2, <2>3, <2>4, <2>5, RequestStep, PathAssumption
  <1>4. QED
    BY <1>2, <1>3 DEF CheckLock

LEMMA OpenFileFiles ==
  ASSUME FilesInv, LocalInv, NEW p \in Procs, OpenFile(p)
  PROVE  FilesInv'
  <1> DEFINE data == File(req[p].b, req[p].k, req[p].m.vid)
             r == [at |-> "send", b |-> req[p].b, k |-> req[p].k, m |-> req[p].m, data |-> data]
  <1>1. UNCHANGED <<versions, files, issued>> /\ req[p].at = "open"
    BY DEF OpenFile, vars
  <1>2. CASE Finish(p)
    BY <1>1, <1>2, FinishStep
  <1>3. CASE data # None /\ SetRequest(p, r)
    <2>1. \A u \in Uuids : ~Uses(r, u) /\ ~Writes(r, u) /\ ~Reads(r, u)
      BY DEF Uses, Writes, Removes, Reads
    <2>2. req[p].m.vid \in Uuids /\ ~req[p].m.body.marker => data = req[p].m.body.content
      BY <1>1, <1>3 DEF FilesInv, FileAwaited
    <2>3. r.at = "send" /\ r.m = req[p].m /\ r.data = data
      OBVIOUS
    <2> HIDE DEF r, data
    <2>4. QED
      BY <1>1, <1>3, <2>1, <2>2, <2>3, RequestStep, PathAssumption
  <1>4. QED
    BY <1>2, <1>3 DEF OpenFile, SetRequest

LEMMA ReadStepFiles ==
  ASSUME FilesInv, LocalInv, NEW p \in Procs, ReadStep(p)
  PROVE  FilesInv'
  <1>1. CASE SendBody(p)
    BY <1>1, FinishStep DEF SendBody, vars
  <1>2. ~CopyOpen(p)
    BY DEF FilesInv, OnlyOwnOps, CopyOpen
  <1>3. QED
    BY <1>1, <1>2, OpenFileFiles DEF ReadStep

LEMMA FilesStutter ==
  ASSUME FilesInv, UNCHANGED <<versions, files, req, issued>>
  PROVE  FilesInv'
  <1>1. FilePlaced' /\ VersionsInPlace'
    BY StillInPlace DEF FilesInv, FilePlaced, VersionsInPlace
  <1>2. QED
    BY <1>1 DEF FilesInv, OnlyOwnOps, UsedAreKnown, MadeUpIsNone, Known, SoleWriter,
                RecordRemoved, FileAwaited, VersionReadsMatch, Recorded, File,
                Uses, Writes, Removes, Reads

LEMMA BucketRequestFiles ==
  ASSUME NoSharing, FilesInv, NEW p \in Procs, BucketRequest(p)
  PROVE  FilesInv'
  <1>1. UNCHANGED <<versions, files, req, issued>>
    BY DEF NoSharing, BucketRequest, HandleCreateBucket, HandleDeleteBucket, AdminDeleteBucket,
           PutBucketVersioning, AdminPutBucketVersioning, CreateBucket, DeleteBucket, UpdateBucket
  <1>2. QED
    BY <1>1, FilesStutter

LEMMA CrashFiles ==
  ASSUME FilesInv, Crash
  PROVE  FilesInv'
  <1>1. /\ UNCHANGED <<versions, files, issued>>
        /\ \A p \in Procs : req'[p] = Idle
    BY DEF Crash, vars
  <1>2. \A p \in Procs : req'[p].at = "idle"
    BY <1>1, IdleUsesNothing
  <1>3. \A p \in Procs : \A u : ~Uses(req[p], u)' /\ ~Writes(req[p], u)' /\ ~Reads(req[p], u)'
    BY <1>2 DEF Uses, Writes, Removes, Reads
  <1>4. \A u : Recorded(u)' = Recorded(u)
    BY <1>1 DEF Recorded
  <1>5. UsedAreKnown' /\ SoleWriter' /\ MadeUpIsNone'
    BY <1>1, <1>3, <1>4 DEF FilesInv, UsedAreKnown, Known, SoleWriter, MadeUpIsNone
  <1>6. OnlyOwnOps' /\ FilePlaced' /\ RecordRemoved' /\ FileAwaited' /\ VersionReadsMatch'
    BY <1>2 DEF OnlyOwnOps, FilePlaced, RecordRemoved, FileAwaited, VersionReadsMatch
  <1>7. VersionsInPlace'
    BY <1>1, StillInPlace DEF FilesInv, VersionsInPlace
  <1>8. QED
    BY <1>5, <1>6, <1>7 DEF FilesInv

-----------------------------------------------------------------------------
(***************************************************************************)
(* Steps that write or remove a file.                                      *)
(***************************************************************************)
SetFile(b, k, vid, c) == files' = [files EXCEPT ![Path(b, k, vid)] = c]

LEMMA OneFileChanges ==
  ASSUME LocalInv, NEW b \in Buckets, NEW k \in Keys, NEW vid \in Vids, NEW c,
         SetFile(b, k, vid, c)
  PROVE  \A b2 \in Buckets, k2 \in Keys, v \in Vids :
            File(b2, k2, v)' = IF Path(b2, k2, v) = Path(b, k, vid) THEN c ELSE File(b2, k2, v)
  <1> SUFFICES ASSUME NEW b2 \in Buckets, NEW k2 \in Keys, NEW v \in Vids
               PROVE  files'[Path(b2, k2, v)] = IF Path(b2, k2, v) = Path(b, k, vid) THEN c
                                                ELSE files[Path(b2, k2, v)]
    BY DEF File, Path
  <1>1. Path(b2, k2, v) \in Paths /\ Path(b, k, vid) \in Paths
    BY PathType
  <1>2. QED
    BY <1>1 DEF LocalInv, SetFile

\* Which names lead to the file of a version with an id of its own.
LEMMA SamePath ==
  ASSUME NEW b \in Buckets, NEW k \in Keys, NEW vid \in Vids,
         NEW b2 \in Buckets, NEW k2 \in Keys, NEW u \in Uuids \ MadeUp,
         Path(b2, k2, u) = Path(b, k, vid)
  PROVE  /\ vid = u \/ vid \in MadeUp
         /\ Alone(b2, k2, u) => b2 = b /\ k2 = k /\ vid = u
  <1>1. /\ FileVid(u) = u /\ u \in FileVids
        /\ FileVid(vid) \in FileVids
        /\ FileVid(vid) = u => vid = u
        /\ FileVid(vid) \in MadeUp => vid \in MadeUp
    BY UuidAssumption, PathAssumption DEF FileVid, FileVids, Vids
  <1>2. vid = u \/ vid \in MadeUp
    BY <1>1, PathAssumption DEF Path
  <1>3. Alone(b2, k2, u) => b2 = b /\ k2 = k /\ FileVid(vid) = FileVid(u)
    BY <1>1 DEF Alone, Path
  <1>4. QED
    BY <1>1, <1>2, <1>3

\* A version keeps its file when another's is set, or loses one it shares.
LEMMA KeptInPlace ==
  ASSUME LocalInv, NEW b \in Buckets, NEW k \in Keys, NEW vid \in Vids, NEW c,
         SetFile(b, k, vid, c),
         NEW b2 \in Buckets, NEW k2 \in Keys, NEW m, m.vid \in Uuids \ MadeUp,
         InPlace(b2, k2, m),
         vid = m.vid \/ vid \in MadeUp => c = None,
         ~(b2 = b /\ k2 = k /\ vid = m.vid)
  PROVE  InPlace(b2, k2, m)'
  <1>1. m.vid \in Vids
    BY DEF Vids
  <1>2. File(b2, k2, m.vid)' = IF Path(b2, k2, m.vid) = Path(b, k, vid) THEN c
                               ELSE File(b2, k2, m.vid)
    BY <1>1, OneFileChanges
  <1>3. Path(b2, k2, m.vid) = Path(b, k, vid) => c = None /\ ~Alone(b2, k2, m.vid)
    BY SamePath
  <1>4. QED
    BY <1>2, <1>3 DEF InPlace, Placed

\* A step that changes the file of one version, which is not recorded.
LEMMA FileStep ==
  ASSUME FilesInv, LocalInv, NEW p \in Procs, NEW r, NEW c,
         NEW b \in Buckets, NEW k \in Keys, NEW vid \in Vids,
         SetFile(b, k, vid, c),
         SetRequest(p, r),
         UNCHANGED <<versions, issued>>,
         r.at \notin {"copy", "rmdir", "mark", "unlink", "open", "send"},
         \A u \in Uuids : Uses(r, u) => Writes(req[p], u),
         r.at = "commit" => /\ r.b = b /\ r.k = k /\ r.m.vid = vid
                            /\ r.m.body.content = c,
         vid \in MadeUp => c = None,
         vid \in Uuids => \A m \in versions[b][k] : m.vid # vid,
         vid \in Uuids /\ c # None => ~Recorded(vid),
         vid \in Uuids => \A q \in Procs : /\ q # p => ~Writes(req[q], vid)
                                           /\ Reads(req[q], vid) => c = None
  PROVE  FilesInv'
  <1>1. \A q \in Procs : req'[q] = IF q = p THEN r ELSE req[q]
    BY OneRequestChanges
  <1>2. \A u : Recorded(u)' = Recorded(u)
    BY DEF Recorded
  <1>3. /\ \A q \in Procs : \A u : Uses(req[q], u)' = Uses(req'[q], u)
        /\ \A q \in Procs : \A u : Writes(req[q], u)' = Writes(req'[q], u)
    BY DEF Uses, Writes, Removes, Reads
  <1>4. \A q \in Procs : \A u : Writes(req[q], u) => Uses(req[q], u)
    BY DEF Uses
  <1>5. \A u : (Writes(r, u) => Uses(r, u)) /\ (Reads(r, u) => Uses(r, u))
    BY DEF Uses
  <1>6. OnlyOwnOps'
    BY <1>1 DEF FilesInv, OnlyOwnOps
  <1>7. UsedAreKnown'
    BY <1>1, <1>2, <1>3, <1>4 DEF FilesInv, UsedAreKnown, Known
  <1>8. MadeUpIsNone'
    <2>1. \A u \in MadeUp : ~Writes(r, u) /\ ~Reads(r, u)
      BY <1>5, PathAssumption DEF FilesInv, MadeUpIsNone
    <2>2. QED
      BY <1>1, <1>2, <2>1 DEF FilesInv, MadeUpIsNone, Writes, Reads
  <1>9. SoleWriter'
    <2> SUFFICES ASSUME NEW q \in Procs, NEW u \in Uuids, Writes(req'[q], u)
                 PROVE  /\ ~Recorded(u)
                        /\ \A q2 \in Procs \ {q} : ~Uses(req'[q2], u)
      BY <1>2, <1>3 DEF SoleWriter
    <2>1. CASE q = p
      BY <1>1, <1>5, <2>1 DEF FilesInv, SoleWriter
    <2>2. CASE q # p
      BY <1>1, <1>4, <1>5, <2>2 DEF FilesInv, SoleWriter
    <2>3. QED
      BY <2>1, <2>2
  <1>10. FilePlaced'
    <2> SUFFICES ASSUME NEW q \in Procs, req'[q].at = "commit", req'[q].m.vid \in Uuids
                 PROVE  Placed(files'[Path(req'[q].b, req'[q].k, req'[q].m.vid)],
                               req'[q].b, req'[q].k, req'[q].m)
      BY DEF FilePlaced, InPlace, File
    <2>1. CASE q = p
      <3>1. /\ req'[q] = r /\ r.b = b /\ r.k = k /\ r.m.vid = vid
            /\ r.m.body.content = c
        BY <1>1, <2>1
      <3>2. File(b, k, vid)' = c
        BY OneFileChanges
      <3>3. QED
        BY <3>1, <3>2 DEF Placed, File
    <2>2. CASE q # p
      <3>1. req'[q] = req[q] /\ req[q] \in Stamped
        BY <1>1, <2>2, StampedType DEF LocalInv
      <3>2. PICK b2 \in Buckets, k2 \in Keys, m \in Meta :
                b2 = req[q].b /\ k2 = req[q].k /\ m = req[q].m
        BY <3>1 DEF Stamped
      <3>3. Writes(req[q], m.vid)
        BY <3>1, <3>2 DEF Writes
      <3>4. m.vid # vid /\ m.vid \in Uuids \ MadeUp
        BY <2>2, <3>1, <3>2, <3>3 DEF FilesInv, MadeUpIsNone
      <3>5. InPlace(b2, k2, m)
        BY <3>1, <3>2, <3>4 DEF FilesInv, FilePlaced
      <3>6. InPlace(b2, k2, m)'
        BY <3>4, <3>5, KeptInPlace
      <3>7. QED
        BY <3>1, <3>2, <3>6 DEF InPlace, File
    <2>3. QED
      BY <2>1, <2>2
  <1>11. RecordRemoved'
    BY <1>1 DEF FilesInv, RecordRemoved
  <1>12. FileAwaited'
    <2> SUFFICES ASSUME NEW q \in Procs, req'[q].at = "open", req'[q].m.vid \in Uuids,
                        ~req'[q].m.body.marker
                 PROVE  files'[Path(req'[q].b, req'[q].k, req'[q].m.vid)]
                            \in {None, req'[q].m.body.content}
      BY DEF FileAwaited, File
    <2>1. q # p /\ req'[q] = req[q] /\ req[q] \in Unstamped
      BY <1>1, UnstampedType DEF LocalInv
    <2>2. PICK b2 \in Buckets, k2 \in Keys, m \in Meta :
              b2 = req[q].b /\ k2 = req[q].k /\ m = req[q].m
      BY <2>1 DEF Unstamped
    <2>3. Reads(req[q], m.vid)
      BY <2>1, <2>2 DEF Reads
    <2>4. File(b2, k2, m.vid) \in {None, m.body.content}
      BY <2>1, <2>2 DEF FilesInv, FileAwaited
    <2>5. m.vid \in Uuids \ MadeUp
      BY <2>1, <2>2, <2>3 DEF FilesInv, MadeUpIsNone
    <2>6. Path(b2, k2, m.vid) = Path(b, k, vid) => c = None
      BY <2>3, <2>5, SamePath
    <2>7. File(b2, k2, m.vid)' \in {None, m.body.content}
      <3>1. m.vid \in Vids
        BY <2>5 DEF Vids
      <3>2. File(b2, k2, m.vid)' = IF Path(b2, k2, m.vid) = Path(b, k, vid) THEN c
                                   ELSE File(b2, k2, m.vid)
        BY <3>1, OneFileChanges
      <3>3. QED
        BY <2>4, <2>6, <3>2
    <2>8. QED
      BY <2>1, <2>2, <2>7 DEF File
  <1>13. VersionsInPlace'
    <2> SUFFICES ASSUME NEW b2 \in Buckets, NEW k2 \in Keys, NEW m \in versions[b2][k2],
                        m.vid \in Uuids, ~m.body.marker
                 PROVE  InPlace(b2, k2, m)'
      BY DEF VersionsInPlace
    <2>1. InPlace(b2, k2, m) /\ Recorded(m.vid)
      BY DEF FilesInv, VersionsInPlace, Recorded
    <2>2. m.vid \in Uuids \ MadeUp
      BY <2>1 DEF FilesInv, MadeUpIsNone
    <2>3. ~(b2 = b /\ k2 = k /\ vid = m.vid)
      OBVIOUS
    <2>4. vid = m.vid \/ vid \in MadeUp => c = None
      BY <2>1
    <2>5. QED
      BY <2>1, <2>2, <2>3, <2>4, KeptInPlace
  <1>14. VersionReadsMatch'
    BY <1>1 DEF FilesInv, VersionReadsMatch
  <1>15. QED
    BY <1>6, <1>7, <1>8, <1>9, <1>10, <1>11, <1>12, <1>13, <1>14 DEF FilesInv

\* What a writer may rely on.
LEMMA WriterAlone ==
  ASSUME FilesInv, NEW p \in Procs, NEW vid, Writes(req[p], vid)
  PROVE  /\ vid \in Uuids => ~Recorded(vid)
         /\ vid \in Uuids => \A q \in Procs : /\ q # p => ~Writes(req[q], vid)
                                              /\ ~Reads(req[q], vid)
         /\ vid \notin MadeUp
  BY DEF FilesInv, SoleWriter, MadeUpIsNone, Uses, Writes, Reads

LEMMA RenameFileFiles ==
  ASSUME FilesInv, LocalInv, NEW p \in Procs, RenameFile(p)
  PROVE  FilesInv'
  <1> DEFINE r == [at |-> "commit", b |-> req[p].b, k |-> req[p].k, m |-> req[p].m, since |-> clock]
  <1>1. req[p] \in Unstamped /\ req[p].at = "rename"
    BY UnstampedType DEF RenameFile, LocalInv
  <1>2. req[p].b \in Buckets /\ req[p].k \in Keys /\ req[p].m.vid \in Vids
    BY <1>1 DEF Unstamped, Meta
  <1>3. /\ SetFile(req[p].b, req[p].k, req[p].m.vid, req[p].m.body.content)
        /\ SetRequest(p, r)
        /\ UNCHANGED <<versions, issued>>
    BY DEF RenameFile, vars, SetFile, SetRequest
  <1>4. r.at = "commit" /\ r.b = req[p].b /\ r.k = req[p].k /\ r.m = req[p].m
    OBVIOUS
  <1> HIDE DEF r
  <1>5. \A u \in Uuids : Uses(r, u) => Writes(req[p], u)
    BY <1>1, <1>4 DEF Uses, Writes, Removes, Reads
  <1> DEFINE vid == req[p].m.vid
  <1>6. Writes(req[p], vid)
    BY <1>1 DEF Writes
  <1> HIDE DEF vid
  <1>7. /\ vid \in Uuids => ~Recorded(vid)
        /\ vid \in Uuids => \A q \in Procs : /\ q # p => ~Writes(req[q], vid)
                                             /\ ~Reads(req[q], vid)
        /\ vid \notin MadeUp
    BY <1>6, WriterAlone
  <1>8. QED
    BY <1>2, <1>3, <1>4, <1>5, <1>7, FileStep DEF vid, Recorded

LEMMA PlaceFileFiles ==
  ASSUME FilesInv, LocalInv, NEW p \in Procs, PlaceFile(p)
  PROVE  FilesInv'
  <1> DEFINE r == [req[p] EXCEPT !.at = "commit"]
  <1>1. req[p] \in Stamped /\ req[p].at = "place"
    BY StampedType DEF PlaceFile, LocalInv
  <1>2. req[p].b \in Buckets /\ req[p].k \in Keys /\ req[p].m.vid \in Vids
    BY <1>1 DEF Stamped, Meta
  <1>3. /\ SetFile(req[p].b, req[p].k, req[p].m.vid, req[p].m.body.content)
        /\ SetRequest(p, r)
        /\ UNCHANGED <<versions, issued>>
    BY DEF PlaceFile, Goto, vars, SetFile, SetRequest
  <1>4. r.at = "commit" /\ r.b = req[p].b /\ r.k = req[p].k /\ r.m = req[p].m
    BY <1>1 DEF Stamped
  <1> HIDE DEF r
  <1>5. \A u \in Uuids : Uses(r, u) => Writes(req[p], u)
    BY <1>1, <1>4 DEF Uses, Writes, Removes, Reads
  <1> DEFINE vid == req[p].m.vid
  <1>6. Writes(req[p], vid)
    BY <1>1 DEF Writes
  <1> HIDE DEF vid
  <1>7. /\ vid \in Uuids => ~Recorded(vid)
        /\ vid \in Uuids => \A q \in Procs : /\ q # p => ~Writes(req[q], vid)
                                             /\ ~Reads(req[q], vid)
        /\ vid \notin MadeUp
    BY <1>6, WriterAlone
  <1>8. QED
    BY <1>2, <1>3, <1>4, <1>5, <1>7, FileStep DEF vid, Recorded

LEMMA CommitPutFailsFiles ==
  ASSUME FilesInv, LocalInv, NEW p \in Procs, CommitPutFails(p)
  PROVE  FilesInv'
  <1>1. req[p] \in Stamped /\ req[p].at = "commit"
    BY StampedType DEF CommitPutFails, LocalInv
  <1>2. req[p].b \in Buckets /\ req[p].k \in Keys /\ req[p].m.vid \in Vids
    BY <1>1 DEF Stamped, Meta
  <1>3. /\ SetFile(req[p].b, req[p].k, req[p].m.vid, None)
        /\ SetRequest(p, Idle)
        /\ UNCHANGED <<versions, issued>>
    BY DEF CommitPutFails, Finish, vars, SetFile, SetRequest
  <1> DEFINE vid == req[p].m.vid
  <1>4. Writes(req[p], vid)
    BY <1>1 DEF Writes
  <1> HIDE DEF Idle, vid
  <1>5. /\ vid \in Uuids => ~Recorded(vid)
        /\ vid \in Uuids => \A q \in Procs : /\ q # p => ~Writes(req[q], vid)
                                             /\ ~Reads(req[q], vid)
        /\ vid \notin MadeUp
    BY <1>4, WriterAlone
  <1>6. QED
    BY <1>2, <1>3, <1>5, IdleUsesNothing, FileStep DEF vid, Recorded

LEMMA UnlinkFiles ==
  ASSUME FilesInv, LocalInv, NEW p \in Procs, Unlink(p)
  PROVE  FilesInv'
  <1>1. req[p] \in Removing /\ req[p].at = "unlink"
    BY RemovingType DEF Unlink, LocalInv
  <1>2. req[p].b \in Buckets /\ req[p].k \in Keys /\ req[p].vid \in Vids
    BY <1>1 DEF Removing
  <1>3. /\ SetFile(req[p].b, req[p].k, req[p].vid, None)
        /\ SetRequest(p, Idle)
        /\ UNCHANGED <<versions, issued>>
    BY DEF Unlink, Finish, vars, SetFile, SetRequest
  <1>4. Uses(req[p], req[p].vid)
    BY <1>1 DEF Uses, Removes
  <1>5. req[p].vid \in Uuids => \A q \in Procs : q # p => ~Writes(req[q], req[p].vid)
    BY <1>4 DEF FilesInv, SoleWriter
  <1>6. req[p].vid \in Uuids => \A m \in versions[req[p].b][req[p].k] : m.vid # req[p].vid
    BY <1>1 DEF FilesInv, RecordRemoved
  <1> HIDE DEF Idle
  <1>7. QED
    BY <1>2, <1>3, <1>5, <1>6, IdleUsesNothing, FileStep

-----------------------------------------------------------------------------
(***************************************************************************)
(* Steps that write or remove a record.                                    *)
(***************************************************************************)
SetVersions(b, k, S) == versions' = [versions EXCEPT ![b][k] = S]

\* S holds old versions, and at most the one that the request has been writing.
Accounted(p, b, k, S) ==
    \A n \in S : n.vid \in Uuids =>
        \/ \E m \in versions[b][k] : m.vid = n.vid /\ m.body = n.body
        \/ /\ Writes(req[p], n.vid)
           /\ ~n.body.marker => InPlace(b, k, n)

\* A step that gives one key such a set of versions.
LEMMA VersionStep ==
  ASSUME FilesInv, LocalInv, TypeOK, NEW p \in Procs, NEW r,
         NEW b \in Buckets, NEW k \in Keys, NEW S,
         SetVersions(b, k, S),
         SetRequest(p, r),
         UNCHANGED <<files, issued>>,
         r.at \notin {"copy", "rmdir", "mark", "commit", "open", "send"},
         \A u \in Uuids : ~Writes(r, u) /\ (Uses(r, u) => Uses(req[p], u)),
         r.at = "unlink" => /\ r.b = b /\ r.k = k
                            /\ r.vid \in Uuids => \A n \in S : n.vid # r.vid,
         Accounted(p, b, k, S)
  PROVE  FilesInv'
  <1>1. \A q \in Procs : req'[q] = IF q = p THEN r ELSE req[q]
    BY OneRequestChanges
  <1>2. \A b2 \in Buckets, k2 \in Keys :
            versions'[b2][k2] = IF b2 = b /\ k2 = k THEN S ELSE versions[b2][k2]
    BY DEF TypeOK, SetVersions
  <1>3. /\ \A q \in Procs : \A u : Uses(req[q], u)' = Uses(req'[q], u)
        /\ \A q \in Procs : \A u : Writes(req[q], u)' = Writes(req'[q], u)
    BY DEF Uses, Writes, Removes, Reads
  <1>4. \A q \in Procs : \A u : Writes(req[q], u) => Uses(req[q], u)
    BY DEF Uses
  <1>5. \A u \in Uuids : Recorded(u)' => Recorded(u) \/ Writes(req[p], u)
    BY <1>2 DEF Recorded, Accounted
  <1>6. OnlyOwnOps'
    BY <1>1 DEF FilesInv, OnlyOwnOps
  <1>7. UsedAreKnown'
    BY <1>1, <1>3, <1>4, <1>5 DEF FilesInv, UsedAreKnown, Known
  <1>8. MadeUpIsNone'
    <2> SUFFICES ASSUME NEW u \in MadeUp
                 PROVE  ~Recorded(u)' /\ \A q \in Procs : ~Writes(req'[q], u) /\ ~Reads(req'[q], u)
      BY DEF MadeUpIsNone, Writes, Reads
    <2>1. u \in Uuids
      BY PathAssumption
    <2>2. ~Recorded(u)'
      BY <1>5, <2>1 DEF FilesInv, MadeUpIsNone
    <2>3. ~Writes(r, u) /\ ~Reads(r, u)
      BY <2>1 DEF Reads
    <2>4. QED
      BY <1>1, <2>2, <2>3 DEF FilesInv, MadeUpIsNone
  <1>9. SoleWriter'
    <2> SUFFICES ASSUME NEW q \in Procs, NEW u \in Uuids, Writes(req'[q], u)
                 PROVE  /\ ~Recorded(u)'
                        /\ \A q2 \in Procs \ {q} : ~Uses(req'[q2], u)
      BY <1>3 DEF SoleWriter
    <2>1. q # p /\ Writes(req[q], u)
      BY <1>1
    <2>2. ~Uses(req[p], u) /\ ~Recorded(u)
      BY <2>1 DEF FilesInv, SoleWriter
    <2>3. ~Recorded(u)'
      BY <1>4, <1>5, <2>2
    <2>4. QED
      BY <1>1, <2>1, <2>2, <2>3 DEF FilesInv, SoleWriter
  <1>10. FilePlaced'
    BY <1>1, StillInPlace DEF FilesInv, FilePlaced
  <1>11. RecordRemoved'
    <2> SUFFICES ASSUME NEW q \in Procs, req'[q].at = "unlink", req'[q].vid \in Uuids,
                        NEW m \in versions'[req'[q].b][req'[q].k]
                 PROVE  m.vid # req'[q].vid
      BY DEF RecordRemoved
    <2>1. CASE q = p
      BY <1>1, <1>2, <2>1
    <2>2. CASE q # p
      <3>1. req'[q] = req[q] /\ req[q] \in Removing
        BY <1>1, <2>2, RemovingType DEF LocalInv
      <3>2. req[q].b \in Buckets /\ req[q].k \in Keys
        BY <3>1 DEF Removing
      <3>3. \A n \in versions[req[q].b][req[q].k] : n.vid # req[q].vid
        BY <3>1 DEF FilesInv, RecordRemoved
      <3>4. Uses(req[q], req[q].vid)
        BY <3>1 DEF Uses, Removes
      <3>5. ~Writes(req[p], req[q].vid)
        BY <2>2, <3>1, <3>4 DEF FilesInv, SoleWriter
      <3>6. QED
        BY <1>2, <3>1, <3>2, <3>3, <3>5 DEF Accounted
    <2>3. QED
      BY <2>1, <2>2
  <1>12. FileAwaited'
    BY <1>1 DEF FilesInv, FileAwaited, File
  <1>13. VersionsInPlace'
    <2> SUFFICES ASSUME NEW b2 \in Buckets, NEW k2 \in Keys, NEW m \in versions'[b2][k2],
                        m.vid \in Uuids, ~m.body.marker
                 PROVE  InPlace(b2, k2, m)
      BY StillInPlace DEF VersionsInPlace
    <2>1. \A n \in versions[b2][k2] : n.vid \in Uuids /\ ~n.body.marker => InPlace(b2, k2, n)
      BY DEF FilesInv, VersionsInPlace
    <2>2. \A n \in versions[b2][k2] :
              n.vid = m.vid /\ n.body = m.body /\ InPlace(b2, k2, n) => InPlace(b2, k2, m)
      BY DEF InPlace, Placed
    <2>3. QED
      BY <1>2, <2>1, <2>2 DEF Accounted
  <1>14. VersionReadsMatch'
    BY <1>1 DEF FilesInv, VersionReadsMatch
  <1>15. QED
    BY <1>6, <1>7, <1>8, <1>9, <1>10, <1>11, <1>12, <1>13, <1>14 DEF FilesInv

LEMMA CommitFiles ==
  ASSUME FilesInv, BackendInv, NEW p \in Procs, req[p] \in Stamped,
         req[p].at \in {"commit", "mark"},
         CommitRecord(req[p]), Finish(p), UNCHANGED <<files, issued>>
  PROVE  FilesInv'
  <1>1. req[p].b \in Buckets /\ req[p].k \in Keys /\ req[p].m \in Meta
    BY DEF Stamped
  <1>2. PICK t \in req[p].since..clock :
                PutObject(req[p].b, req[p].k, [req[p].m EXCEPT !.modified = t])
    BY DEF CommitRecord
  <1> DEFINE m == [req[p].m EXCEPT !.modified = t]
             S == WithVersion(versions[req[p].b][req[p].k], m)
  <1>3. m.vid = req[p].m.vid /\ m.body = req[p].m.body
    BY <1>1 DEF Meta
  <1>4. SetVersions(req[p].b, req[p].k, S)
    BY <1>1, <1>2 DEF PutObject, SetVersions, BackendInv, IndexInv, TypeOK
  <1> HIDE DEF m
  <1>5. SetRequest(p, Idle)
    BY DEF Finish, SetRequest
  <1>6. Writes(req[p], m.vid)
    BY <1>3 DEF Writes
  <1>7. m.vid \in Uuids /\ ~m.body.marker => InPlace(req[p].b, req[p].k, m)
    BY <1>3 DEF FilesInv, FilePlaced, OnlyOwnOps, InPlace, Placed
  <1>8. \A n \in S : n = m \/ n \in versions[req[p].b][req[p].k]
    BY DEF WithVersion
  <1> HIDE DEF S, Idle
  <1>9. \A u \in Uuids : ~Writes(Idle, u) /\ ~Uses(Idle, u)
    BY IdleUsesNothing DEF Uses
  <1>10. Accounted(p, req[p].b, req[p].k, S)
    BY <1>6, <1>7, <1>8 DEF Accounted
  <1>11. LocalInv /\ TypeOK /\ Idle.at = "idle"
    BY IdleUsesNothing DEF BackendInv, IndexInv
  <1>12. QED
    BY <1>1, <1>4, <1>5, <1>9, <1>10, <1>11, VersionStep

\* What a removal leaves are old versions, if with another latest mark.
Leaves(b, k, vid, S) ==
    /\ SetVersions(b, k, S)
    /\ vid \in Uuids => \A n \in S : n.vid # vid
    /\ \A n \in S : \E m \in versions[b][k] : m.vid = n.vid /\ m.body = n.body

LEMMA WhatIsLeft ==
  ASSUME TypeOK, NEW b \in Buckets, NEW k \in Keys, NEW vid \in Vids,
         \/ vid = "" /\ DeleteObject(b, k)
         \/ vid # "" /\ DeleteVersion(b, k, vid)
  PROVE  \E S : Leaves(b, k, vid, S)
  <1> DEFINE rest == {m \in versions[b][k] : m.vid # vid}
  <1>1. ASSUME versions' = [versions EXCEPT ![b][k] = {}]
        PROVE  \E S : Leaves(b, k, vid, S)
    <2>1. Leaves(b, k, vid, {})
      BY <1>1 DEF SetVersions, Leaves
    <2>2. QED
      BY <2>1
  <1>2. ASSUME NEW m \in rest,
               versions' = [versions EXCEPT ![b][k] = WithVersion(rest, Promoted(m))]
        PROVE  \E S : Leaves(b, k, vid, S)
    <2> DEFINE S == WithVersion(rest, Promoted(m))
    <2>1. m \in Meta /\ m \in versions[b][k] /\ m.vid # vid
      BY DEF TypeOK
    <2>2. Promoted(m).vid = m.vid /\ Promoted(m).body = m.body
      BY <2>1 DEF Promoted, Meta
    <2>3. SetVersions(b, k, S)
      BY <1>2 DEF SetVersions
    <2>4. \A n \in S : n = Promoted(m) \/ (n \in versions[b][k] /\ n.vid # vid)
      BY DEF WithVersion
    <2> HIDE DEF S
    <2>5. Leaves(b, k, vid, S)
      BY <2>1, <2>2, <2>3, <2>4 DEF Leaves
    <2>6. QED
      BY <2>5
  <1>3. CASE DeleteObject(b, k)
    BY <1>1, <1>3 DEF DeleteObject
  <1>4. CASE DeleteVersion(b, k, vid)
    BY <1>1, <1>2, <1>4 DEF DeleteVersion, Newest
  <1>5. QED
    BY <1>3, <1>4

LEMMA CommitDeleteFiles ==
  ASSUME FilesInv, BackendInv, NEW p \in Procs, CommitDelete(p)
  PROVE  FilesInv'
  <1>1. LocalInv /\ TypeOK /\ UNCHANGED <<files, issued>>
    BY DEF BackendInv, IndexInv, CommitDelete
  <1>2. req[p] \in Removing /\ req[p].at = "remove"
    BY <1>1, RemovingType DEF CommitDelete, LocalInv
  <1>3. CASE ~Exists(req[p].b)
    BY <1>1, <1>3, FinishStep DEF CommitDelete, vars
  <1>4. CASE Exists(req[p].b)
    <2> DEFINE b == req[p].b
               k == req[p].k
               vid == req[p].vid
               r == [req[p] EXCEPT !.at = "unlink"]
    <2>1. b \in Buckets /\ k \in Keys /\ vid \in Vids
      BY <1>2 DEF Removing
    <2>2. \/ vid = "" /\ DeleteObject(b, k)
          \/ vid # "" /\ DeleteVersion(b, k, vid)
      BY <1>4 DEF CommitDelete
    <2>3. SetRequest(p, r)
      BY <1>4 DEF CommitDelete, Goto, SetRequest
    <2>4. r.at = "unlink" /\ r.b = b /\ r.k = k /\ r.vid = vid
      BY <1>2 DEF Removing
    <2>5. Removes(req[p], vid)
      BY <1>2 DEF Removes
    <2> HIDE DEF b, k, vid, r
    <2>6. PICK S : Leaves(b, k, vid, S)
      BY <1>1, <2>1, <2>2, WhatIsLeft
    <2>7. \A u \in Uuids : ~Writes(r, u) /\ (Uses(r, u) => Uses(req[p], u))
      BY <2>4, <2>5 DEF Uses, Writes, Removes, Reads
    <2>8. /\ SetVersions(b, k, S)
          /\ r.vid \in Uuids => \A n \in S : n.vid # r.vid
          /\ Accounted(p, b, k, S)
      BY <2>4, <2>6 DEF Leaves, Accounted
    <2>9. QED
      BY <1>1, <2>1, <2>3, <2>4, <2>7, <2>8, VersionStep
  <1>5. QED
    BY <1>3, <1>4

-----------------------------------------------------------------------------
LEMMA PutStepFiles ==
  ASSUME FilesInv, BackendInv, NEW p \in Procs, PutStep(p)
  PROVE  FilesInv'
  <1>1. LocalInv
    BY DEF BackendInv
  <1>2. CASE UploadFails(p)
    BY <1>1, <1>2, FinishStep DEF UploadFails, vars
  <1>3. CASE CommitPut(p)
    <2>1. req[p] \in Stamped /\ req[p].at = "commit"
      BY <1>1, <1>3, StampedType DEF CommitPut, LocalInv
    <2>2. QED
      BY <1>3, <2>1, CommitFiles DEF CommitPut
  <1>4. QED
    BY <1>1, <1>2, <1>3, CheckBucketFiles, RenameFileFiles, PlaceFileFiles, CommitPutFailsFiles
       DEF PutStep

LEMMA RemoveStepFiles ==
  ASSUME FilesInv, BackendInv, NEW p \in Procs, RemoveStep(p)
  PROVE  FilesInv'
  <1>1. LocalInv
    BY DEF BackendInv
  <1>2. CASE CommitMarker(p)
    <2>1. req[p] \in Stamped /\ req[p].at = "mark"
      BY <1>1, <1>2, StampedType DEF CommitMarker, LocalInv
    <2>2. CASE CommitRecord(req[p])
      BY <1>2, <2>1, <2>2, CommitFiles DEF CommitMarker
    <2>3. CASE UNCHANGED vars
      BY <1>1, <1>2, <2>3, FinishStep DEF CommitMarker, vars
    <2>4. QED
      BY <1>2, <2>2, <2>3 DEF CommitMarker
  <1>3. CASE DeleteFails(p)
    BY <1>1, <1>3, FinishStep DEF DeleteFails, vars
  <1>4. QED
    BY <1>1, <1>2, <1>3, CheckLockFiles, CommitDeleteFiles, UnlinkFiles DEF RemoveStep

LEMMA FilesInit == BackendInit => FilesInv
  <1> SUFFICES ASSUME BackendInit PROVE FilesInv
    OBVIOUS
  <1>1. \A p \in Procs : req[p].at = "idle" /\ \A u : ~Uses(req[p], u) /\ ~Writes(req[p], u)
    BY DEF BackendInit, Idle, Uses, Writes, Removes, Reads
  <1>2. \A b \in Buckets, k \in Keys : versions[b][k] = {}
    BY DEF BackendInit, Init, NoVersions
  <1>3. \A u : ~Recorded(u)
    BY <1>2 DEF Recorded
  <1>4. MadeUpIsNone
    BY <1>1, <1>3 DEF MadeUpIsNone, Reads
  <1>5. QED
    BY <1>1, <1>2, <1>3, <1>4 DEF FilesInv, OnlyOwnOps, UsedAreKnown, SoleWriter, FilePlaced,
       RecordRemoved, FileAwaited, VersionsInPlace, VersionReadsMatch

LEMMA FilesStep ==
  ASSUME NoSharing
  PROVE  FilesInv /\ BackendInv /\ [BackendNext]_backendVars => FilesInv'
  <1> SUFFICES ASSUME FilesInv, BackendInv, [BackendNext]_backendVars PROVE FilesInv'
    OBVIOUS
  <1>1. LocalInv
    BY DEF BackendInv
  <1>2. CASE UNCHANGED backendVars
    BY <1>2, FilesStutter DEF backendVars, vars
  <1>3. CASE Crash
    BY <1>3, CrashFiles
  <1>4. ASSUME NEW p \in Procs, BucketRequest(p) PROVE FilesInv'
    BY <1>4, BucketRequestFiles
  <1>5. ASSUME NEW p \in Procs, BeginRequest(p) PROVE FilesInv'
    BY <1>5, BeginRequestFiles
  <1>6. ASSUME NEW p \in Procs, ReadStep(p) PROVE FilesInv'
    BY <1>1, <1>6, ReadStepFiles
  <1>7. \A p \in Procs : ~RemoveDir(p)
    BY DEF FilesInv, OnlyOwnOps, RemoveDir
  <1>8. QED
    BY <1>2, <1>3, <1>4, <1>5, <1>6, <1>7, PutStepFiles, RemoveStepFiles DEF BackendNext

LEMMA FilesInvariant ==
  ASSUME NoSharing
  PROVE  BackendSpec => []FilesInv
  <1>1. FilesInv /\ BackendInv /\ [BackendNext]_backendVars => FilesInv'
    BY FilesStep
  <1>2. QED
    BY <1>1, FilesInit, BackendInvariant, PTL DEF BackendSpec

\* Without COPY and the backend's bucket deletion, every version with an id of
\* its own to whose file no other name leads has that file with the content its
\* record describes, at every moment: between the steps of any requests, after
\* a failed write and after a crash, whatever version ids clients make up.
THEOREM VersionFilesIntact ==
  ASSUME NoSharing
  PROVE  BackendSpec => []VersionIntact
  <1>1. FilesInv => VersionIntact
    BY DEF FilesInv, VersionsInPlace, InPlace, Placed, VersionIntact
  <1>2. QED
    BY <1>1, FilesInvariant, PTL

\* And a GET of a version with an id of its own never sends other bytes than
\* its headers describe, although it reads record and file at two different
\* moments: other names that lead to the file can remove it only.
THEOREM VersionReadsWhole ==
  ASSUME NoSharing
  PROVE  BackendSpec => []VersionReadsMatch
  <1>1. FilesInv => VersionReadsMatch
    BY DEF FilesInv
  <1>2. QED
    BY <1>1, FilesInvariant, PTL

-----------------------------------------------------------------------------
(***************************************************************************)
(* One request at a time: a single slot.                                   *)
(***************************************************************************)
OneAtATime == \A p, q \in Procs : p = q

\* The clock does not move between the start of a write and its transaction.
StampIsNow ==
    \A p \in Procs : req[p].at \in {"place", "commit", "mark"} => req[p].since = clock

LEMMA OnlyRequest ==
  ASSUME OneAtATime, LocalInv, NEW p \in Procs, NEW r, SetRequest(p, r)
  PROVE  \A q \in Procs : req'[q] = r
  BY OneRequestChanges DEF OneAtATime

LEMMA FinishSets ==
  ASSUME NEW p \in Procs, Finish(p)
  PROVE  SetRequest(p, Idle)
  BY DEF Finish, SetRequest

LEMMA GotoSets ==
  ASSUME NEW p \in Procs, NEW at, Goto(p, at)
  PROVE  SetRequest(p, [req[p] EXCEPT !.at = at])
  BY DEF Goto, SetRequest

LEMMA IdleAt == Idle.at = "idle"
  BY DEF Idle

LEMMA StampKept ==
  ASSUME OneAtATime, LocalInv, NEW p \in Procs, NEW r, SetRequest(p, r),
         r.at \in {"place", "commit", "mark"} => r.since = clock'
  PROVE  StampIsNow'
  BY OnlyRequest DEF StampIsNow

LEMMA FinishStamp ==
  ASSUME OneAtATime, LocalInv, NEW p \in Procs, Finish(p)
  PROVE  StampIsNow'
  <1>1. SetRequest(p, Idle)
    BY FinishSets
  <1>2. Idle.at \notin {"place", "commit", "mark"}
    BY IdleAt
  <1> HIDE DEF Idle
  <1>3. QED
    BY <1>1, <1>2, StampKept

\* The record goes in stamped with the time of its transaction.
LEMMA CommitIsSerialPut ==
  ASSUME IndexInv, NEW r \in Stamped, BecomesHead(r.m), r.since = clock, CommitRecord(r)
  PROVE  SerialNext
  <1>1. PICK t \in r.since..clock : PutObject(r.b, r.k, [r.m EXCEPT !.modified = t])
    BY DEF CommitRecord
  <1>2. r.b \in Buckets /\ r.k \in Keys /\ r.m \in Meta
    BY DEF Stamped
  <1>3. clock \in 0..MaxClock
    BY DEF IndexInv, TypeOK
  <1>4. t = clock
    BY <1>3, ClockAssumption
  <1> DEFINE m == [r.m EXCEPT !.modified = t]
  <1>5. m \in Meta /\ m.modified = clock /\ m.latest = r.m.latest /\ m.vid = r.m.vid
    BY <1>2, <1>3, <1>4 DEF Meta
  <1>6. PutObject(r.b, r.k, m)
    BY <1>1
  <1> HIDE DEF m
  <1>7. m.modified <= clock
    BY <1>3, <1>5, ClockAssumption
  <1>8. m \in Written
    BY <1>5, <1>7 DEF Written, BecomesHead
  <1>9. QED
    BY <1>2, <1>5, <1>6, <1>8 DEF SerialNext

LEMMA BeginStamp ==
  ASSUME OneAtATime, BackendInv, NEW p \in Procs, BeginRequest(p)
  PROVE  UNCHANGED vars /\ StampIsNow'
  <1>1. LocalInv
    BY DEF BackendInv
  <1>2. UNCHANGED vars
    BY BeginRequestLocal
  <1>3. ASSUME NEW op, NEW r, Begin(p, op, r),
               r.at \in {"upload", "open", "copy", "lock"} \/ r.since = clock
        PROVE  StampIsNow'
    BY <1>1, <1>2, <1>3, StampKept DEF vars, Begin, SetRequest
  <1> USE DEF Upload, Deletion
  <1>4. ASSUME NEW b, NEW k, NEW hold, BeginPut(p, b, k, hold) \/ BeginComplete(p, b, k, hold)
        PROVE  StampIsNow'
    BY <1>3, <1>4 DEF BeginPut, BeginComplete
  <1>5. ASSUME NEW b, NEW k, NEW vid,
               BeginPost(p, b, k) \/ BeginGet(p, b, k, vid) \/ BeginDeleteVersion(p, b, k, vid)
        PROVE  StampIsNow'
    BY <1>3, <1>5 DEF BeginPost, BeginGet, BeginDeleteVersion
  <1>6. ASSUME NEW b, NEW k, BeginDelete(p, b, k) PROVE StampIsNow'
    BY <1>3, <1>6 DEF BeginDelete
  <1>7. ASSUME NEW srcB, NEW srcK, NEW b, NEW k, NEW replace, NEW hold,
               BeginCopy(p, srcB, srcK, b, k, replace, hold)
        PROVE  StampIsNow'
    BY <1>3, <1>7 DEF BeginCopy
  <1>8. QED
    BY <1>2, <1>4, <1>5, <1>6, <1>7 DEF BeginRequest

LEMMA PutSerial ==
  ASSUME OneAtATime, BackendInv, StampIsNow, NEW p \in Procs, PutStep(p)
  PROVE  [SerialNext]_vars /\ StampIsNow'
  <1>1. LocalInv /\ IndexInv
    BY DEF BackendInv
  <1>2. CASE CheckBucket(p)
    <2>1. UNCHANGED vars
      BY <1>2 DEF CheckBucket
    <2>2. CASE Finish(p)
      BY <1>1, <2>1, <2>2, FinishStamp
    <2>3. CASE Goto(p, "rename")
      <3>1. SetRequest(p, [req[p] EXCEPT !.at = "rename"])
        BY <2>3, GotoSets
      <3>2. req[p] \in Unstamped
        BY <1>1, <1>2, UnstampedType DEF CheckBucket, LocalInv
      <3>3. [req[p] EXCEPT !.at = "rename"].at = "rename"
        BY <3>2 DEF Unstamped
      <3>4. QED
        BY <1>1, <2>1, <3>1, <3>3, StampKept
    <2>4. QED
      BY <1>2, <2>2, <2>3 DEF CheckBucket
  <1>3. CASE UploadFails(p)
    BY <1>1, <1>3, FinishStamp DEF UploadFails
  <1>4. CASE RenameFile(p)
    BY <1>1, <1>4, StampKept DEF RenameFile, SetRequest, vars
  <1>5. CASE PlaceFile(p)
    <2>1. SetRequest(p, [req[p] EXCEPT !.at = "commit"])
      BY <1>5, GotoSets DEF PlaceFile
    <2>2. req[p] \in Stamped /\ req[p].since = clock
      BY <1>1, <1>5, StampedType DEF PlaceFile, LocalInv, StampIsNow
    <2>3. [req[p] EXCEPT !.at = "commit"].since = clock
      BY <2>2 DEF Stamped
    <2>4. UNCHANGED vars
      BY <1>5 DEF PlaceFile
    <2>5. QED
      BY <1>1, <2>1, <2>3, <2>4, StampKept DEF vars
  <1>6. CASE CommitPut(p)
    <2>1. req[p] \in Stamped /\ BecomesHead(req[p].m) /\ req[p].since = clock
      BY <1>1, <1>6, StampedType DEF CommitPut, LocalInv, WritersBecomeHeads, StampIsNow
    <2>2. QED
      BY <1>1, <1>6, <2>1, CommitIsSerialPut, FinishStamp DEF CommitPut
  <1>7. CASE CommitPutFails(p)
    BY <1>1, <1>7, FinishStamp DEF CommitPutFails
  <1>8. QED
    BY <1>2, <1>3, <1>4, <1>5, <1>6, <1>7 DEF PutStep

LEMMA ReadSerial ==
  ASSUME OneAtATime, BackendInv, NEW p \in Procs, ReadStep(p)
  PROVE  UNCHANGED vars /\ StampIsNow'
  <1>1. LocalInv
    BY DEF BackendInv
  <1>2. UNCHANGED vars
    BY DEF ReadStep, OpenFile, SendBody, CopyOpen
  <1>3. CASE Finish(p)
    BY <1>1, <1>2, <1>3, FinishStamp
  <1>4. CASE \E r : SetRequest(p, r) /\ r.at \in {"send", "upload"}
    BY <1>1, <1>2, <1>4, StampKept
  <1>5. CASE OpenFile(p)
    <2> DEFINE r == [at |-> "send", b |-> req[p].b, k |-> req[p].k, m |-> req[p].m,
                    data |-> File(req[p].b, req[p].k, req[p].m.vid)]
    <2>1. Finish(p) \/ SetRequest(p, r)
      BY <1>5 DEF OpenFile, SetRequest
    <2>2. r.at = "send"
      OBVIOUS
    <2> HIDE DEF r
    <2>3. QED
      BY <1>2, <1>3, <1>4, <2>1, <2>2
  <1>6. CASE CopyOpen(p)
    <2>1. CASE ~Finish(p)
      <3>1. PICK m : SetRequest(p, Upload(req[p].b, req[p].k, m))
        BY <1>6, <2>1 DEF CopyOpen, SetRequest
      <3>2. Upload(req[p].b, req[p].k, m).at = "upload"
        BY DEF Upload
      <3>3. QED
        BY <1>2, <1>4, <3>1, <3>2
    <2>2. QED
      BY <1>2, <1>3, <2>1
  <1>7. QED
    BY <1>2, <1>3, <1>5, <1>6 DEF ReadStep, SendBody

LEMMA RemoveSerial ==
  ASSUME OneAtATime, BackendInv, StampIsNow, NEW p \in Procs, RemoveStep(p)
  PROVE  [SerialNext]_vars /\ StampIsNow'
  <1>1. LocalInv /\ IndexInv
    BY DEF BackendInv
  <1>2. Finish(p) => StampIsNow'
    BY <1>1, FinishStamp
  <1>3. ASSUME NEW at, Goto(p, at), at \in {"remove", "unlink"}, req[p].at \in {"lock", "remove"}
        PROVE  StampIsNow'
    <2>1. req[p] \in Removing
      BY <1>1, <1>3, RemovingType DEF LocalInv
    <2> DEFINE r == [req[p] EXCEPT !.at = at]
    <2>2. r.at = at
      BY <2>1 DEF Removing
    <2>3. SetRequest(p, r)
      BY <1>3, GotoSets
    <2> HIDE DEF r
    <2>4. QED
      BY <1>1, <1>3, <2>2, <2>3, StampKept
  <1>4. StampIsNow'
    BY <1>2, <1>3 DEF RemoveStep, CommitMarker, CheckLock, CommitDelete, Unlink, DeleteFails
  <1>5. CASE CommitMarker(p)
    <2>1. req[p] \in Stamped /\ BecomesHead(req[p].m) /\ req[p].since = clock
      BY <1>1, <1>5, StampedType DEF CommitMarker, LocalInv, WritersBecomeHeads, StampIsNow
    <2>2. QED
      BY <1>1, <1>4, <1>5, <2>1, CommitIsSerialPut DEF CommitMarker
  <1>6. CASE CommitDelete(p)
    <2>1. req[p] \in Removing
      BY <1>1, <1>6, RemovingType DEF CommitDelete, LocalInv
    <2>2. req[p].b \in Buckets /\ req[p].k \in Keys /\ req[p].vid \in Vids
      BY <2>1 DEF Removing
    <2>3. [SerialNext]_vars
      BY <1>6, <2>2 DEF CommitDelete, SerialNext, DeleteStep
    <2>4. QED
      BY <1>4, <2>3
  <1>7. QED
    BY <1>4, <1>5, <1>6 DEF RemoveStep, CheckLock, Unlink, DeleteFails

LEMMA BucketSerial ==
  ASSUME OneAtATime, BackendInv, StampIsNow, NEW p \in Procs, BucketRequest(p)
  PROVE  SerialNext /\ StampIsNow'
  <1>1. SerialNext
    BY DEF BucketRequest, HandleCreateBucket, HandleDeleteBucket, AdminDeleteBucket,
           PutBucketVersioning, AdminPutBucketVersioning, SerialNext, BucketStep, Statuses
  <1>2. clock' = clock
    BY DEF BucketRequest, HandleCreateBucket, HandleDeleteBucket, AdminDeleteBucket,
           PutBucketVersioning, AdminPutBucketVersioning, CreateBucket, DeleteBucket, UpdateBucket
  <1>3. ASSUME NEW b, HandleDeleteBucket(p, b) PROVE StampIsNow'
    BY <1>2, <1>3, StampKept DEF BackendInv, HandleDeleteBucket, SetRequest
  <1>4. req' = req \/ \E b : HandleDeleteBucket(p, b)
    BY DEF BucketRequest, HandleCreateBucket, HandleDeleteBucket, AdminDeleteBucket,
           PutBucketVersioning, AdminPutBucketVersioning
  <1>5. QED
    BY <1>1, <1>2, <1>3, <1>4 DEF StampIsNow

LEMMA BackendSerialStep ==
  ASSUME OneAtATime, BackendInv, StampIsNow, [BackendNext]_backendVars
  PROVE  [SerialNext]_vars /\ StampIsNow'
  <1>1. CASE UNCHANGED backendVars
    BY <1>1 DEF backendVars, vars, StampIsNow
  <1>2. CASE Crash
    <2>1. \A p \in Procs : req'[p].at = "idle"
      BY <1>2, IdleAt DEF Crash
    <2>2. QED
      BY <1>2, <2>1 DEF Crash, StampIsNow
  <1>3. ASSUME NEW p \in Procs, RemoveDir(p) PROVE UNCHANGED vars /\ StampIsNow'
    BY <1>3, FinishStamp DEF RemoveDir, BackendInv
  <1>4. QED
    BY <1>1, <1>2, <1>3, BucketSerial, BeginStamp, PutSerial, ReadSerial, RemoveSerial
       DEF BackendNext

LEMMA StampInit == BackendInit => StampIsNow
  BY DEF BackendInit, StampIsNow, Idle

LEMMA StampInvariant ==
  ASSUME OneAtATime
  PROVE  BackendSpec => []StampIsNow
  <1>1. BackendInv /\ StampIsNow /\ [BackendNext]_backendVars => StampIsNow'
    BY BackendSerialStep
  <1>2. QED
    BY <1>1, StampInit, BackendInvariant, PTL DEF BackendSpec

\* With one request at a time, whatever the operations, failed writes and
\* crashes, every write is stamped with the time of its transaction.
THEOREM BackendIsSerial ==
  ASSUME OneAtATime
  PROVE  BackendSpec => SerialSpec
  <1>1. BackendInv /\ StampIsNow /\ [BackendNext]_backendVars => [SerialNext]_vars
    BY BackendSerialStep
  <1>2. BackendInit => Init
    BY DEF BackendInit
  <1>3. QED
    BY <1>1, <1>2, StampInvariant, BackendInvariant, PTL DEF BackendSpec, SerialSpec

\* So GET resolves to the newest version that is left.
THEOREM BackendHeadIsNewest ==
  ASSUME OneAtATime
  PROVE  BackendSpec => []HeadIsNewest
  BY BackendIsSerial, SerialHeadIsNewest, PTL

\* And only a newer write or the loss of the head makes GET resolve elsewhere.
THEOREM BackendHeadMoves ==
  ASSUME OneAtATime
  PROVE  BackendSpec => HeadMovesForCause
  BY BackendIsSerial, SerialHeadMoves, PTL

-----------------------------------------------------------------------------
(***************************************************************************)
(* Legal hold, one request at a time: every operation but COPY and turning *)
(* versioning off, with failed writes and crashes.                         *)
(*                                                                         *)
(* DELETE without a version id looks at the lock of the head and removes   *)
(* every version.  It does so in a bucket without versioning only, and     *)
(* there all versions are one; COPY, which brings ids of other buckets     *)
(* along, and a status that goes back to none would change that.           *)
(***************************************************************************)
StatusHolds == Ops \cap {"copy", "disable"} = {}

Writing == {"upload", "rename", "place", "commit", "mark"}
Versioned(b) == buckets[b] \in {"Enabled", "Suspended"}

OneRecordEach ==
    \A b \in Buckets, k \in Keys : \A m, n \in versions[b][k] : m.vid = n.vid => m = n

PlainUntilVersioned ==
    \A b \in Buckets, k \in Keys : \A m \in versions[b][k] : m.vid = "" \/ Versioned(b)

\* What a request in flight has read still holds.
LockAware(r) ==
    /\ r.at # "copy"
    /\ r.at \in Writing /\ r.m.vid # "" => Versioned(r.b)
    /\ r.at \in {"lock", "remove"} /\ r.vid = "" => ~Versioned(r.b)
    /\ r.at = "remove" => ~Locked(r.b, r.k, r.vid)
    /\ r.at \in Writing /\ r.m.vid \in Uuids =>
          \A m \in versions[r.b][r.k] : m.vid # r.m.vid

\* An id of its own is issued before it is recorded.
IdsIssued ==
    \A b \in Buckets, k \in Keys : \A m \in versions[b][k] : m.vid \in Uuids => m.vid \in issued

HeldInv ==
    /\ OneRecordEach
    /\ PlainUntilVersioned
    /\ IdsIssued
    /\ \A p \in Procs : /\ LockAware(req[p])
                        /\ req[p].at \in Writing /\ req[p].m.vid \in Uuids
                           => req[p].m.vid \in issued

Keeps(m, n) ==
    \/ SameVersion(m, n)
    \/ m.vid \notin Uuids /\ n.vid = m.vid /\ n.modified > m.modified

KeepsHeld ==
    \A b \in Buckets, k \in Keys : \A m \in versions[b][k] :
        m.body.hold => \E n \in versions'[b][k] : Keeps(m, n)

LEMMA Unchanged == \A m : Keeps(m, m)
  BY DEF Keeps, SameVersion

\* A request that reads and writes nothing that the others could change.
Careless(r) == r.at \notin Writing \cup {"lock", "remove", "copy"}

LEMMA CarelessAware ==
  ASSUME NEW r, Careless(r)
  PROVE  LockAware(r)
  BY DEF Careless, LockAware

LEMMA IdleCareless == Careless(Idle)
  BY DEF Careless, Idle, Writing

\* A step that concerns the request only.
LEMMA HeldRequest ==
  ASSUME OneAtATime, LocalInv, HeldInv, NEW p \in Procs, NEW r, SetRequest(p, r), LockAware(r),
         UNCHANGED <<buckets, objects, versions>>, issued \subseteq issued',
         r.at \in Writing /\ r.m.vid \in Uuids => r.m.vid \in issued'
  PROVE  HeldInv' /\ KeepsHeld
  <1>1. \A q \in Procs : req'[q] = r
    BY OnlyRequest
  <1>2. \A q \in Procs : LockAware(req[q])'
    BY <1>1 DEF LockAware, Versioned, Locked, GetObject, Exists
  <1>3. OneRecordEach' /\ PlainUntilVersioned' /\ IdsIssued'
    BY DEF HeldInv, OneRecordEach, PlainUntilVersioned, Versioned, IdsIssued
  <1>4. KeepsHeld
    BY Unchanged DEF KeepsHeld
  <1>5. QED
    BY <1>1, <1>2, <1>3, <1>4 DEF HeldInv

LEMMA HeldFinish ==
  ASSUME OneAtATime, LocalInv, HeldInv, NEW p \in Procs, Finish(p),
         UNCHANGED <<buckets, objects, versions, issued>>
  PROVE  HeldInv' /\ KeepsHeld
  <1> HIDE DEF Idle
  <1>1. SetRequest(p, Idle) /\ LockAware(Idle) /\ Idle.at \notin Writing
    BY FinishSets, IdleCareless, CarelessAware DEF Careless
  <1>2. QED
    BY <1>1, HeldRequest

\* A step that gives one key another set of versions, and ends the request's care.
LEMMA HeldVersions ==
  ASSUME OneAtATime, LocalInv, TypeOK, HeldInv, NEW p \in Procs, NEW r, SetRequest(p, r), Careless(r),
         NEW b \in Buckets, NEW k \in Keys, NEW S, SetVersions(b, k, S),
         UNCHANGED <<buckets, issued>>,
         \A m, n \in S : m.vid = n.vid => m = n,
         \A m \in S : m.vid = "" \/ Versioned(b),
         \A m \in S : m.vid \in Uuids => m.vid \in issued,
         \A m \in versions[b][k] : m.body.hold => \E n \in S : Keeps(m, n)
  PROVE  HeldInv' /\ KeepsHeld
  <1>1. \A q \in Procs : req'[q] = r
    BY OnlyRequest
  <1>2. \A q \in Procs : LockAware(req[q])'
    BY <1>1 DEF LockAware, Careless
  <1>3. \A c \in Buckets, j \in Keys :
            versions'[c][j] = IF c = b /\ j = k THEN S ELSE versions[c][j]
    BY DEF TypeOK, SetVersions
  <1>4. OneRecordEach'
    BY <1>3 DEF HeldInv, OneRecordEach
  <1>5. PlainUntilVersioned'
    BY <1>3 DEF HeldInv, PlainUntilVersioned, Versioned
  <1>6. IdsIssued'
    BY <1>3 DEF HeldInv, IdsIssued
  <1>7. KeepsHeld
    BY <1>3, Unchanged DEF KeepsHeld
  <1>8. QED
    BY <1>1, <1>2, <1>4, <1>5, <1>6, <1>7 DEF HeldInv, Careless

\* A step that changes the status of buckets, while no other request runs.
LEMMA HeldStatus ==
  ASSUME OneAtATime, LocalInv, HeldInv, NEW p \in Procs, NEW r, Careless(r),
         \A q \in Procs : req'[q] = r, UNCHANGED <<versions, issued>>,
         \A b \in Buckets : Versioned(b) => Versioned(b)' \/ \A k \in Keys : versions[b][k] = {}
  PROVE  HeldInv' /\ KeepsHeld
  <1>1. \A q \in Procs : LockAware(req[q])' /\ req'[q].at \notin Writing
    BY DEF LockAware, Careless
  <1>2. KeepsHeld
    BY Unchanged DEF KeepsHeld
  <1>3. QED
    BY <1>1, <1>2 DEF HeldInv, OneRecordEach, PlainUntilVersioned, IdsIssued

LEMMA HeldBucketRequest ==
  ASSUME OneAtATime, StatusHolds, BackendInv, HeldInv, NEW p \in Procs, BucketRequest(p)
  PROVE  HeldInv' /\ KeepsHeld
  <1>1. LocalInv /\ IndexInv /\ TypeOK
    BY DEF BackendInv, IndexInv
  <1>2. PICK b \in Buckets :
            \/ HandleCreateBucket(p, b) \/ PutBucketVersioning(p, b) \/ AdminPutBucketVersioning(p, b)
            \/ HandleDeleteBucket(p, b) \/ AdminDeleteBucket(p, b)
    BY DEF BucketRequest
  <1>3. req[p] = Idle /\ UNCHANGED <<versions, issued>>
    BY <1>2 DEF HandleCreateBucket, PutBucketVersioning, AdminPutBucketVersioning,
       HandleDeleteBucket, AdminDeleteBucket, CreateBucket, UpdateBucket, DeleteBucket
  <1>4. \E r : Careless(r) /\ \A q \in Procs : req'[q] = r
    <2>1. CASE req' = req
      <3>1. \A q \in Procs : req'[q] = Idle
        BY <1>3, <2>1 DEF OneAtATime
      <3>2. QED
        BY <3>1, IdleCareless
    <2>2. CASE HandleDeleteBucket(p, b)
      <3> DEFINE r == [at |-> "rmdir", b |-> b]
      <3>1. SetRequest(p, r)
        BY <2>2 DEF HandleDeleteBucket, SetRequest
      <3>2. Careless(r)
        BY DEF Careless, Writing
      <3> HIDE DEF r
      <3>3. QED
        BY <1>1, <3>1, <3>2, OnlyRequest
    <2>3. QED
      BY <1>2, <2>1, <2>2 DEF HandleCreateBucket, PutBucketVersioning, AdminPutBucketVersioning,
         AdminDeleteBucket
  <1>5. \A c \in Buckets : Versioned(c) => Versioned(c)' \/ \A k \in Keys : versions[c][k] = {}
    <2>1. CASE \E objectLock \in BOOLEAN : CreateBucket(b, objectLock)
      BY <1>1, <2>1 DEF CreateBucket, Versioned, IndexInv, TypeOK, GoneBucketsHoldNothing
    <2>2. CASE UpdateBucket(b, "Enabled") \/ UpdateBucket(b, "Suspended")
      BY <1>1, <2>2 DEF UpdateBucket, Versioned, TypeOK
    <2>3. CASE DeleteBucket(b)
      <3>1. \A k \in Keys : versions[b][k] = {}
        BY <1>1, <2>3, NoHeadsNoVersions DEF DeleteBucket
      <3>2. QED
        BY <1>1, <2>3, <3>1 DEF DeleteBucket, Versioned, TypeOK
    <2>4. QED
      BY <1>2, <2>1, <2>2, <2>3 DEF StatusHolds, HandleCreateBucket, PutBucketVersioning,
         AdminPutBucketVersioning, HandleDeleteBucket, AdminDeleteBucket
  <1>6. QED
    BY <1>1, <1>3, <1>4, <1>5, HeldStatus

\* A write starts with an id that goes with the status of its bucket, and
\* with a new one if it has an id of its own.
LEMMA NewVidStatus ==
  ASSUME NEW b, NEW vid, NewVid(b, vid)
  PROVE  /\ vid # "" => Versioned(b)
         /\ vid \in Uuids => vid \notin issued /\ vid \in issued'
         /\ issued \subseteq issued'
  BY UuidAssumption DEF NewVid, Versioned

LEMMA HeldBegin ==
  ASSUME OneAtATime, StatusHolds, BackendInv, HeldInv, NEW p \in Procs, BeginRequest(p)
  PROVE  HeldInv' /\ KeepsHeld
  <1>1. LocalInv
    BY DEF BackendInv
  <1>2. UNCHANGED <<buckets, objects, versions>>
    BY BeginRequestLocal DEF vars
  <1>3. ASSUME NEW op, NEW r, Begin(p, op, r), LockAware(r), issued \subseteq issued',
               r.at \in Writing /\ r.m.vid \in Uuids => r.m.vid \in issued'
        PROVE  HeldInv' /\ KeepsHeld
    BY <1>1, <1>2, <1>3, HeldRequest DEF Begin, SetRequest
  <1>4. ASSUME NEW op, NEW r, Begin(p, op, r), r.at \in {"upload", "place", "mark"},
               r.b \in Buckets, r.k \in Keys,
               NewVid(r.b, r.m.vid) \/ (r.m.vid = "" /\ UNCHANGED issued)
        PROVE  HeldInv' /\ KeepsHeld
    <2>1. r.m.vid \in Uuids => r.m.vid \notin issued /\ r.m.vid \in issued'
      BY <1>4, NewVidStatus, UuidAssumption
    <2>2. r.m.vid # "" => Versioned(r.b)
      BY <1>4, NewVidStatus
    <2>3. r.m.vid \in Uuids => \A m \in versions[r.b][r.k] : m.vid # r.m.vid
      BY <1>4, <2>1 DEF HeldInv, IdsIssued
    <2>4. LockAware(r)
      BY <1>4, <2>2, <2>3 DEF LockAware
    <2>5. issued \subseteq issued'
      BY <1>4, NewVidStatus
    <2>6. QED
      BY <1>3, <1>4, <2>1, <2>4, <2>5
  <1>5. ASSUME NEW b, NEW k, NEW vid, NEW op, Begin(p, op, Deletion(b, k, vid)),
               vid = "" => ~Versioned(b), UNCHANGED issued
        PROVE  HeldInv' /\ KeepsHeld
    <2>1. LockAware(Deletion(b, k, vid)) /\ Deletion(b, k, vid).at \notin Writing
      BY <1>5 DEF LockAware, Deletion, Writing
    <2>2. QED
      BY <1>3, <1>5, <2>1
  <1>6. ASSUME NEW b \in Buckets, NEW k \in Keys, NEW hold, BeginPut(p, b, k, hold)
        PROVE  HeldInv' /\ KeepsHeld
    BY <1>4, <1>6 DEF BeginPut, Upload, Record
  <1>7. ASSUME NEW b \in Buckets, NEW k \in Keys, NEW hold, BeginComplete(p, b, k, hold)
        PROVE  HeldInv' /\ KeepsHeld
    BY <1>4, <1>7 DEF BeginComplete, Record
  <1>8. ASSUME NEW b \in Buckets, NEW k \in Keys, BeginPost(p, b, k) PROVE HeldInv' /\ KeepsHeld
    BY <1>4, <1>8 DEF BeginPost, Upload, Record
  <1>9. ASSUME NEW b, NEW k, NEW vid, BeginGet(p, b, k, vid) PROVE HeldInv' /\ KeepsHeld
    BY <1>3, <1>9 DEF BeginGet, LockAware, Writing
  <1>10. ASSUME NEW b \in Buckets, NEW k \in Keys, BeginDelete(p, b, k)
         PROVE  HeldInv' /\ KeepsHeld
    <2>1. CASE buckets[b] = "" /\ Begin(p, "delete", Deletion(b, k, "")) /\ UNCHANGED issued
      BY <1>5, <2>1 DEF Versioned
    <2>2. CASE buckets[b] # ""
      BY <1>4, <1>10, <2>2 DEF BeginDelete, Record
    <2>3. QED
      BY <1>10, <2>1, <2>2 DEF BeginDelete
  <1>11. ASSUME NEW b, NEW k, NEW vid \in Disclosed \cup MadeUp \cup {"null"},
                BeginDeleteVersion(p, b, k, vid)
         PROVE  HeldInv' /\ KeepsHeld
    <2>1. vid # ""
      BY <1>1, UuidAssumption, PathAssumption DEF LocalInv, Disclosed
    <2>2. QED
      BY <1>5, <1>11, <2>1 DEF BeginDeleteVersion
  <1>12. \A srcB, srcK, b, k, replace, hold : ~BeginCopy(p, srcB, srcK, b, k, replace, hold)
    BY DEF StatusHolds, BeginCopy, Begin
  <1>13. QED
    BY <1>6, <1>7, <1>8, <1>9, <1>10, <1>11, <1>12 DEF BeginRequest

\* The record of a write replaces the one that had its id, with a later stamp.
LEMMA HeldCommit ==
  ASSUME OneAtATime, BackendInv, SerialInv, StampIsNow, HeldInv, NEW p \in Procs,
         req[p] \in Stamped, req[p].at \in {"commit", "mark"}, CommitRecord(req[p]), Finish(p),
         UNCHANGED issued
  PROVE  HeldInv' /\ KeepsHeld
  <1> DEFINE b == req[p].b
             k == req[p].k
  <1>1. LocalInv /\ TypeOK /\ b \in Buckets /\ k \in Keys /\ req[p].m \in Meta
    BY DEF BackendInv, IndexInv, Stamped
  <1>2. PICK t \in req[p].since..clock : PutObject(b, k, [req[p].m EXCEPT !.modified = t])
    BY DEF CommitRecord
  <1>3. t = clock /\ clock \in Nat
    BY <1>1, ClockAssumption DEF StampIsNow, TypeOK
  <1> DEFINE m == [req[p].m EXCEPT !.modified = t]
             S == WithVersion(versions[b][k], m)
  <1>4. SetVersions(b, k, S) /\ UNCHANGED buckets
    BY <1>1, <1>2 DEF PutObject, SetVersions, TypeOK
  <1>5. m.vid = req[p].m.vid /\ m.modified = clock
    BY <1>1, <1>3 DEF Meta
  <1> HIDE DEF m
  <1>6. /\ m.vid = "" \/ Versioned(b)
        /\ m.vid \in Uuids => m.vid \in issued /\ \A n \in versions[b][k] : n.vid # m.vid
    BY <1>5 DEF HeldInv, LockAware, Writing
  <1>7. SetRequest(p, Idle) /\ Careless(Idle)
    BY FinishSets, IdleCareless
  <1> HIDE DEF Idle
  <1>8. \A n, o \in S : n.vid = o.vid => n = o
    BY <1>1 DEF WithVersion, HeldInv, OneRecordEach
  <1>9. \A n \in S : (n.vid = "" \/ Versioned(b)) /\ (n.vid \in Uuids => n.vid \in issued)
    BY <1>1, <1>6 DEF WithVersion, HeldInv, PlainUntilVersioned, IdsIssued
  <1>10. ASSUME NEW n \in versions[b][k] PROVE \E o \in S : Keeps(n, o)
    <2>1. CASE n.vid # m.vid
      <3>1. n \in S
        BY <2>1 DEF WithVersion
      <3>2. QED
        BY <3>1, Unchanged
    <2>2. CASE n.vid = m.vid
      <3>1. n.modified < clock /\ n.modified \in Nat
        BY <1>1, ClockAssumption DEF SerialInv, StampsArePast, TypeOK, Meta
      <3>2. Keeps(n, m)
        BY <1>3, <1>5, <1>6, <2>2, <3>1 DEF Keeps
      <3>3. m \in S
        BY DEF WithVersion
      <3>4. QED
        BY <3>2, <3>3
    <2>3. QED
      BY <2>1, <2>2
  <1> HIDE DEF S, b, k
  <1>11. QED
    BY <1>1, <1>4, <1>7, <1>8, <1>9, <1>10, HeldVersions

LEMMA HeldPutStep ==
  ASSUME OneAtATime, BackendInv, SerialInv, StampIsNow, HeldInv, NEW p \in Procs, PutStep(p)
  PROVE  HeldInv' /\ KeepsHeld
  <1>1. LocalInv /\ LockAware(req[p])
    BY DEF BackendInv, HeldInv
  <1>2. CASE Finish(p) /\ UNCHANGED <<vars, issued>>
    BY <1>1, <1>2, HeldFinish DEF vars
  <1>3. ASSUME NEW r, SetRequest(p, r), UNCHANGED <<vars, issued>>, r.at \in {"rename", "commit"},
               r.b = req[p].b, r.k = req[p].k, r.m = req[p].m, req[p].at \in Writing
        PROVE  HeldInv' /\ KeepsHeld
    <2>1. LockAware(r)
      BY <1>1, <1>3 DEF LockAware, Writing
    <2>2. r.m.vid \in Uuids => r.m.vid \in issued'
      BY <1>3 DEF HeldInv
    <2>3. QED
      BY <1>1, <1>3, <2>1, <2>2, HeldRequest DEF vars
  <1>4. CASE CheckBucket(p)
    <2> DEFINE r == [req[p] EXCEPT !.at = "rename"]
    <2>1. req[p] \in Unstamped
      BY <1>1, <1>4, UnstampedType DEF CheckBucket, LocalInv
    <2>2. r.at = "rename" /\ r.b = req[p].b /\ r.k = req[p].k /\ r.m = req[p].m
      BY <2>1 DEF Unstamped
    <2>3. UNCHANGED <<vars, issued>> /\ req[p].at \in Writing /\ (Finish(p) \/ SetRequest(p, r))
      BY <1>4, GotoSets DEF CheckBucket, Writing
    <2> HIDE DEF r
    <2>4. QED
      BY <1>2, <1>3, <2>2, <2>3
  <1>5. CASE RenameFile(p)
    <2> DEFINE r == [at |-> "commit", b |-> req[p].b, k |-> req[p].k, m |-> req[p].m, since |-> clock]
    <2>1. r.at = "commit" /\ r.b = req[p].b /\ r.k = req[p].k /\ r.m = req[p].m
      OBVIOUS
    <2>2. UNCHANGED <<vars, issued>> /\ req[p].at \in Writing /\ SetRequest(p, r)
      BY <1>5 DEF RenameFile, Writing, SetRequest
    <2> HIDE DEF r
    <2>3. QED
      BY <1>3, <2>1, <2>2
  <1>6. CASE PlaceFile(p)
    <2> DEFINE r == [req[p] EXCEPT !.at = "commit"]
    <2>1. req[p] \in Stamped
      BY <1>1, <1>6, StampedType DEF PlaceFile, LocalInv
    <2>2. r.at = "commit" /\ r.b = req[p].b /\ r.k = req[p].k /\ r.m = req[p].m
      BY <2>1 DEF Stamped
    <2>3. UNCHANGED <<vars, issued>> /\ req[p].at \in Writing /\ SetRequest(p, r)
      BY <1>6, GotoSets DEF PlaceFile, Writing
    <2> HIDE DEF r
    <2>4. QED
      BY <1>3, <2>2, <2>3
  <1>7. CASE CommitPut(p)
    <2>1. req[p] \in Stamped
      BY <1>1, <1>7, StampedType DEF CommitPut, LocalInv
    <2>2. QED
      BY <1>7, <2>1, HeldCommit DEF CommitPut
  <1>8. QED
    BY <1>2, <1>4, <1>5, <1>6, <1>7 DEF PutStep, UploadFails, CommitPutFails

LEMMA HeldReadStep ==
  ASSUME OneAtATime, BackendInv, HeldInv, NEW p \in Procs, ReadStep(p)
  PROVE  HeldInv' /\ KeepsHeld
  <1>1. LocalInv /\ req[p].at # "copy" /\ UNCHANGED <<buckets, objects, versions, issued>>
    BY DEF BackendInv, HeldInv, LockAware, ReadStep, OpenFile, SendBody, CopyOpen, vars
  <1> DEFINE r == [at |-> "send", b |-> req[p].b, k |-> req[p].k, m |-> req[p].m,
                    data |-> File(req[p].b, req[p].k, req[p].m.vid)]
  <1>2. Finish(p) \/ SetRequest(p, r)
    BY <1>1 DEF ReadStep, OpenFile, SendBody, CopyOpen, SetRequest
  <1>3. LockAware(r) /\ r.at \notin Writing
    BY DEF LockAware, Writing
  <1> HIDE DEF r
  <1>4. QED
    BY <1>1, <1>2, <1>3, HeldFinish, HeldRequest

\* DELETE of a whole key removes no held version: all it removes is the head.
LEMMA HeldDelete ==
  ASSUME BackendInv, HeldInv, NEW b \in Buckets, NEW k \in Keys, Exists(b),
         ~Versioned(b), ~Locked(b, k, "")
  PROVE  \A m \in versions[b][k] : ~m.body.hold
  <1> SUFFICES ASSUME NEW m \in versions[b][k] PROVE ~m.body.hold
    OBVIOUS
  <1>1. objects[b][k] \in versions[b][k] /\ objects[b][k] # None
    BY DEF BackendInv, IndexInv, NoHiddenVersions, HeadIsStored
  <1>2. m.vid = "" /\ objects[b][k].vid = ""
    BY <1>1 DEF HeldInv, PlainUntilVersioned
  <1>3. m = objects[b][k]
    BY <1>1, <1>2 DEF HeldInv, OneRecordEach
  <1>4. QED
    BY <1>1, <1>3 DEF Locked, GetObject

\* DELETE of one version removes the one whose lock it has looked at.
LEMMA HeldDeleteVersion ==
  ASSUME HeldInv, NEW b \in Buckets, NEW k \in Keys, NEW vid, vid # "", Exists(b),
         ~Locked(b, k, vid), NEW m \in versions[b][k], m.vid = vid, None \notin versions[b][k]
  PROVE  ~m.body.hold
  <1>1. GetObject(b, k, vid) = (CHOOSE n \in versions[b][k] : n.vid = vid)
    BY DEF GetObject
  <1>2. GetObject(b, k, vid) \in versions[b][k] /\ GetObject(b, k, vid).vid = vid
    BY <1>1
  <1>3. GetObject(b, k, vid) = m
    BY <1>2 DEF HeldInv, OneRecordEach
  <1>4. QED
    BY <1>3 DEF Locked

LEMMA HeldCommitDelete ==
  ASSUME OneAtATime, BackendInv, HeldInv, NEW p \in Procs, CommitDelete(p)
  PROVE  HeldInv' /\ KeepsHeld
  <1>1. LocalInv /\ TypeOK /\ LockAware(req[p])
    BY DEF BackendInv, IndexInv, HeldInv
  <1>2. req[p] \in Removing /\ req[p].at = "remove"
    BY <1>1, RemovingType DEF CommitDelete, LocalInv
  <1> DEFINE b == req[p].b
             k == req[p].k
             vid == req[p].vid
             r == [req[p] EXCEPT !.at = "unlink"]
             rest == {m \in versions[b][k] : m.vid # vid}
  <1>3. /\ b \in Buckets /\ k \in Keys /\ vid \in Vids
        /\ r.at = "unlink"
        /\ vid = "" => ~Versioned(b)
        /\ ~Locked(b, k, vid)
    BY <1>1, <1>2 DEF Removing, LockAware
  <1>4. CASE ~Exists(b)
    BY <1>1, <1>4, HeldFinish DEF CommitDelete, vars
  <1>5. CASE Exists(b)
    <2>1. /\ SetRequest(p, r)
          /\ \/ vid = "" /\ DeleteObject(b, k)
             \/ vid # "" /\ DeleteVersion(b, k, vid)
      BY <1>5, GotoSets DEF CommitDelete
    <2>2. Careless(r)
      BY <1>3 DEF Careless, Writing
    <2>3. UNCHANGED <<buckets, issued>>
      BY <2>1 DEF CommitDelete, DeleteObject, DeleteVersion
    <2>4. ASSUME NEW S, SetVersions(b, k, S), \A n, o \in S : n.vid = o.vid => n = o,
                 \A n \in S : \E m \in rest : m.vid = n.vid,
                 \A m \in versions[b][k] : m.body.hold => \E n \in S : Keeps(m, n)
          PROVE  HeldInv' /\ KeepsHeld
      <3>1. \A n \in S : (n.vid = "" \/ Versioned(b)) /\ (n.vid \in Uuids => n.vid \in issued)
        <4>1. \A n \in S : \E m \in versions[b][k] : m.vid = n.vid
          BY <2>4
        <4> HIDE DEF b, k, r, rest, vid
        <4>2. \A m \in versions[b][k] :
                  (m.vid = "" \/ Versioned(b)) /\ (m.vid \in Uuids => m.vid \in issued)
          BY <1>3 DEF HeldInv, PlainUntilVersioned, IdsIssued
        <4>3. QED
          BY <4>1, <4>2
      <3> HIDE DEF b, k, r, rest, vid
      <3>2. QED
        BY <1>1, <1>3, <2>1, <2>2, <2>3, <2>4, <3>1, HeldVersions
    <2>5. CASE vid = "" /\ DeleteObject(b, k)
      <3>1. SetVersions(b, k, {})
        BY <2>5 DEF DeleteObject, SetVersions
      <3>2. \A m \in versions[b][k] : ~m.body.hold
        BY <1>3, <1>5, <2>5, HeldDelete
      <3>3. QED
        BY <2>4, <3>1, <3>2
    <2>6. CASE vid # "" /\ DeleteVersion(b, k, vid)
      <3>1. None \notin versions[b][k]
        BY <1>1, <1>3, NoneAssumption DEF TypeOK
      <3>2. \A m \in versions[b][k] : m.body.hold => m \in rest
        BY <1>3, <1>5, <2>6, <3>1, HeldDeleteVersion
      <3>3. CASE rest = {} /\ SetVersions(b, k, {})
        BY <2>4, <3>2, <3>3
      <3>4. ASSUME NEW m \in rest, SetVersions(b, k, WithVersion(rest, Promoted(m)))
            PROVE  HeldInv' /\ KeepsHeld
        <4>1. m \in Meta
          BY <1>1, <1>3 DEF TypeOK
        <4>2. Promoted(m).vid = m.vid /\ Keeps(m, Promoted(m))
          BY <4>1 DEF Keeps, SameVersion, Promoted, Meta
        <4> DEFINE S == WithVersion(rest, Promoted(m))
        <4>3. \A n \in S : n = Promoted(m) \/ (n \in rest /\ n.vid # m.vid)
          BY <4>2 DEF WithVersion
        <4>4. \A n \in rest : n.vid # m.vid => n \in S
          BY <4>2 DEF WithVersion
        <4>5. Promoted(m) \in S
          BY DEF WithVersion
        <4>6. \A n, o \in rest : n.vid = o.vid => n = o
          BY <1>3 DEF HeldInv, OneRecordEach
        <4>7. SetVersions(b, k, S)
          BY <3>4
        <4> HIDE DEF S, rest
        <4>8. \A n, o \in S : n.vid = o.vid => n = o
          BY <4>2, <4>3, <4>6
        <4>9. \A n \in S : \E o \in rest : o.vid = n.vid
          BY <3>4, <4>2, <4>3
        <4>10. ASSUME NEW n \in rest PROVE \E o \in S : Keeps(n, o)
          <5>1. n = m \/ n \in S
            BY <4>4, <4>6
          <5>2. QED
            BY <4>2, <4>5, <5>1, Unchanged
        <4>11. QED
          BY <2>4, <3>2, <4>7, <4>8, <4>9, <4>10
      <3>5. QED
        BY <2>6, <3>3, <3>4 DEF DeleteVersion, Newest, SetVersions
    <2>7. QED
      BY <2>1, <2>5, <2>6
  <1>6. QED
    BY <1>4, <1>5

LEMMA HeldRemoveStep ==
  ASSUME OneAtATime, BackendInv, SerialInv, StampIsNow, HeldInv, NEW p \in Procs,
         RemoveStep(p)
  PROVE  HeldInv' /\ KeepsHeld
  <1>1. LocalInv /\ LockAware(req[p])
    BY DEF BackendInv, HeldInv
  <1>2. CASE Finish(p) /\ UNCHANGED <<vars, issued>>
    BY <1>1, <1>2, HeldFinish DEF vars
  <1>3. CASE CommitMarker(p) /\ CommitRecord(req[p])
    <2>1. req[p] \in Stamped
      BY <1>1, <1>3, StampedType DEF CommitMarker, LocalInv
    <2>2. QED
      BY <1>3, <2>1, HeldCommit DEF CommitMarker
  <1>4. CASE CheckLock(p) /\ ~Locked(req[p].b, req[p].k, req[p].vid)
    <2> DEFINE r == [req[p] EXCEPT !.at = "remove"]
    <2>1. req[p] \in Removing /\ req[p].at = "lock" /\ UNCHANGED <<vars, issued>>
      BY <1>1, <1>4, RemovingType DEF CheckLock, LocalInv
    <2>2. r.at = "remove" /\ r.b = req[p].b /\ r.k = req[p].k /\ r.vid = req[p].vid
      BY <2>1 DEF Removing
    <2>3. SetRequest(p, r)
      BY <1>4, GotoSets DEF CheckLock
    <2> HIDE DEF r
    <2>4. LockAware(r) /\ r.at \notin Writing
      BY <1>1, <1>4, <2>1, <2>2 DEF LockAware, Writing
    <2>5. QED
      BY <1>1, <2>1, <2>3, <2>4, HeldRequest DEF vars
  <1>5. QED
    BY <1>2, <1>3, <1>4, HeldCommitDelete DEF RemoveStep, CommitMarker, CheckLock, Unlink,
       DeleteFails

LEMMA HeldStep ==
  ASSUME OneAtATime, StatusHolds, BackendInv, SerialInv, StampIsNow, HeldInv,
         [BackendNext]_backendVars
  PROVE  HeldInv' /\ KeepsHeld
  <1>1. CASE UNCHANGED backendVars
    <2>1. UNCHANGED <<buckets, objects, versions, req, issued>>
      BY <1>1 DEF backendVars, vars
    <2>2. \A p \in Procs : LockAware(req[p])'
      BY <2>1 DEF HeldInv, LockAware, Versioned, Locked, GetObject, Exists
    <2>3. OneRecordEach' /\ PlainUntilVersioned' /\ IdsIssued' /\ KeepsHeld
      BY <2>1, Unchanged DEF HeldInv, OneRecordEach, PlainUntilVersioned, Versioned, IdsIssued,
                             KeepsHeld
    <2>4. QED
      BY <2>1, <2>2, <2>3 DEF HeldInv
  <1>2. CASE Crash
    <2>1. PICK p \in Procs : req[p] # Idle
      BY <1>2 DEF Crash
    <2>2. /\ \A q \in Procs : req'[q] = Idle
          /\ UNCHANGED <<buckets, versions, issued>>
      BY <1>2 DEF Crash, vars
    <2>3. \A b \in Buckets : Versioned(b) => Versioned(b)'
      BY <2>2 DEF Versioned
    <2> HIDE DEF Idle
    <2>4. QED
      BY <2>2, <2>3, IdleCareless, HeldStatus DEF BackendInv
  <1>3. ASSUME NEW p \in Procs, RemoveDir(p) PROVE HeldInv' /\ KeepsHeld
    BY <1>3, HeldFinish DEF RemoveDir, BackendInv, vars
  <1>4. QED
    BY <1>1, <1>2, <1>3, HeldBucketRequest, HeldBegin, HeldPutStep, HeldReadStep, HeldRemoveStep
       DEF BackendNext

LEMMA HeldInit == BackendInit => HeldInv
  <1> SUFFICES ASSUME BackendInit PROVE HeldInv
    OBVIOUS
  <1>1. \A p \in Procs : req[p] = Idle
    BY DEF BackendInit
  <1>2. \A p \in Procs : LockAware(req[p]) /\ req[p].at \notin Writing
    BY <1>1, IdleCareless, CarelessAware DEF Careless
  <1>3. \A b \in Buckets, k \in Keys : versions[b][k] = {}
    BY DEF BackendInit, Init, NoVersions
  <1>4. QED
    BY <1>2, <1>3 DEF HeldInv, OneRecordEach, PlainUntilVersioned, IdsIssued

\* With one request at a time, a version under legal hold with an id of its own
\* stays as it is, although DELETE of a whole key looks at the head's lock only
\* and the lock is read in one transaction and the removal made in the next.
\* One without, and the one with the id "null", is replaced by nothing but a
\* later write under its id: a PUT, a form upload, or the delete marker that
\* DELETE writes, none of which looks at locks.
THEOREM SerialHeldStays ==
  ASSUME OneAtATime, StatusHolds
  PROVE  BackendSpec => HeldStays
  <1>1. BackendInv /\ SerialInv /\ StampIsNow /\ HeldInv /\ [BackendNext]_backendVars => HeldInv'
    BY HeldStep
  <1>2. BackendInv /\ SerialInv /\ StampIsNow /\ HeldInv /\ [BackendNext]_backendVars
        => [KeepsHeld]_vars
    BY HeldStep
  <1>3. BackendSpec => []SerialInv
    BY BackendIsSerial, SerialInvariant, PTL
  <1>4. BackendSpec => [][KeepsHeld]_vars
    BY <1>1, <1>2, <1>3, HeldInit, BackendInvariant, StampInvariant, PTL DEF BackendSpec
  <1>5. QED
    BY <1>4 DEF HeldStays, KeepsHeld, Keeps

-----------------------------------------------------------------------------
(***************************************************************************)
(* What GET sends, one request at a time, with no failed write and no      *)
(* crash, of any version, those that share the file key@null included.     *)
(*                                                                         *)
(* A key can have a version without an id, from before its bucket had      *)
(* versioning, and a version "null", from a time of suspension.  Their     *)
(* file is the same, and holds the content of the later of the two.  That  *)
(* is "null", where nothing but a bucket's status gives a write its id and *)
(* the status never goes back to none; and DELETE ?versionId=null would    *)
(* remove the file of both.  Nothing holds of a version to whose file the  *)
(* name of another key, or one with a made-up id, leads.                   *)
(***************************************************************************)
OneNullAtATime ==
    /\ Faults = {}
    /\ "deleteNull" \notin Ops
    /\ "suspend" \notin Ops \/ Ops \cap {"copy", "post", "disable"} = {}

HasNull(b, k) == \E n \in versions[b][k] : n.vid = "null"
Superseded(b, k, m) == m.vid = "" /\ HasNull(b, k)
Matches(b, k, m) ==
    m.body.marker \/ ~Alone(b, k, m.vid) \/ File(b, k, m.vid) = m.body.content

\* Between the rename and the commit the file is ahead of the records.
Rewrites(r, b, k, vid) ==
    r.at = "commit" /\ r.b = b /\ r.k = k /\ FileVid(r.m.vid) = FileVid(vid)

RecordsMatch ==
    \A b \in Buckets, k \in Keys : \A m \in versions[b][k] :
        \/ Superseded(b, k, m)
        \/ \E p \in Procs : Rewrites(req[p], b, k, m.vid)
        \/ Matches(b, k, m)

NullIsNewer ==
    \A b \in Buckets, k \in Keys : \A m, n \in versions[b][k] :
        m.vid = "" /\ n.vid = "null" => m.modified < n.modified

NoNulls ==
    "suspend" \notin Ops => /\ \A b \in Buckets, k \in Keys : ~HasNull(b, k)
                            /\ \A b \in Buckets : buckets[b] # "Suspended"

\* What a request in flight counts on.
Sound(r) ==
    /\ r.at \in Writing \cup {"copy"} /\ "suspend" \notin Ops => r.m.vid # "null"
    /\ r.at \in Writing /\ "suspend" \in Ops /\ r.m.vid = "" => ~Versioned(r.b)
    /\ r.at = "commit" => File(r.b, r.k, r.m.vid) = r.m.body.content
    /\ r.at = "mark" => r.m.body.marker
    /\ r.at \in {"lock", "remove"} => r.vid # "null"
    /\ r.at = "unlink" => \A m \in versions[r.b][r.k] : FileVid(m.vid) # FileVid(r.vid)
    /\ r.at = "rmdir" => ~Exists(r.b)
    /\ r.at = "open" => Matches(r.b, r.k, r.m)
    /\ r.at = "send" /\ Alone(r.b, r.k, r.m.vid) => r.m.body.marker \/ r.data = r.m.body.content

OpenInv ==
    /\ RecordsMatch
    /\ NullIsNewer
    /\ NoNulls
    /\ \A p \in Procs : Sound(req[p])

\* The invariants established above, which the files rely on.
SerialBackendInv ==
    /\ OneAtATime
    /\ OneNullAtATime
    /\ BackendInv
    /\ SerialInv
    /\ StampIsNow
    /\ "suspend" \in Ops => HeldInv

LEMMA IdleSound == Sound(Idle) /\ Idle.at = "idle"
  BY DEF Sound, Idle, Writing

LEMMA SoundLater ==
  ASSUME NEW q \in Procs, NEW r, req'[q] = r, Sound(r)'
  PROVE  Sound(req[q])'
  BY DEF Sound, Versioned, File, Exists, Matches

LEMMA IdleStaysSound == Sound(Idle)'
  BY DEF Sound, Idle, Writing

LEMMA SerialTypes ==
  ASSUME SerialBackendInv
  PROVE  LocalInv /\ IndexInv /\ TypeOK
  BY DEF SerialBackendInv, BackendInv, IndexInv

\* A write without an id has no version "null" beside it.
LEMMA PlainAlone ==
  ASSUME SerialBackendInv, OpenInv, NEW p \in Procs, req[p].at \in Writing, req[p].m.vid = "",
         req[p].b \in Buckets, req[p].k \in Keys
  PROVE  ~HasNull(req[p].b, req[p].k)
  <1>1. CASE "suspend" \notin Ops
    BY <1>1 DEF OpenInv, NoNulls
  <1>2. CASE "suspend" \in Ops
    <2>1. HeldInv /\ ~Versioned(req[p].b)
      BY <1>2 DEF SerialBackendInv, OpenInv, Sound
    <2>2. QED
      BY <2>1 DEF HeldInv, PlainUntilVersioned, HasNull
  <1>3. QED
    BY <1>1, <1>2

\* The head is not a version that another has taken the file of.
LEMMA HeadNotSuperseded ==
  ASSUME SerialBackendInv, NullIsNewer, NEW b \in Buckets, NEW k \in Keys, objects[b][k] # None
  PROVE  objects[b][k] \in versions[b][k] /\ ~Superseded(b, k, objects[b][k])
  <1>1. objects[b][k] \in versions[b][k]
    BY SerialTypes DEF IndexInv, HeadIsStored
  <1>2. ASSUME NEW n \in versions[b][k], n.vid = "null", objects[b][k].vid = "" PROVE FALSE
    <2>1. objects[b][k].modified < n.modified /\ n.modified <= objects[b][k].modified
      BY <1>1, <1>2 DEF NullIsNewer, SerialBackendInv, SerialInv, HeadIsNewest
    <2>2. objects[b][k].modified \in Nat /\ n.modified \in Nat
      BY <1>1, SerialTypes, ClockAssumption DEF TypeOK, Meta
    <2>3. QED
      BY <2>1, <2>2
  <1>3. QED
    BY <1>1, <1>2 DEF Superseded, HasNull

\* A step that concerns the request only, and is none between rename and commit.
LEMMA OpenRequest ==
  ASSUME SerialBackendInv, OpenInv, NEW p \in Procs, NEW r, SetRequest(p, r), Sound(r),
         req[p].at # "commit", r.at # "commit", UNCHANGED <<buckets, versions, files>>
  PROVE  OpenInv'
  <1>1. \A q \in Procs : req'[q] = r /\ q = p
    BY SerialTypes, OnlyRequest DEF SerialBackendInv, OneAtATime
  <1>2. \A q \in Procs : Sound(req[q])'
    BY <1>1 DEF Sound, Versioned, File, Exists, Matches
  <1>3. RecordsMatch'
    <2>1. \A b \in Buckets, k \in Keys : \A m \in versions[b][k] :
              Superseded(b, k, m) \/ Matches(b, k, m)
      BY <1>1 DEF OpenInv, RecordsMatch, Rewrites
    <2>2. QED
      BY <2>1 DEF RecordsMatch, Superseded, HasNull, Matches, File
  <1>4. NullIsNewer' /\ NoNulls'
    BY DEF OpenInv, NullIsNewer, NoNulls, HasNull
  <1>5. QED
    BY <1>2, <1>3, <1>4 DEF OpenInv

LEMMA OpenFinish ==
  ASSUME SerialBackendInv, OpenInv, NEW p \in Procs, Finish(p), req[p].at # "commit",
         UNCHANGED <<buckets, versions, files>>
  PROVE  OpenInv'
  <1> HIDE DEF Idle
  <1>1. SetRequest(p, Idle) /\ Sound(Idle) /\ Idle.at # "commit"
    BY FinishSets, IdleSound
  <1>2. QED
    BY <1>1, OpenRequest

\* A file to which one name leads changes under that name only.
LEMMA AnyFileChanges ==
  ASSUME LocalInv, NEW b \in Buckets, NEW k \in Keys, NEW vid \in Vids, NEW c,
         SetFile(b, k, vid, c)
  PROVE  /\ File(b, k, vid)' = c
         /\ \A b2 \in Buckets, k2 \in Keys, v \in Vids : Alone(b2, k2, v) =>
               File(b2, k2, v)' = IF b2 = b /\ k2 = k /\ FileVid(v) = FileVid(vid) THEN c
                                  ELSE File(b2, k2, v)
  <1>1. File(b, k, vid)' = c
    BY OneFileChanges
  <1>2. ASSUME NEW b2 \in Buckets, NEW k2 \in Keys, NEW v \in Vids, Alone(b2, k2, v)
        PROVE  Path(b2, k2, v) = Path(b, k, vid)
                  <=> b2 = b /\ k2 = k /\ FileVid(v) = FileVid(vid)
    BY <1>2, PathType DEF Alone, Path
  <1>3. QED
    BY <1>1, <1>2, OneFileChanges

\* A step that changes one file: that of the write under way, or one that no
\* record needs.
LEMMA OpenFileStep ==
  ASSUME SerialBackendInv, OpenInv, NEW p \in Procs, NEW r, SetRequest(p, r),
         NEW b \in Buckets, NEW k \in Keys, NEW vid \in Vids, NEW c, SetFile(b, k, vid, c),
         UNCHANGED <<buckets, versions>>,
         req[p].at = "commit" => Rewrites(req[p], b, k, vid),
         Sound(r)',
         \/ Rewrites(r, b, k, vid)
         \/ \A m \in versions[b][k] : FileVid(m.vid) # FileVid(vid)
  PROVE  OpenInv'
  <1>1. \A q \in Procs : req'[q] = r /\ q = p
    BY SerialTypes, OnlyRequest DEF SerialBackendInv, OneAtATime
  <1>2. \A q \in Procs : Sound(req[q])'
    BY <1>1 DEF Sound, Versioned, File, Exists, Matches
  <1>3. RecordsMatch'
    <2> SUFFICES ASSUME NEW d \in Buckets, NEW j \in Keys, NEW m \in versions[d][j]
                 PROVE  \/ Superseded(d, j, m)'
                        \/ \E q \in Procs : Rewrites(req'[q], d, j, m.vid)
                        \/ Matches(d, j, m)'
      BY DEF RecordsMatch, Rewrites
    <2>1. m.vid \in Vids
      BY SerialTypes DEF TypeOK, Meta
    <2>2. Superseded(d, j, m)' = Superseded(d, j, m)
      BY DEF Superseded, HasNull
    <2>3. CASE d = b /\ j = k /\ FileVid(m.vid) = FileVid(vid)
      BY <1>1, <2>3 DEF Rewrites
    <2>4. CASE ~(d = b /\ j = k /\ FileVid(m.vid) = FileVid(vid))
      <3>1. Alone(d, j, m.vid) => File(d, j, m.vid)' = File(d, j, m.vid)
        BY <2>1, <2>4, SerialTypes, AnyFileChanges
      <3>2. ~Rewrites(req[p], d, j, m.vid)
        BY <2>4 DEF Rewrites
      <3>3. Superseded(d, j, m) \/ Matches(d, j, m)
        BY <1>1, <3>2 DEF OpenInv, RecordsMatch
      <3>4. QED
        BY <2>2, <3>1, <3>3 DEF Matches
    <2>5. QED
      BY <2>3, <2>4
  <1>4. NullIsNewer' /\ NoNulls'
    BY DEF OpenInv, NullIsNewer, NoNulls, HasNull
  <1>5. QED
    BY <1>2, <1>3, <1>4 DEF OpenInv

LEMMA OpenRename ==
  ASSUME SerialBackendInv, OpenInv, NEW p \in Procs, RenameFile(p) \/ PlaceFile(p)
  PROVE  OpenInv'
  <1>1. LocalInv /\ (req[p] \in Unstamped \/ req[p] \in Stamped) /\ req[p].at \in {"rename", "place"}
    BY SerialTypes, UnstampedType, StampedType DEF RenameFile, PlaceFile, LocalInv
  <1>2. PICK b \in Buckets, k \in Keys, m \in Meta : b = req[p].b /\ k = req[p].k /\ m = req[p].m
    BY <1>1 DEF Unstamped, Stamped
  <1>3. SetFile(b, k, m.vid, m.body.content) /\ UNCHANGED <<buckets, versions>>
    BY <1>2 DEF RenameFile, PlaceFile, vars, SetFile
  <1>4. PICK r : SetRequest(p, r) /\ r.at = "commit" /\ r.b = b /\ r.k = k /\ r.m = m
    <2>1. CASE RenameFile(p)
      <3> DEFINE s == [at |-> "commit", b |-> b, k |-> k, m |-> m, since |-> clock]
      <3>1. SetRequest(p, s)
        BY <1>2, <2>1 DEF RenameFile, SetRequest
      <3>2. s.at = "commit" /\ s.b = b /\ s.k = k /\ s.m = m
        OBVIOUS
      <3> HIDE DEF s
      <3>3. QED
        BY <3>1, <3>2
    <2>2. CASE PlaceFile(p)
      <3>1. req[p] \in Stamped
        BY <1>1, <2>2, StampedType DEF PlaceFile, LocalInv
      <3> DEFINE s == [req[p] EXCEPT !.at = "commit"]
      <3>2. s.at = "commit" /\ s.b = b /\ s.k = k /\ s.m = m
        BY <1>2, <3>1 DEF Stamped
      <3>3. SetRequest(p, s)
        BY <2>2, GotoSets DEF PlaceFile
      <3> HIDE DEF s
      <3>4. QED
        BY <3>2, <3>3
    <2>3. QED
      BY <2>1, <2>2
  <1>5. Sound(req[p]) /\ m.vid \in Vids
    BY DEF OpenInv, Meta
  <1>6. File(b, k, m.vid)' = m.body.content
    BY <1>1, <1>3, <1>5, AnyFileChanges
  <1>7. Sound(r)'
    BY <1>1, <1>2, <1>3, <1>4, <1>5, <1>6 DEF Sound, Writing, Versioned
  <1>8. Rewrites(r, b, k, m.vid)
    BY <1>4 DEF Rewrites
  <1>9. QED
    BY <1>1, <1>3, <1>4, <1>5, <1>7, <1>8, OpenFileStep

\* A step that gives one key another set of versions, whose files are in place.
LEMMA OpenVersionStep ==
  ASSUME SerialBackendInv, OpenInv, NEW p \in Procs, NEW r, SetRequest(p, r),
         NEW b \in Buckets, NEW k \in Keys, NEW S, SetVersions(b, k, S),
         UNCHANGED <<buckets, files>>,
         req[p].at = "commit" => req[p].b = b /\ req[p].k = k,
         r.at \in {"idle", "unlink"},
         r.at = "unlink" => /\ r.b = b /\ r.k = k
                            /\ \A n \in S : FileVid(n.vid) # FileVid(r.vid),
         \A n \in S : \/ n.vid = "" /\ \E o \in S : o.vid = "null"
                      \/ Matches(b, k, n),
         \A n, o \in S : n.vid = "" /\ o.vid = "null" => n.modified < o.modified,
         "suspend" \notin Ops => \A n \in S : n.vid # "null"
  PROVE  OpenInv'
  <1>1. \A q \in Procs : req'[q] = r /\ q = p
    BY SerialTypes, OnlyRequest DEF SerialBackendInv, OneAtATime
  <1>2. \A d \in Buckets, j \in Keys :
            versions'[d][j] = IF d = b /\ j = k THEN S ELSE versions[d][j]
    BY SerialTypes DEF TypeOK, SetVersions
  <1>3. \A q \in Procs : Sound(req[q])'
    <2>1. versions'[b][k] = S
      BY <1>2
    <2>2. r.at = "unlink" => \A n \in versions'[r.b][r.k] : FileVid(n.vid) # FileVid(r.vid)
      BY <2>1
    <2>3. r.at \notin Writing \cup {"copy", "lock", "remove", "rmdir", "open", "send"}
      BY DEF Writing
    <2>4. r.at \notin {"commit", "mark"}
      OBVIOUS
    <2>5. QED
      BY <1>1, <2>2, <2>3, <2>4 DEF Sound
  <1>4. RecordsMatch'
    <2> SUFFICES ASSUME NEW d \in Buckets, NEW j \in Keys, NEW m \in versions'[d][j]
                 PROVE  \/ Superseded(d, j, m)'
                        \/ Matches(d, j, m)'
      BY DEF RecordsMatch
    <2>1. Matches(d, j, m)' = Matches(d, j, m)
      BY DEF Matches, File
    <2>2. CASE d = b /\ j = k
      BY <1>2, <2>1, <2>2 DEF Superseded, HasNull
    <2>3. CASE ~(d = b /\ j = k)
      <3>1. versions'[d][j] = versions[d][j]
        BY <1>2, <2>3
      <3>2. ~Rewrites(req[p], d, j, m.vid)
        BY <2>3 DEF Rewrites
      <3>3. Superseded(d, j, m) \/ Matches(d, j, m)
        BY <1>1, <3>1, <3>2 DEF OpenInv, RecordsMatch
      <3>4. Superseded(d, j, m)' = Superseded(d, j, m)
        BY <3>1 DEF Superseded, HasNull
      <3>5. QED
        BY <2>1, <3>3, <3>4
    <2>4. QED
      BY <2>2, <2>3
  <1>5. NullIsNewer'
    BY <1>2 DEF OpenInv, NullIsNewer
  <1>6. NoNulls'
    <2> SUFFICES ASSUME "suspend" \notin Ops
                 PROVE  /\ \A d \in Buckets, j \in Keys : \A n \in versions'[d][j] : n.vid # "null"
                        /\ \A d \in Buckets : buckets[d] # "Suspended"
      BY DEF NoNulls, HasNull
    <2>1. /\ \A d \in Buckets, j \in Keys : \A n \in versions[d][j] : n.vid # "null"
          /\ \A d \in Buckets : buckets[d] # "Suspended"
      BY DEF OpenInv, NoNulls, HasNull
    <2>2. \A n \in S : n.vid # "null"
      OBVIOUS
    <2>3. ASSUME NEW d \in Buckets, NEW j \in Keys, NEW n \in versions'[d][j]
          PROVE  n.vid # "null"
      <3>1. versions'[d][j] = S \/ versions'[d][j] = versions[d][j]
        BY <1>2
      <3>2. QED
        BY <2>1, <2>2, <2>3, <3>1
    <2>4. QED
      BY <2>1, <2>3
  <1>7. QED
    BY <1>3, <1>4, <1>5, <1>6 DEF OpenInv

\* The record of a write replaces the one whose file it has replaced.
LEMMA OpenCommit ==
  ASSUME SerialBackendInv, OpenInv, NEW p \in Procs, req[p] \in Stamped,
         req[p].at \in {"commit", "mark"}, CommitRecord(req[p]), Finish(p), UNCHANGED files
  PROVE  OpenInv'
  <1>1. req[p].b \in Buckets /\ req[p].k \in Keys /\ req[p].m \in Meta /\ req[p].since = clock
    BY DEF Stamped, SerialBackendInv, StampIsNow
  <1>2. clock \in Nat /\ clock \in 0..MaxClock
    BY SerialTypes, ClockAssumption DEF TypeOK
  <1>3. PICK b \in Buckets, k \in Keys : b = req[p].b /\ k = req[p].k
    BY <1>1
  <1>4. PICK t \in req[p].since..clock : PutObject(b, k, [req[p].m EXCEPT !.modified = t])
    BY <1>3 DEF CommitRecord
  <1> DEFINE m == [req[p].m EXCEPT !.modified = t]
             S == WithVersion(versions[b][k], m)
  <1>5. m \in Meta /\ m.modified = clock /\ m.vid = req[p].m.vid /\ m.body = req[p].m.body
    BY <1>1, <1>2, <1>4 DEF Meta
  <1>6. SetVersions(b, k, S) /\ UNCHANGED buckets
    BY <1>3, <1>4, SerialTypes DEF PutObject, SetVersions, TypeOK
  <1>7. Sound(req[p])
    BY DEF OpenInv
  <1>8. m.vid = "" => ~HasNull(b, k)
    BY <1>1, <1>3, <1>5, PlainAlone DEF Writing
  <1>9. Matches(b, k, m)
    BY <1>3, <1>5, <1>7 DEF Matches, Sound
  <1>10. "suspend" \notin Ops => m.vid # "null"
    BY <1>5, <1>7 DEF Sound, Writing
  <1>11. SetRequest(p, Idle) /\ Idle.at = "idle"
    BY FinishSets, IdleSound
  <1>12. \A n \in versions[b][k] : n.modified \in Nat /\ n.modified < clock
    BY SerialTypes, ClockAssumption DEF TypeOK, Meta, SerialBackendInv, SerialInv, StampsArePast
  <1>13. \A n \in versions[b][k] :
            \/ n.vid = "" /\ HasNull(b, k)
            \/ Rewrites(req[p], b, k, n.vid)
            \/ Matches(b, k, n)
    BY <1>3 DEF OpenInv, RecordsMatch, Superseded, SerialBackendInv, OneAtATime
  <1>14. \A n \in versions[b][k] : Rewrites(req[p], b, k, n.vid) =>
            n.vid = m.vid \/ {n.vid, m.vid} = {"", "null"}
    BY <1>5 DEF Rewrites, FileVid
  <1> HIDE DEF m, Idle
  <1>15. \A n \in S : n = m \/ (n \in versions[b][k] /\ n.vid # m.vid)
    BY DEF WithVersion
  <1>16. m \in S /\ \A n \in versions[b][k] : n.vid # m.vid => n \in S
    BY DEF WithVersion
  <1> HIDE DEF S
  <1>17. HasNull(b, k) => \E o \in S : o.vid = "null"
    BY <1>16 DEF HasNull
  <1>18. ASSUME NEW n \in S
         PROVE  \/ n.vid = "" /\ \E o \in S : o.vid = "null"
                \/ Matches(b, k, n)
    <2>1. CASE n = m
      BY <1>9, <2>1
    <2>2. CASE n \in versions[b][k] /\ n.vid # m.vid
      <3>1. CASE n.vid = "" /\ HasNull(b, k)
        BY <1>17, <3>1
      <3>2. CASE Rewrites(req[p], b, k, n.vid)
        <4>1. \/ n.vid = "" /\ m.vid = "null"
              \/ n.vid = "null" /\ m.vid = ""
          BY <1>14, <2>2, <3>2
        <4>2. QED
          BY <1>8, <1>16, <2>2, <4>1 DEF HasNull
      <3>3. QED
        BY <1>13, <2>2, <3>1, <3>2
    <2>3. QED
      BY <1>15, <2>1, <2>2
  <1>19. ASSUME NEW n \in S, NEW o \in S, n.vid = "", o.vid = "null"
         PROVE  n.modified < o.modified
    <2>1. n # m
      BY <1>8, <1>15, <1>19 DEF HasNull
    <2>2. n \in versions[b][k]
      BY <1>15, <2>1
    <2>3. CASE o = m
      BY <1>5, <1>12, <2>2, <2>3
    <2>4. CASE o # m
      BY <1>15, <1>19, <2>2, <2>4 DEF OpenInv, NullIsNewer
    <2>5. QED
      BY <2>3, <2>4
  <1>20. "suspend" \notin Ops => \A n \in S : n.vid # "null"
    BY <1>10, <1>15 DEF OpenInv, NoNulls, HasNull
  <1>21. req[p].at = "commit" => req[p].b = b /\ req[p].k = k
    BY <1>3
  <1>22. QED
    BY <1>6, <1>11, <1>18, <1>19, <1>20, <1>21, OpenVersionStep

LEMMA OpenPutStep ==
  ASSUME SerialBackendInv, OpenInv, NEW p \in Procs, PutStep(p)
  PROVE  OpenInv'
  <1>1. LocalInv /\ Sound(req[p])
    BY SerialTypes DEF OpenInv
  <1>2. CASE CheckBucket(p)
    <2>1. UNCHANGED <<buckets, versions, files>> /\ req[p].at = "upload"
      BY <1>2 DEF CheckBucket, vars
    <2> DEFINE r == [req[p] EXCEPT !.at = "rename"]
    <2>2. req[p] \in Unstamped
      BY <1>1, <2>1, UnstampedType DEF LocalInv
    <2>3. r.at = "rename" /\ r.b = req[p].b /\ r.m = req[p].m
      BY <2>2 DEF Unstamped
    <2>4. Finish(p) \/ SetRequest(p, r)
      BY <1>2, GotoSets DEF CheckBucket
    <2> HIDE DEF r
    <2>5. Sound(r)
      BY <1>1, <2>1, <2>3 DEF Sound, Writing
    <2>6. QED
      BY <2>1, <2>3, <2>4, <2>5, OpenFinish, OpenRequest
  <1>3. ~UploadFails(p)
    BY DEF UploadFails, SerialBackendInv, OneNullAtATime
  <1>4. CASE CommitPut(p)
    <2>1. req[p] \in Stamped
      BY <1>1, <1>4, StampedType DEF CommitPut, LocalInv
    <2>2. QED
      BY <1>4, <2>1, OpenCommit DEF CommitPut
  <1>5. CASE CommitPutFails(p)
    <2>1. req[p] \in Stamped /\ req[p].at = "commit"
      BY <1>1, <1>5, StampedType DEF CommitPutFails, LocalInv
    <2>2. PICK b \in Buckets, k \in Keys, m \in Meta : b = req[p].b /\ k = req[p].k /\ m = req[p].m
      BY <2>1 DEF Stamped
    <2>3. ~Exists(b)
      BY <1>5, <2>2 DEF CommitPutFails, SerialBackendInv, OneNullAtATime
    <2>4. versions[b][k] = {}
      BY <2>3, SerialTypes DEF IndexInv, GoneBucketsHoldNothing
    <2>5. SetFile(b, k, m.vid, None) /\ UNCHANGED <<buckets, versions>> /\ SetRequest(p, Idle)
      BY <1>5, <2>2, FinishSets DEF CommitPutFails, vars, SetFile
    <2>6. m.vid \in Vids /\ Rewrites(req[p], b, k, m.vid)
      BY <2>1, <2>2 DEF Meta, Rewrites
    <2>7. Sound(Idle)'
      BY DEF Sound, Idle, Writing
    <2> HIDE DEF Idle
    <2>8. QED
      BY <2>4, <2>5, <2>6, <2>7, OpenFileStep
  <1>6. QED
    BY <1>2, <1>3, <1>4, <1>5, OpenRename DEF PutStep

LEMMA OpenReadStep ==
  ASSUME SerialBackendInv, OpenInv, NEW p \in Procs, ReadStep(p)
  PROVE  OpenInv'
  <1>1. UNCHANGED <<buckets, versions, files>> /\ req[p].at \in {"open", "send", "copy"}
    BY DEF ReadStep, OpenFile, SendBody, CopyOpen, vars
  <1>2. Sound(req[p])
    BY DEF OpenInv
  <1>3. CASE Finish(p)
    BY <1>1, <1>3, OpenFinish
  <1>4. CASE OpenFile(p)
    <2> DEFINE r == [at |-> "send", b |-> req[p].b, k |-> req[p].k, m |-> req[p].m,
                    data |-> File(req[p].b, req[p].k, req[p].m.vid)]
    <2>1. Sound(r) /\ r.at = "send"
      BY <1>2, <1>4 DEF OpenFile, Sound, Writing, Matches
    <2>2. Finish(p) \/ SetRequest(p, r)
      BY <1>4 DEF OpenFile, SetRequest
    <2> HIDE DEF r
    <2>3. QED
      BY <1>1, <1>3, <1>4, <2>1, <2>2, OpenRequest DEF OpenFile
  <1>5. CASE CopyOpen(p) /\ ~Finish(p)
    <2>1. "suspend" \notin Ops /\ req[p] \in Copying
      BY <1>5, SerialTypes, CopyingType DEF CopyOpen, SerialBackendInv, HeldInv, LockAware, LocalInv
    <2>2. PICK m : SetRequest(p, Upload(req[p].b, req[p].k, m)) /\ m.vid \in {"", req[p].m.vid}
      <3> DEFINE data == File(req[p].srcB, req[p].srcK, req[p].m.vid)
                 fresh == Record("", FALSE,
                              [content |-> data, marker |-> FALSE, hold |-> req[p].hold])
                 same == [req[p].m EXCEPT !.modified = 0, !.body.content = data]
      <3>1. fresh.vid = ""
        BY DEF Record
      <3>2. same.vid = req[p].m.vid
        BY <2>1 DEF Copying, Meta
      <3>3. SetRequest(p, Upload(req[p].b, req[p].k, IF req[p].replace THEN fresh ELSE same))
        BY <1>5 DEF CopyOpen, SetRequest
      <3> HIDE DEF fresh, same
      <3>4. QED
        BY <3>1, <3>2, <3>3
    <2>3. m.vid # "null"
      BY <1>1, <1>2, <1>5, <2>1, <2>2 DEF CopyOpen, Sound
    <2> DEFINE r == Upload(req[p].b, req[p].k, m)
    <2>4. Sound(r) /\ r.at = "upload"
      BY <2>1, <2>3 DEF Sound, Upload, Writing
    <2>5. SetRequest(p, r)
      BY <2>2
    <2> HIDE DEF r
    <2>6. QED
      BY <1>1, <2>4, <2>5, OpenRequest
  <1>6. QED
    BY <1>3, <1>4, <1>5 DEF ReadStep, SendBody

\* What is left by a removal has kept its file.
LEMMA OpenCommitDelete ==
  ASSUME SerialBackendInv, OpenInv, NEW p \in Procs, CommitDelete(p)
  PROVE  OpenInv'
  <1>1. Sound(req[p]) /\ req[p] \in Removing /\ req[p].at = "remove" /\ UNCHANGED files
    BY SerialTypes, RemovingType DEF CommitDelete, LocalInv, OpenInv
  <1>2. PICK b \in Buckets, k \in Keys, vid \in Vids :
            b = req[p].b /\ k = req[p].k /\ vid = req[p].vid
    BY <1>1 DEF Removing
  <1>3. CASE ~Exists(b)
    BY <1>1, <1>2, <1>3, OpenFinish DEF CommitDelete, vars
  <1>4. CASE Exists(b)
    <2> DEFINE r == [req[p] EXCEPT !.at = "unlink"]
               rest == {m \in versions[b][k] : m.vid # vid}
    <2>1. /\ SetRequest(p, r)
          /\ \/ vid = "" /\ DeleteObject(b, k)
             \/ vid # "" /\ DeleteVersion(b, k, vid)
      BY <1>2, <1>4, GotoSets DEF CommitDelete
    <2>2. r.at = "unlink" /\ r.b = b /\ r.k = k /\ r.vid = vid
      BY <1>1, <1>2 DEF Removing
    <2>3. UNCHANGED buckets /\ vid # "null"
      BY <1>1, <1>2, <2>1 DEF DeleteObject, DeleteVersion, Sound
    <2>4. \A n \in rest : n \in versions[b][k] /\ n.vid # vid /\ n \in Meta
      BY SerialTypes DEF TypeOK
    <2>5. ASSUME SetVersions(b, k, {}) PROVE OpenInv'
      <3> DEFINE S == {}
      <3>1. /\ \A n \in S : FileVid(n.vid) # FileVid(r.vid)
            /\ \A n \in S : \/ n.vid = "" /\ \E o \in S : o.vid = "null"
                            \/ Matches(b, k, n)
            /\ \A n, o \in S : n.vid = "" /\ o.vid = "null" => n.modified < o.modified
            /\ \A n \in S : n.vid # "null"
        OBVIOUS
      <3>2. SetVersions(b, k, S)
        BY <2>5
      <3> HIDE DEF r, S
      <3>3. QED
        BY <1>1, <2>1, <2>2, <2>3, <3>1, <3>2, OpenVersionStep
    <2>6. ASSUME vid # "", NEW m \in rest, SetVersions(b, k, WithVersion(rest, Promoted(m)))
          PROVE  OpenInv'
      <3> DEFINE S == WithVersion(rest, Promoted(m))
      <3>1. m \in Meta /\ m \in versions[b][k] /\ m.vid # vid
        BY <2>4
      <3>2. Promoted(m).vid = m.vid /\ Promoted(m).body = m.body /\ Promoted(m).modified = m.modified
        BY <3>1 DEF Promoted, Meta
      <3>3. \A n \in S : \E o \in rest : o.vid = n.vid /\ o.body = n.body /\ o.modified = n.modified
        BY <3>2 DEF WithVersion
      <3>4. \A n \in rest : \E o \in S : o.vid = n.vid
        BY <3>2 DEF WithVersion
      <3>5. SetVersions(b, k, S)
        BY <2>6
      <3> HIDE DEF S
      <3>6. HasNull(b, k) => \E o \in S : o.vid = "null"
        <4>1. \A n \in versions[b][k] : n.vid = "null" => n \in rest
          BY <2>3
        <4>2. QED
          BY <3>4, <4>1 DEF HasNull
      <3>7. \A n \in rest : Superseded(b, k, n) \/ Matches(b, k, n)
        <4>1. \A q \in Procs : q = p
          BY DEF SerialBackendInv, OneAtATime
        <4>2. QED
          BY <1>1, <2>4, <4>1 DEF OpenInv, RecordsMatch, Rewrites
      <3>8. ASSUME NEW n \in S
            PROVE  \/ n.vid = "" /\ \E o \in S : o.vid = "null"
                   \/ Matches(b, k, n)
        <4>1. PICK o \in rest : o.vid = n.vid /\ o.body = n.body
          BY <3>3
        <4>2. QED
          BY <3>6, <3>7, <4>1 DEF Superseded, Matches
      <3>9. ASSUME NEW n \in S, NEW o \in S, n.vid = "", o.vid = "null"
            PROVE  n.modified < o.modified
        <4>1. PICK x \in rest : x.vid = n.vid /\ x.modified = n.modified
          BY <3>3
        <4>2. PICK y \in rest : y.vid = o.vid /\ y.modified = o.modified
          BY <3>3
        <4>3. QED
          BY <2>4, <3>9, <4>1, <4>2 DEF OpenInv, NullIsNewer
      <3>10. "suspend" \notin Ops => \A n \in S : n.vid # "null"
        BY <2>4, <3>3 DEF OpenInv, NoNulls, HasNull
      <3>11. \A n \in S : FileVid(n.vid) # FileVid(r.vid)
        <4>1. \A n \in S : n.vid # vid
          BY <2>4, <3>3
        <4>2. QED
          BY <2>2, <2>3, <2>6, <4>1 DEF FileVid
      <3> HIDE DEF r
      <3>12. QED
        BY <1>1, <2>1, <2>2, <2>3, <3>5, <3>8, <3>9, <3>10, <3>11, OpenVersionStep
    <2>7. CASE vid = "" /\ DeleteObject(b, k)
      BY <2>5, <2>7 DEF DeleteObject, SetVersions
    <2>8. CASE vid # "" /\ DeleteVersion(b, k, vid)
      BY <2>5, <2>6, <2>8 DEF DeleteVersion, Newest, SetVersions
    <2>9. QED
      BY <2>1, <2>7, <2>8
  <1>5. QED
    BY <1>3, <1>4

LEMMA OpenUnlink ==
  ASSUME SerialBackendInv, OpenInv, NEW p \in Procs, Unlink(p)
  PROVE  OpenInv'
  <1>1. Sound(req[p]) /\ req[p] \in Removing /\ req[p].at = "unlink"
    BY SerialTypes, RemovingType DEF Unlink, LocalInv, OpenInv
  <1>2. PICK b \in Buckets, k \in Keys, vid \in Vids :
            b = req[p].b /\ k = req[p].k /\ vid = req[p].vid
    BY <1>1 DEF Removing
  <1>3. \A m \in versions[b][k] : FileVid(m.vid) # FileVid(vid)
    BY <1>1, <1>2 DEF Sound
  <1>4. SetFile(b, k, vid, None) /\ UNCHANGED <<buckets, versions>> /\ SetRequest(p, Idle)
    BY <1>2, FinishSets DEF Unlink, vars, SetFile
  <1>5. Sound(Idle)'
    BY DEF Sound, Idle, Writing
  <1> HIDE DEF Idle
  <1>6. QED
    BY <1>1, <1>3, <1>4, <1>5, OpenFileStep

LEMMA OpenRemoveStep ==
  ASSUME SerialBackendInv, OpenInv, NEW p \in Procs, RemoveStep(p)
  PROVE  OpenInv'
  <1>1. LocalInv /\ Sound(req[p])
    BY SerialTypes DEF OpenInv
  <1>2. CASE CommitMarker(p)
    <2>1. req[p] \in Stamped /\ req[p].at = "mark"
      BY <1>1, <1>2, StampedType DEF CommitMarker, LocalInv
    <2>2. CASE CommitRecord(req[p])
      BY <1>2, <2>1, <2>2, OpenCommit DEF CommitMarker
    <2>3. CASE UNCHANGED vars
      BY <1>2, <2>1, <2>3, OpenFinish DEF CommitMarker, vars
    <2>4. QED
      BY <1>2, <2>2, <2>3 DEF CommitMarker
  <1>3. CASE CheckLock(p)
    <2>1. UNCHANGED <<buckets, versions, files>> /\ req[p].at = "lock"
      BY <1>3 DEF CheckLock, vars
    <2> DEFINE r == [req[p] EXCEPT !.at = "remove"]
    <2>2. req[p] \in Removing
      BY <1>1, <2>1, RemovingType DEF LocalInv
    <2>3. r.at = "remove" /\ r.vid = req[p].vid
      BY <2>2 DEF Removing
    <2>4. Finish(p) \/ SetRequest(p, r)
      BY <1>3, GotoSets DEF CheckLock
    <2> HIDE DEF r
    <2>5. Sound(r)
      BY <1>1, <2>1, <2>3 DEF Sound, Writing
    <2>6. QED
      BY <2>1, <2>3, <2>4, <2>5, OpenFinish, OpenRequest
  <1>4. ~DeleteFails(p)
    BY DEF DeleteFails, SerialBackendInv, OneNullAtATime
  <1>5. QED
    BY <1>2, <1>3, <1>4, OpenCommitDelete, OpenUnlink DEF RemoveStep

\* A bucket's directory goes after the bucket, which no longer has a record.
LEMMA OpenRemoveDir ==
  ASSUME SerialBackendInv, OpenInv, NEW p \in Procs, RemoveDir(p)
  PROVE  OpenInv'
  <1>1. \A q \in Procs : q = p
    BY DEF SerialBackendInv, OneAtATime
  <1>2. req[p].at = "rmdir" /\ req[p].b \in Buckets /\ ~Exists(req[p].b)
    <2>1. req[p].at = "rmdir"
      BY DEF RemoveDir
    <2>2. req[p].b \in Buckets
      BY <2>1, DroppingType, SerialTypes DEF LocalInv, Dropping
    <2>3. QED
      BY <2>1, <2>2 DEF OpenInv, Sound
  <1>3. \A k \in Keys : versions[req[p].b][k] = {}
    BY <1>2, SerialTypes DEF IndexInv, GoneBucketsHoldNothing
  <1>4. UNCHANGED <<buckets, versions>> /\ \A q \in Procs : req'[q] = Idle
    BY <1>1, SerialTypes, FinishSets, OnlyRequest DEF RemoveDir, vars, SerialBackendInv
  <1>5. \A b \in Buckets, k \in Keys, v \in Vids :
            b # req[p].b /\ Alone(b, k, v) => File(b, k, v)' = File(b, k, v)
    <2> SUFFICES ASSUME NEW b \in Buckets, NEW k \in Keys, NEW v \in Vids,
                        b # req[p].b, Alone(b, k, v)
                 PROVE  files'[Path(b, k, v)] = files[Path(b, k, v)]
      BY DEF File
    <2>1. Path(b, k, v) \in Paths /\ Path(b, k, v) \notin Tree[req[p].b]
      BY <1>2, PathType DEF Alone
    <2>2. QED
      BY <2>1 DEF RemoveDir
  <1>6. \A q \in Procs : Sound(req[q])'
    <2> HIDE DEF Idle
    <2>1. QED
      BY <1>4, IdleStaysSound, SoundLater
  <1>7. RecordsMatch'
    <2> SUFFICES ASSUME NEW b \in Buckets, NEW k \in Keys, NEW m \in versions[b][k]
                 PROVE  Superseded(b, k, m)' \/ Matches(b, k, m)'
      BY <1>4 DEF RecordsMatch
    <2>1. b # req[p].b
      BY <1>3
    <2>2. Superseded(b, k, m) \/ Matches(b, k, m)
      BY <1>1, <1>2 DEF OpenInv, RecordsMatch, Rewrites
    <2>3. m.vid \in Vids
      BY SerialTypes DEF TypeOK, Meta
    <2>4. Alone(b, k, m.vid) => File(b, k, m.vid)' = File(b, k, m.vid)
      BY <1>5, <2>1, <2>3
    <2>5. QED
      BY <1>4, <2>2, <2>4 DEF Superseded, HasNull, Matches
  <1>8. NullIsNewer' /\ NoNulls'
    BY <1>4 DEF OpenInv, NullIsNewer, NoNulls, HasNull
  <1>9. QED
    BY <1>6, <1>7, <1>8 DEF OpenInv

LEMMA OpenBucketRequest ==
  ASSUME SerialBackendInv, OpenInv, NEW p \in Procs, BucketRequest(p)
  PROVE  OpenInv'
  <1>1. PICK b \in Buckets :
            \/ HandleCreateBucket(p, b) \/ PutBucketVersioning(p, b) \/ AdminPutBucketVersioning(p, b)
            \/ HandleDeleteBucket(p, b) \/ AdminDeleteBucket(p, b)
    BY DEF BucketRequest
  <1>2. req[p] = Idle /\ UNCHANGED <<versions, files>>
    BY <1>1 DEF HandleCreateBucket, PutBucketVersioning, AdminPutBucketVersioning,
       HandleDeleteBucket, AdminDeleteBucket, CreateBucket, UpdateBucket, DeleteBucket
  <1>3. \A q \in Procs : q = p
    BY DEF SerialBackendInv, OneAtATime
  <1>4. \A q \in Procs : req'[q].at # "commit" /\ Sound(req[q])'
    <2>1. CASE req' = req
      <3>1. Idle.at # "commit"
        BY IdleSound
      <3> HIDE DEF Idle
      <3>2. \A q \in Procs : req'[q] = Idle
        BY <1>2, <1>3, <2>1
      <3>3. QED
        BY <3>1, <3>2, IdleStaysSound, SoundLater
    <2>2. CASE HandleDeleteBucket(p, b)
      <3> DEFINE r == [at |-> "rmdir", b |-> b]
      <3>1. SetRequest(p, r)
        BY <2>2 DEF HandleDeleteBucket, SetRequest
      <3>2. \A q \in Procs : req'[q] = r
        <4> HIDE DEF r
        <4>1. QED
          BY <3>1, SerialTypes, OnlyRequest DEF SerialBackendInv
      <3>3. ~Exists(b)'
        BY <2>2, SerialTypes DEF HandleDeleteBucket, DeleteBucket, Exists, TypeOK
      <3>4. Sound(r)' /\ r.at # "commit"
        BY <3>3 DEF Sound, Writing
      <3> HIDE DEF r
      <3>5. QED
        BY <3>2, <3>4, SoundLater
    <2>3. QED
      BY <1>1, <2>1, <2>2 DEF HandleCreateBucket, PutBucketVersioning, AdminPutBucketVersioning,
         AdminDeleteBucket
  <1>5. RecordsMatch'
    <2>1. \A d \in Buckets, k \in Keys : \A m \in versions[d][k] :
              Superseded(d, k, m) \/ Matches(d, k, m)
      BY <1>2, <1>3, IdleSound DEF OpenInv, RecordsMatch, Rewrites
    <2>2. QED
      BY <1>2, <2>1 DEF RecordsMatch, Superseded, HasNull, Matches, File
  <1>6. NullIsNewer'
    BY <1>2 DEF OpenInv, NullIsNewer
  <1>7. NoNulls'
    <2> SUFFICES ASSUME "suspend" \notin Ops
                 PROVE  \A d \in Buckets : buckets'[d] # "Suspended"
      BY <1>2 DEF OpenInv, NoNulls, HasNull
    <2>1. \A d \in Buckets : buckets[d] # "Suspended"
      BY DEF OpenInv, NoNulls
    <2>2. PICK status : status # "Suspended" /\ buckets' = [buckets EXCEPT ![b] = status]
      <3>1. CASE \E objectLock \in BOOLEAN : CreateBucket(b, objectLock)
        BY <3>1 DEF CreateBucket
      <3>2. CASE DeleteBucket(b)
        BY <3>2, NoneAssumption DEF DeleteBucket, Statuses
      <3>3. CASE UpdateBucket(b, "Enabled") \/ UpdateBucket(b, "")
        BY <3>3 DEF UpdateBucket
      <3>4. QED
        BY <1>1, <3>1, <3>2, <3>3 DEF HandleCreateBucket, PutBucketVersioning,
           AdminPutBucketVersioning, HandleDeleteBucket, AdminDeleteBucket
    <2>3. QED
      BY <2>1, <2>2, SerialTypes DEF TypeOK
  <1>8. QED
    BY <1>4, <1>5, <1>6, <1>7 DEF OpenInv

LEMMA OpenBegin ==
  ASSUME SerialBackendInv, OpenInv, NEW p \in Procs, BeginRequest(p)
  PROVE  OpenInv'
  <1>1. UNCHANGED <<buckets, versions, files>>
    BY BeginRequestLocal DEF SerialBackendInv, vars
  <1>2. ASSUME NEW op, NEW r, Begin(p, op, r), Sound(r), r.at # "commit" PROVE OpenInv'
    BY <1>1, <1>2, IdleSound, OpenRequest DEF Begin, SetRequest
  <1>3. ASSUME NEW op, NEW r, Begin(p, op, r), r.at \in {"upload", "place", "mark"},
               r.at = "mark" => r.m.body.marker, r.b \in Buckets, NewVid(r.b, r.m.vid)
        PROVE  OpenInv'
    <2>1. r.m.vid = "null" => "suspend" \in Ops
      BY <1>3, UuidAssumption DEF NewVid, OpenInv, NoNulls
    <2>2. r.m.vid = "" => ~Versioned(r.b)
      BY <1>3, UuidAssumption DEF NewVid, Versioned
    <2>3. Sound(r)
      BY <1>3, <2>1, <2>2 DEF Sound, Writing
    <2>4. QED
      BY <1>2, <1>3, <2>3
  <1>4. ASSUME NEW b \in Buckets, NEW k, NEW hold, BeginPut(p, b, k, hold) PROVE OpenInv'
    BY <1>3, <1>4 DEF BeginPut, Upload, Record
  <1>5. ASSUME NEW b \in Buckets, NEW k, NEW hold, BeginComplete(p, b, k, hold) PROVE OpenInv'
    BY <1>3, <1>5 DEF BeginComplete, Record
  <1>6. ASSUME NEW b, NEW k, BeginPost(p, b, k) PROVE OpenInv'
    <2>1. "suspend" \notin Ops
      BY <1>6 DEF BeginPost, Begin, SerialBackendInv, OneNullAtATime
    <2> DEFINE body == [content |-> started + 1, marker |-> FALSE, hold |-> FALSE]
               r == Upload(b, k, Record("", FALSE, body))
    <2>2. Sound(r) /\ r.at = "upload"
      BY <2>1 DEF Sound, Upload, Record, Writing
    <2>3. Begin(p, "post", r)
      BY <1>6 DEF BeginPost
    <2> HIDE DEF r
    <2>4. QED
      BY <1>2, <2>2, <2>3
  <1>7. ASSUME NEW b \in Buckets, NEW k \in Keys, NEW vid \in Vids, BeginGet(p, b, k, vid)
        PROVE  OpenInv'
    <2> DEFINE m == GetObject(b, k, vid)
               r == [at |-> "open", b |-> b, k |-> k, m |-> m]
    <2>1. m # None /\ m \in versions[b][k] /\ Begin(p, "get", r)
      BY <1>7, SerialTypes, FoundIsRecorded DEF BeginGet
    <2>2. ~Superseded(b, k, m)
      <3>1. CASE vid = ""
        BY <2>1, <3>1, HeadNotSuperseded DEF GetObject, OpenInv
      <3>2. CASE vid # ""
        BY <2>1, <3>2 DEF GetObject, Superseded
      <3>3. QED
        BY <3>1, <3>2
    <2> HIDE DEF m
    <2>3. \A q \in Procs : req[q].at = "idle"
      BY <1>7, IdleSound DEF BeginGet, Begin, SerialBackendInv, OneAtATime
    <2>4. Matches(b, k, m)
      BY <2>1, <2>2, <2>3 DEF OpenInv, RecordsMatch, Rewrites
    <2>5. Sound(r) /\ r.at = "open"
      BY <2>4 DEF Sound, Writing
    <2> HIDE DEF r
    <2>6. QED
      BY <1>2, <2>1, <2>5
  <1>8. ASSUME NEW b, NEW k, NEW vid, NEW op, Begin(p, op, Deletion(b, k, vid)), vid # "null"
        PROVE  OpenInv'
    <2>1. Sound(Deletion(b, k, vid)) /\ Deletion(b, k, vid).at = "lock"
      BY <1>8 DEF Sound, Deletion, Writing
    <2>2. QED
      BY <1>2, <1>8, <2>1
  <1>9. ASSUME NEW b \in Buckets, NEW k, BeginDelete(p, b, k) PROVE OpenInv'
    <2>1. CASE Begin(p, "delete", Deletion(b, k, ""))
      BY <1>8, <2>1
    <2>2. CASE buckets[b] # ""
      BY <1>3, <1>9, <2>2 DEF BeginDelete, Record
    <2>3. QED
      BY <1>9, <2>1, <2>2 DEF BeginDelete
  <1>10. ASSUME NEW b, NEW k, NEW vid, BeginDeleteVersion(p, b, k, vid) PROVE OpenInv'
    <2>1. vid # "null"
      BY <1>10 DEF BeginDeleteVersion, Begin, SerialBackendInv, OneNullAtATime
    <2>2. QED
      BY <1>8, <1>10, <2>1 DEF BeginDeleteVersion
  <1>11. ASSUME NEW srcB \in Buckets, NEW srcK \in Keys, NEW b, NEW k, NEW replace, NEW hold,
                BeginCopy(p, srcB, srcK, b, k, replace, hold)
         PROVE  OpenInv'
    <2> DEFINE m == GetObject(srcB, srcK, "")
               r == [at |-> "copy", srcB |-> srcB, srcK |-> srcK, b |-> b, k |-> k,
                     m |-> m, replace |-> replace, hold |-> hold]
    <2>1. m # None /\ "copy" \in Ops /\ Begin(p, "copy", r)
      BY <1>11 DEF BeginCopy, Begin
    <2>2. m \in versions[srcB][srcK]
      BY <2>1, SerialTypes, FoundIsRecorded DEF Vids
    <2> HIDE DEF m
    <2>3. "suspend" \notin Ops
      BY <2>1 DEF SerialBackendInv, OneNullAtATime
    <2>4. m.vid # "null"
      BY <2>2, <2>3 DEF OpenInv, NoNulls, HasNull
    <2>5. Sound(r) /\ r.at = "copy"
      BY <2>3, <2>4 DEF Sound, Writing
    <2> HIDE DEF r
    <2>6. QED
      BY <1>2, <2>1, <2>5
  <1>12. QED
    BY <1>4, <1>5, <1>6, <1>7, <1>9, <1>10, <1>11 DEF BeginRequest

LEMMA OpenStep ==
  ASSUME SerialBackendInv, OpenInv, [BackendNext]_backendVars
  PROVE  OpenInv'
  <1>1. CASE UNCHANGED backendVars
    <2>1. UNCHANGED <<buckets, versions, files, req>>
      BY <1>1 DEF backendVars, vars
    <2>2. \A p \in Procs : Sound(req[p])'
      BY <2>1 DEF OpenInv, Sound, Versioned, File, Exists, Matches
    <2>3. RecordsMatch'
      BY <2>1 DEF OpenInv, RecordsMatch, Superseded, HasNull, Rewrites, Matches, File
    <2>4. NullIsNewer' /\ NoNulls'
      BY <2>1 DEF OpenInv, NullIsNewer, NoNulls, HasNull
    <2>5. QED
      BY <2>2, <2>3, <2>4 DEF OpenInv
  <1>2. ~Crash
    BY DEF Crash, SerialBackendInv, OneNullAtATime
  <1>3. QED
    BY <1>1, <1>2, OpenBucketRequest, OpenBegin, OpenPutStep, OpenReadStep, OpenRemoveStep,
       OpenRemoveDir DEF BackendNext

LEMMA OpenInit == BackendInit => OpenInv
  <1> SUFFICES ASSUME BackendInit PROVE OpenInv
    OBVIOUS
  <1>1. \A p \in Procs : req[p] = Idle
    BY DEF BackendInit
  <1>2. \A p \in Procs : Sound(req[p])
    <2>1. Sound(Idle)
      BY IdleSound
    <2> HIDE DEF Idle
    <2>2. QED
      BY <1>1, <2>1
  <1>3. \A b \in Buckets, k \in Keys : versions[b][k] = {}
    BY DEF BackendInit, Init, NoVersions
  <1>4. \A b \in Buckets : buckets[b] # "Suspended"
    BY NoneAssumption DEF BackendInit, Init, Statuses
  <1>5. QED
    BY <1>2, <1>3, <1>4 DEF OpenInv, RecordsMatch, NullIsNewer, NoNulls, HasNull

LEMMA SerialBackendInvariant ==
  ASSUME OneAtATime, OneNullAtATime
  PROVE  BackendSpec => []SerialBackendInv
  <1>1. BackendSpec => []SerialInv
    BY BackendIsSerial, SerialInvariant, PTL
  <1>2. CASE "suspend" \notin Ops
    <2>1. BackendInv /\ SerialInv /\ StampIsNow => SerialBackendInv
      BY <1>2 DEF SerialBackendInv
    <2>2. QED
      BY <1>1, <2>1, BackendInvariant, StampInvariant, PTL
  <1>3. CASE "suspend" \in Ops
    <2>1. StatusHolds
      BY <1>3 DEF OneNullAtATime, StatusHolds
    <2>2. BackendInv /\ SerialInv /\ StampIsNow /\ HeldInv /\ [BackendNext]_backendVars => HeldInv'
      BY <2>1, HeldStep
    <2>3. BackendInv /\ SerialInv /\ StampIsNow /\ HeldInv => SerialBackendInv
      BY DEF SerialBackendInv
    <2>4. QED
      BY <1>1, <2>2, <2>3, HeldInit, BackendInvariant, StampInvariant, PTL DEF BackendSpec
  <1>4. QED
    BY <1>2, <1>3

LEMMA OpenInvariant ==
  ASSUME OneAtATime, OneNullAtATime
  PROVE  BackendSpec => []OpenInv
  <1>1. SerialBackendInv /\ OpenInv /\ [BackendNext]_backendVars => OpenInv'
    BY OpenStep
  <1>2. QED
    BY <1>1, OpenInit, SerialBackendInvariant, PTL DEF BackendSpec

\* With one request at a time, a GET of any version to whose file no other name
\* leads sends the content that its headers describe, of the versions "" and
\* "null" that share a file as well: it opens the file in another step than the
\* one that reads the record.
THEOREM SerialReadsMatch ==
  ASSUME OneAtATime, OneNullAtATime
  PROVE  BackendSpec => []ReadsMatch
  <1>1. OpenInv => ReadsMatch
    BY DEF OpenInv, Sound, ReadsMatch
  <1>2. QED
    BY <1>1, OpenInvariant, PTL

\* With one request at a time, what HEAD and the listings show can be read back
\* between requests: the file of every current object exists, with the content
\* its record describes, unless another name leads to it.
THEOREM SerialHeadOpens ==
  ASSUME OneAtATime, OneNullAtATime
  PROVE  BackendSpec => []HeadOpens
  <1>1. SerialBackendInv /\ OpenInv => HeadOpens
    <2> SUFFICES ASSUME SerialBackendInv, OpenInv, \A p \in Procs : req[p] = Idle,
                        NEW b \in Buckets, NEW k \in Keys, objects[b][k] # None
                 PROVE  Matches(b, k, objects[b][k])
      BY DEF HeadOpens, Matches
    <2>1. objects[b][k] \in versions[b][k] /\ ~Superseded(b, k, objects[b][k])
      BY HeadNotSuperseded DEF OpenInv
    <2>2. \A p \in Procs : ~Rewrites(req[p], b, k, objects[b][k].vid)
      BY IdleSound DEF Rewrites
    <2>3. QED
      BY <2>1, <2>2 DEF OpenInv, RecordsMatch
  <1>2. QED
    BY <1>1, OpenInvariant, SerialBackendInvariant, PTL
=============================================================================
