--------------------------- MODULE ObjectBackend ---------------------------
(***************************************************************************)
(* The object handlers over the local backend (internal/handler/object.go, *)
(* post_object.go, internal/storage/local/local.go).  A request runs in    *)
(* its own goroutine with no lock of its own: between two metadata         *)
(* transactions, or between a transaction and a file operation, any other  *)
(* request may run.  An action here is one transaction or one file         *)
(* operation, with the branch the handler takes on its result.             *)
(*                                                                         *)
(* Object data lies in files named key@versionId, with "null" for an empty *)
(* version id.  The name is joined to the directory of the bucket and then *)
(* cleaned, so that a//b, a/./b and a/x/../b share the files of a/b, and   *)
(* ../../c/objects/k those of key k in bucket c; PathOf says which file a  *)
(* name leads to.  A DELETE takes any version id, which becomes part of    *)
(* the name like those the server makes.  Names that leave the data        *)
(* directory are refused and left out here, and so are names of which one  *)
(* is a directory on the way to another.  Temporary files are private to a *)
(* request and removed on every way out and at startup, so they are not    *)
(* part of the state.                                                      *)
(***************************************************************************)
EXTENDS VersionIndex

CONSTANTS Procs,          \* request slots: how many requests run at once
          Ops,            \* the operations the clients use
          Faults,         \* "crash": the process dies; "io": a write fails
          MadeUp,         \* version ids that clients make up
          Paths,          \* file names below the data directory, cleaned
          PathOf,         \* PathOf[b][k][v]: the file that k@v leads to
          Tree            \* Tree[b]: the files in the directory of bucket b

Operations == {"put", "post", "complete", "copy", "get", "delete", "deleteUuid",
               "deleteNull", "deleteBucket", "adminDeleteBucket", "enable", "suspend", "disable",
               "lock"}

ASSUME OpsAssumption == Ops \subseteq Operations /\ Faults \subseteq {"crash", "io"}

\* The n-th request uploads content n; 0 is the empty content of a delete
\* marker.  The ETag in a record is the digest of the content it was written
\* with, so the content stands for its ETag.  A request writes at most one
\* object, and MaxClock bounds the requests as well.
Contents == 0..MaxClock
Body == [content : Contents, marker : BOOLEAN, hold : BOOLEAN]

ASSUME BodyAssumption == Payloads = Body /\ None \notin Contents

FileVids == Uuids \cup {"null"}

\* A made-up id is none that uuid.New makes.  A cleaned name ends as it did:
\* without a slash in the version id, files of different versions differ.
ASSUME PathAssumption ==
    /\ MadeUp \subseteq Uuids
    /\ PathOf \in [Buckets -> [Keys -> [FileVids -> Paths]]]
    /\ \A b, c \in Buckets, j, k \in Keys, u, v \in FileVids \ MadeUp :
          PathOf[b][j][u] = PathOf[c][k][v] => u = v
    /\ Tree \in [Buckets -> SUBSET Paths]

VARIABLES files,        \* files[f]: the content of file f, or None
          req,          \* req[p]: the request in slot p, with its local variables
          started,      \* number of requests so far
          issued        \* uuids generated so far

backendVars == <<vars, files, req, started, issued>>

FileVidOne(vid) == "null"       \* slip: one file for all versions of a key
FileVid(vid) == IF vid = "" THEN "null" ELSE vid
Path(b, k, vid) == PathOf[b][k][FileVid(vid)]
File(b, k, vid) == files[Path(b, k, vid)]

Idle == [at |-> "idle"]
Finish(p) == req' = [req EXCEPT ![p] = Idle]
Goto(p, at) == req' = [req EXCEPT ![p].at = at]

BackendInit ==
    /\ Init
    /\ files = [f \in Paths |-> None]
    /\ req = [p \in Procs |-> Idle]
    /\ started = 0
    /\ issued = {}

\* A request arrives, does its first transaction, and goes on from there.
Begin(p, op, r) ==
    /\ op \in Ops
    /\ req[p] = Idle
    /\ started < MaxClock
    /\ started' = started + 1
    /\ req' = [req EXCEPT ![p] = r]

\* Slip: the version id repeats one that is in use.
NewVidUnsafe(b, vid) ==
    IF buckets[b] = "Enabled"
    THEN vid \in Uuids \ MadeUp /\ issued' = issued \cup {vid}
    ELSE vid = (IF buckets[b] = "Suspended" THEN "null" ELSE "") /\ UNCHANGED issued

\* The version id a write gets from the versioning status it reads.
NewVid(b, vid) ==
    IF buckets[b] = "Enabled"
    THEN vid \in Uuids \ (MadeUp \cup issued) /\ issued' = issued \cup {vid}
    ELSE vid = (IF buckets[b] = "Suspended" THEN "null" ELSE "") /\ UNCHANGED issued

\* Slip: no record is marked latest.
RecordOld(vid, latest, body) == [vid |-> vid, latest |-> FALSE, modified |-> 0, body |-> body]
Record(vid, latest, body) == [vid |-> vid, latest |-> latest, modified |-> 0, body |-> body]
Upload(b, k, m) == [at |-> "upload", b |-> b, k |-> k, m |-> m]

-----------------------------------------------------------------------------
(***************************************************************************)
(* PUT: decide the version id, check the bucket, stream the body to a      *)
(* temporary file, rename it to its place, commit the record.              *)
(***************************************************************************)
BeginPut(p, b, k, hold) ==
    \E vid \in Vids :
        /\ NewVid(b, vid)
        /\ Begin(p, "put", Upload(b, k, Record(vid, TRUE,
               [content |-> started + 1, marker |-> FALSE, hold |-> hold])))
        /\ UNCHANGED <<vars, files>>

\* A form upload sets neither a version id nor the latest mark.
BeginPost(p, b, k) ==
    /\ Begin(p, "post", Upload(b, k, Record("", FALSE,
           [content |-> started + 1, marker |-> FALSE, hold |-> FALSE])))
    /\ UNCHANGED <<vars, files, issued>>

\* The last part of CompleteMultipartUpload: the bucket is looked up for its
\* versioning status only, and the time stamp is read before the rename.
BeginComplete(p, b, k, hold) ==
    \E vid \in Vids :
        /\ NewVid(b, vid)
        /\ Begin(p, "complete", [at |-> "place", b |-> b, k |-> k, since |-> clock,
               m |-> Record(vid, TRUE,
                        [content |-> started + 1, marker |-> FALSE, hold |-> hold])])
        /\ UNCHANGED <<vars, files>>

CheckBucket(p) ==
    /\ req[p].at = "upload"
    /\ IF Exists(req[p].b) THEN Goto(p, "rename") ELSE Finish(p)
    /\ UNCHANGED <<vars, files, started, issued>>

\* The body breaks off, the disk is full or the rename fails: the temporary
\* file is removed and nothing else has happened.
UploadFails(p) ==
    /\ "io" \in Faults
    /\ req[p].at \in {"rename", "place"}
    /\ Finish(p)
    /\ UNCHANGED <<vars, files, started, issued>>

RenameFile(p) ==
    LET r == req[p] IN
    /\ r.at = "rename"
    /\ files' = [files EXCEPT ![Path(r.b, r.k, r.m.vid)] = r.m.body.content]
    /\ req' = [req EXCEPT ![p] = [at |-> "commit", b |-> r.b, k |-> r.k, m |-> r.m,
                                  since |-> clock]]
    /\ UNCHANGED <<vars, started, issued>>

PlaceFile(p) ==
    LET r == req[p] IN
    /\ r.at = "place"
    /\ files' = [files EXCEPT ![Path(r.b, r.k, r.m.vid)] = r.m.body.content]
    /\ Goto(p, "commit")
    /\ UNCHANGED <<vars, started, issued>>

\* The record goes in with a time stamp read at some moment since r.since.
CommitRecord(r) ==
    \E t \in r.since..clock : PutObject(r.b, r.k, [r.m EXCEPT !.modified = t])

CommitPut(p) ==
    LET r == req[p] IN
    /\ r.at = "commit"
    /\ CommitRecord(r)
    /\ Finish(p)
    /\ UNCHANGED <<files, started, issued>>

\* The bucket is gone or the transaction fails: the file just put in place is
\* removed, whatever it had replaced.
CommitPutFails(p) ==
    LET r == req[p] IN
    /\ r.at = "commit"
    /\ ~Exists(r.b) \/ "io" \in Faults
    /\ files' = [files EXCEPT ![Path(r.b, r.k, r.m.vid)] = None]
    /\ Finish(p)
    /\ UNCHANGED <<vars, started, issued>>

PutStep(p) ==
    \/ CheckBucket(p) \/ UploadFails(p) \/ RenameFile(p) \/ PlaceFile(p)
    \/ CommitPut(p) \/ CommitPutFails(p)

-----------------------------------------------------------------------------
(***************************************************************************)
(* GET reads the record, then opens the file it names; an open file is not *)
(* affected by later renames and removals.  COPY does the same on its      *)
(* source and then a PUT on its destination: with the source's record,     *)
(* version id and latest mark included, or with a fresh one when the       *)
(* client replaces the metadata.                                           *)
(***************************************************************************)
BeginGet(p, b, k, vid) ==
    LET m == GetObject(b, k, vid) IN
    /\ m # None
    /\ Begin(p, "get", [at |-> "open", b |-> b, k |-> k, m |-> m])
    /\ UNCHANGED <<vars, files, issued>>

\* Slip: the open is not checked.
OpenFileUnchecked(p) ==
    LET r == req[p] IN
    /\ r.at = "open"
    /\ req' = [req EXCEPT ![p] = [at |-> "send", b |-> r.b, k |-> r.k, m |-> r.m,
                                  data |-> File(r.b, r.k, r.m.vid)]]
    /\ UNCHANGED <<vars, files, started, issued>>

OpenFile(p) ==
    LET r == req[p] IN
    /\ r.at = "open"
    /\ IF File(r.b, r.k, r.m.vid) = None
       THEN Finish(p)
       ELSE req' = [req EXCEPT ![p] = [at |-> "send", b |-> r.b, k |-> r.k, m |-> r.m,
                                       data |-> File(r.b, r.k, r.m.vid)]]
    /\ UNCHANGED <<vars, files, started, issued>>

\* A delete marker is answered 404 even when a file was found.
SendBody(p) ==
    /\ req[p].at = "send"
    /\ Finish(p)
    /\ UNCHANGED <<vars, files, started, issued>>

\* The lock headers of the request count only when it replaces the metadata.
BeginCopy(p, srcB, srcK, b, k, replace, hold) ==
    LET m == GetObject(srcB, srcK, "") IN
    /\ m # None
    /\ hold => replace
    /\ Begin(p, "copy", [at |-> "copy", srcB |-> srcB, srcK |-> srcK, b |-> b, k |-> k,
                         m |-> m, replace |-> replace, hold |-> hold])
    /\ UNCHANGED <<vars, files, issued>>

CopyOpen(p) ==
    LET r == req[p]
        data == File(r.srcB, r.srcK, r.m.vid)
        fresh == Record("", FALSE, [content |-> data, marker |-> FALSE, hold |-> r.hold])
    IN  /\ r.at = "copy"
        /\ IF data = None
           THEN Finish(p)
           ELSE req' = [req EXCEPT ![p] = Upload(r.b, r.k,
                          IF r.replace THEN fresh
                          ELSE [r.m EXCEPT !.modified = 0, !.body.content = data])]
        /\ UNCHANGED <<vars, files, started, issued>>

ReadStep(p) == OpenFile(p) \/ SendBody(p) \/ CopyOpen(p)

-----------------------------------------------------------------------------
(***************************************************************************)
(* DELETE.  Without a version id, a bucket with versioning gets a delete   *)
(* marker; otherwise the lock is checked, the records are removed, and     *)
(* then the file.  A batch delete does this for one key after the other.   *)
(***************************************************************************)
Deletion(b, k, vid) == [at |-> "lock", b |-> b, k |-> k, vid |-> vid]

BeginDelete(p, b, k) ==
    /\ Exists(b)
    /\ \/ /\ buckets[b] = ""
          /\ Begin(p, "delete", Deletion(b, k, ""))
          /\ UNCHANGED issued
       \/ /\ buckets[b] # ""
          /\ \E vid \in Vids :
                /\ NewVid(b, vid)
                /\ Begin(p, "delete", [at |-> "mark", b |-> b, k |-> k, since |-> clock,
                       m |-> Record(vid, TRUE,
                                [content |-> 0, marker |-> TRUE, hold |-> FALSE])])
    /\ UNCHANGED <<vars, files>>

BeginDeleteVersion(p, b, k, vid) ==
    /\ Begin(p, IF vid = "null" THEN "deleteNull" ELSE "deleteUuid", Deletion(b, k, vid))
    /\ UNCHANGED <<vars, files, issued>>

CommitMarker(p) ==
    LET r == req[p] IN
    /\ r.at = "mark"
    /\ IF Exists(r.b)
       THEN CommitRecord(r)
       ELSE UNCHANGED vars
    /\ Finish(p)
    /\ UNCHANGED <<files, started, issued>>

\* Slip: the lock of the head is looked up, whatever version is deleted.
LockedHead(b, k, vid) ==
    LET m == GetObject(b, k, "") IN m # None /\ m.body.hold

\* A record that cannot be found is not locked.
Locked(b, k, vid) ==
    LET m == GetObject(b, k, vid) IN m # None /\ m.body.hold

\* Slip: the file goes before the record.
CheckLockUnlink(p) ==
    LET r == req[p] IN
    /\ r.at = "lock"
    /\ IF Locked(r.b, r.k, r.vid)
       THEN Finish(p) /\ UNCHANGED files
       ELSE Goto(p, "remove") /\ files' = [files EXCEPT ![Path(r.b, r.k, r.vid)] = None]
    /\ UNCHANGED <<vars, started, issued>>

CheckLock(p) ==
    LET r == req[p] IN
    /\ r.at = "lock"
    /\ IF Locked(r.b, r.k, r.vid) THEN Finish(p) ELSE Goto(p, "remove")
    /\ UNCHANGED <<vars, files, started, issued>>

CommitDelete(p) ==
    LET r == req[p] IN
    /\ r.at = "remove"
    /\ IF Exists(r.b)
       THEN /\ IF r.vid = "" THEN DeleteObject(r.b, r.k)
                             ELSE DeleteVersion(r.b, r.k, r.vid)
            /\ Goto(p, "unlink")
       ELSE /\ UNCHANGED vars
            /\ Finish(p)
    /\ UNCHANGED <<files, started, issued>>

\* Slip: always the file without a version.
UnlinkNull(p) ==
    LET r == req[p] IN
    /\ r.at = "unlink"
    /\ files' = [files EXCEPT ![PathOf[r.b][r.k]["null"]] = None]
    /\ Finish(p)
    /\ UNCHANGED <<vars, started, issued>>

\* Only key@null or the file of the version asked for, recorded or not: DELETE
\* of a whole key leaves the files of its other versions.
Unlink(p) ==
    LET r == req[p] IN
    /\ r.at = "unlink"
    /\ files' = [files EXCEPT ![Path(r.b, r.k, r.vid)] = None]
    /\ Finish(p)
    /\ UNCHANGED <<vars, started, issued>>

\* The transaction fails: a marker is reported as an error, a removal as done.
DeleteFails(p) ==
    /\ "io" \in Faults
    /\ req[p].at \in {"mark", "remove"}
    /\ Finish(p)
    /\ UNCHANGED <<vars, files, started, issued>>

RemoveStep(p) ==
    CommitMarker(p) \/ CheckLock(p) \/ CommitDelete(p) \/ Unlink(p) \/ DeleteFails(p)

-----------------------------------------------------------------------------
(***************************************************************************)
(* Buckets.  The S3 handler removes the directory after the transaction;   *)
(* the console's handler touches the metadata only.  A request that is one *)
(* transaction runs whole in a free slot.                                  *)
(***************************************************************************)
HandleCreateBucket(p, b) ==
    /\ req[p] = Idle
    /\ \E objectLock \in BOOLEAN :
          (objectLock => "enable" \in Ops) /\ CreateBucket(b, objectLock)
    /\ UNCHANGED <<files, req, started, issued>>

HandleDeleteBucket(p, b) ==
    /\ "deleteBucket" \in Ops
    /\ req[p] = Idle
    /\ DeleteBucket(b)
    /\ req' = [req EXCEPT ![p] = [at |-> "rmdir", b |-> b]]
    /\ UNCHANGED <<files, started, issued>>

RemoveDir(p) ==
    /\ req[p].at = "rmdir"
    /\ files' = [f \in Paths |-> IF f \in Tree[req[p].b] THEN None ELSE files[f]]
    /\ Finish(p)
    /\ UNCHANGED <<vars, started, issued>>

AdminDeleteBucket(p, b) ==
    /\ req[p] = Idle
    /\ "adminDeleteBucket" \in Ops
    /\ DeleteBucket(b)
    /\ UNCHANGED <<files, req, started, issued>>

\* The handler reads the BucketInfo first, but writes back a status of the
\* request's: only the second transaction shows.
PutBucketVersioning(p, b) ==
    /\ req[p] = Idle
    /\ \/ "enable" \in Ops /\ UpdateBucket(b, "Enabled")
       \/ "suspend" \in Ops /\ UpdateBucket(b, "Suspended")
    /\ UNCHANGED <<files, req, started, issued>>

\* The console's handler takes any status; one that is neither of the two
\* turns versioning off.
AdminPutBucketVersioning(p, b) ==
    /\ req[p] = Idle
    /\ "disable" \in Ops
    /\ UpdateBucket(b, "")
    /\ UNCHANGED <<files, req, started, issued>>

BucketRequest(p) ==
    \E b \in Buckets :
        \/ HandleCreateBucket(p, b) \/ PutBucketVersioning(p, b) \/ AdminPutBucketVersioning(p, b)
        \/ HandleDeleteBucket(p, b) \/ AdminDeleteBucket(p, b)

\* The process dies: what was in flight stops where it is.
Crash ==
    /\ "crash" \in Faults
    /\ \E p \in Procs : req[p] # Idle
    /\ req' = [p \in Procs |-> Idle]
    /\ UNCHANGED <<vars, files, started, issued>>

-----------------------------------------------------------------------------
\* A client can name an issued version id once a listing or an answer has
\* shown it.
Disclosed ==
    {u \in issued :
        (\E p \in Procs : /\ req[p].at \in {"upload", "rename", "place", "commit", "mark"}
                          /\ req[p].m.vid = u)
        => \E b \in Buckets, k \in Keys : \E m \in versions[b][k] : m.vid = u}

\* Whether a write of the clients asks for a legal hold.
Holds == IF "lock" \in Ops THEN BOOLEAN ELSE {FALSE}

BeginRequest(p) ==
    \E b \in Buckets, k \in Keys :
        \/ \E hold \in Holds : BeginPut(p, b, k, hold) \/ BeginComplete(p, b, k, hold)
        \/ BeginPost(p, b, k)
        \/ \E vid \in Vids : BeginGet(p, b, k, vid)
        \/ BeginDelete(p, b, k)
        \/ \E vid \in Disclosed \cup MadeUp \cup {"null"} : BeginDeleteVersion(p, b, k, vid)
        \/ \E srcB \in Buckets, srcK \in Keys, replace, hold \in BOOLEAN :
              BeginCopy(p, srcB, srcK, b, k, replace, hold)

BackendNext ==
    \/ Crash
    \/ \E p \in Procs :
          \/ BucketRequest(p) \/ BeginRequest(p)
          \/ PutStep(p) \/ ReadStep(p) \/ RemoveStep(p) \/ RemoveDir(p)

BackendSpec == BackendInit /\ [][BackendNext]_backendVars

-----------------------------------------------------------------------------
\* The states of a request.
Unstamped == [at : {"upload", "rename", "open"}, b : Buckets, k : Keys, m : Meta]
Stamped == [at : {"place", "commit", "mark"}, b : Buckets, k : Keys, m : Meta,
            since : 0..MaxClock]
Answering == [at : {"send"}, b : Buckets, k : Keys, m : Meta, data : Contents]
Copying == [at : {"copy"}, srcB : Buckets, srcK : Keys, b : Buckets, k : Keys, m : Meta,
            replace : BOOLEAN, hold : BOOLEAN]
Removing == [at : {"lock", "remove", "unlink"}, b : Buckets, k : Keys, vid : Vids]
Dropping == [at : {"rmdir"}, b : Buckets]

Requests == {Idle} \cup Unstamped \cup Stamped \cup Answering
            \cup Copying \cup Removing \cup Dropping

BackendTypeOK ==
    /\ TypeOK
    /\ files \in [Paths -> Contents \cup {None}]
    /\ req \in [Procs -> Requests]
    /\ started \in 0..MaxClock
    /\ issued \subseteq Uuids

\* No other name leads to the file of this version, and no other bucket's
\* directory holds it.  Nothing can be promised of the other versions: a
\* request for another key or with a made-up id replaces or removes the file.
Alone(b, k, vid) ==
    /\ \A c \in Buckets, j \in Keys, v \in FileVids :
          PathOf[c][j][v] = Path(b, k, vid) => c = b /\ j = k /\ v = FileVid(vid)
    /\ \A c \in Buckets \ {b} : Path(b, k, vid) \notin Tree[c]

\* Every version with an id of its own has its file, with the content its
\* record describes, unless another name leads to that file: PUT puts the file
\* in place before the record and DELETE removes it after.
VersionIntact ==
    \A b \in Buckets, k \in Keys : \A m \in versions[b][k] :
        (m.vid \in Uuids /\ ~m.body.marker /\ Alone(b, k, m.vid))
        => File(b, k, m.vid) = m.body.content

\* A GET sends the content that its headers (ETag, Content-Length) describe,
\* unless another name leads to the file it sends.
ReadsMatch ==
    \A p \in Procs :
        (req[p].at = "send" /\ Alone(req[p].b, req[p].k, req[p].m.vid))
        => req[p].m.body.marker \/ req[p].data = req[p].m.body.content

\* A GET of a version with an id of its own does so whatever names lead to the
\* file: they can remove it, which ends the GET, but not replace it.
VersionReadsMatch ==
    \A p \in Procs : req[p].at = "send" /\ req[p].m.vid \in Uuids =>
        req[p].m.body.marker \/ req[p].data = req[p].m.body.content

\* When no request runs, what HEAD and the listings show can be read back: the
\* file of every current object exists and has the recorded content, unless
\* another name leads to it.
HeadOpens ==
    (\A p \in Procs : req[p] = Idle) =>
        \A b \in Buckets, k \in Keys :
            LET m == objects[b][k]
            IN  (m # None /\ ~m.body.marker /\ Alone(b, k, m.vid))
                => File(b, k, m.vid) = m.body.content

\* The same version, whether it is marked latest or not.
SameVersion(m, n) == n.vid = m.vid /\ n.modified = m.modified /\ n.body = m.body

\* A version under legal hold with an id of its own stays as it is.  One
\* without, and the one of the id "null", gives way to a later write under its
\* id and to nothing else: neither a PUT nor the delete marker of a bucket
\* whose versioning is suspended looks at the lock of what it replaces.
HeldStays ==
    [][\A b \in Buckets, k \in Keys : \A m \in versions[b][k] :
          m.body.hold =>
              \E n \in versions'[b][k] :
                  \/ SameVersion(m, n)
                  \/ m.vid \notin Uuids /\ n.vid = m.vid /\ n.modified > m.modified]_vars

\* The metadata transactions of the handlers are steps of VersionIndex: they
\* pass only records that become heads, with stamps of the past.
ImplementsIndex == Spec
=============================================================================
