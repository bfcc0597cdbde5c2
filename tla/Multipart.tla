----------------------------- MODULE Multipart -----------------------------
(***************************************************************************)
(* Multipart uploads: internal/storage/local/local.go over the upload and  *)
(* part tables of internal/storage/metadata/bbolt.go.                      *)
(*                                                                         *)
(* An upload is a row of "uploads" and a table "parts:id", made and        *)
(* dropped together.  The data of part n lies in multipart/id/parts/n,     *)
(* first written as n.tmp: a name that every attempt to upload part n      *)
(* shares, so a second attempt truncates and writes the file of the first. *)
(* A file here is an inode that a name points to, with two blocks.         *)
(***************************************************************************)
EXTENDS Naturals, FiniteSets

CONSTANTS Uploads,      \* upload ids made by uuid.New
          Parts,        \* part numbers
          Procs,        \* request slots
          None,         \* "no such file" or "no such record"
          MaxAttempts,  \* bound on the parts sent
          Retries,      \* may a part be sent again while an attempt still runs?
          Faults        \* "crash": the process restarts; "io": a transfer or
                        \* a transaction fails

ASSUME AttemptsAssumption == MaxAttempts \in Nat
ASSUME NoneAssumption == None \notin Nat
ASSUME SwitchAssumption == Retries \in BOOLEAN /\ Faults \subseteq {"crash", "io"}

\* The n-th attempt sends content n, which stands for its ETag, and its file,
\* when it makes a new one, is inode n.
Attempts == 1..MaxAttempts
Blocks == [1..2 -> 0..MaxAttempts]

VARIABLES live,         \* uploads in the "uploads" table
          recorded,     \* recorded[u][n]: the ETag in "parts:u", or None
          tmp,          \* tmp[u][n]: the inode of n.tmp, or None
          files,        \* files[u][n]: the inode of part n, or None
          data,         \* data[i]: the blocks of inode i, 0 where not written
          req,          \* req[p]: the request in slot p, with its local variables
          attempts,     \* number of parts sent so far
          objects,      \* the objects committed: upload, part ETags and part data
          \* History: uploads ever created, and aborted; live uploads whose
          \* directory was emptied; parts whose last attempt was not recorded.
          created, aborted, emptied, unkept

tables == <<live, recorded>>
disk == <<tmp, files, data>>
history == <<created, aborted, emptied, unkept>>
vars == <<tables, disk, req, attempts, objects, history>>

NoParts == [n \in Parts |-> None]
Whole(c) == [i \in 1..2 |-> c]
Empty == Whole(0)

Idle == [at |-> "idle"]
Finish(p) == req' = [req EXCEPT ![p] = Idle]
Goto(p, at) == req' = [req EXCEPT ![p].at = at]

Init ==
    /\ live = {}
    /\ recorded = [u \in Uploads |-> NoParts]
    /\ tmp = [u \in Uploads |-> NoParts]
    /\ files = [u \in Uploads |-> NoParts]
    /\ data = [i \in Attempts |-> Empty]
    /\ req = [p \in Procs |-> Idle]
    /\ attempts = 0
    /\ objects = {}
    /\ created = {} /\ aborted = {} /\ emptied = {} /\ unkept = {}

-----------------------------------------------------------------------------
(***************************************************************************)
(* The transactions on the two tables.                                     *)
(***************************************************************************)
CreateMultipartUpload(u) ==
    /\ u \notin created
    /\ live' = live \cup {u}
    /\ created' = created \cup {u}
    /\ UNCHANGED <<recorded, disk, req, attempts, objects, aborted, emptied, unkept>>

\* Both tables in one transaction; nothing when the upload is gone.
DeleteMultipartUpload(u) ==
    /\ live' = live \ {u}
    /\ recorded' = [recorded EXCEPT ![u] = NoParts]

PutObjectPart(u, n, c) ==
    /\ u \in live
    /\ recorded' = [recorded EXCEPT ![u][n] = c]
    /\ UNCHANGED live

-----------------------------------------------------------------------------
(***************************************************************************)
(* UploadPart: open n.tmp, stream into it, rename it to n, record the      *)
(* part.  Whether the upload exists shows only at the last step.           *)
(***************************************************************************)
Sending(u, n) == \E p \in Procs : req[p].at \in {"write", "record", "untmp"}
                                  /\ req[p].u = u /\ req[p].n = n

\* os.Create: an n.tmp that is there is truncated and shared.
OpenPart(p, u, n) ==
    LET c == attempts + 1
        i == IF tmp[u][n] = None THEN c ELSE tmp[u][n]
    IN  /\ req[p] = Idle
        /\ u \in created
        /\ ~Retries => ~Sending(u, n)
        /\ attempts < MaxAttempts
        /\ attempts' = c
        /\ tmp' = [tmp EXCEPT ![u][n] = i]
        /\ data' = [data EXCEPT ![i] = Empty]
        /\ req' = [req EXCEPT ![p] = [at |-> "write", u |-> u, n |-> n, c |-> c,
                                      inode |-> i, block |-> 1]]
        /\ UNCHANGED <<tables, files, objects, history>>

\* Slip: the copy does not stop at the end of the body.
WriteBlockOn(p) ==
    LET r == req[p] IN
    /\ r.at = "write"
    /\ data' = [data EXCEPT ![r.inode][IF r.block > 2 THEN 2 ELSE r.block] = r.c]
    /\ req' = [req EXCEPT ![p].block = r.block + 1]
    /\ UNCHANGED <<tables, tmp, files, attempts, objects, history>>

\* Each attempt writes at its own offset.
WriteBlock(p) ==
    LET r == req[p] IN
    /\ r.at = "write"
    /\ r.block <= 2
    /\ data' = [data EXCEPT ![r.inode][r.block] = r.c]
    /\ req' = [req EXCEPT ![p].block = r.block + 1]
    /\ UNCHANGED <<tables, tmp, files, attempts, objects, history>>

\* Slip: the part of an earlier attempt goes too.
StreamFailsRemoving(p) ==
    LET r == req[p] IN
    /\ "io" \in Faults
    /\ r.at = "write"
    /\ files' = [files EXCEPT ![r.u][r.n] = None]
    /\ Goto(p, "untmp")
    /\ UNCHANGED <<tables, tmp, data, attempts, objects, history>>

\* The client breaks off or the disk is full.
StreamFails(p) ==
    /\ "io" \in Faults
    /\ req[p].at = "write"
    /\ Goto(p, "untmp")
    /\ UNCHANGED <<tables, disk, attempts, objects, history>>

\* Slip: the part gets its name before its last block is written.
RenamePartEarly(p) ==
    LET r == req[p] IN
    /\ r.at = "write"
    /\ r.block >= 2
    /\ tmp[r.u][r.n] # None
    /\ Goto(p, "record")
    /\ files' = [files EXCEPT ![r.u][r.n] = tmp[r.u][r.n]]
    /\ tmp' = [tmp EXCEPT ![r.u][r.n] = None]
    /\ UNCHANGED <<tables, data, attempts, objects, history>>

\* The rename moves whatever n.tmp is now; without one it fails.
RenamePart(p) ==
    LET r == req[p] IN
    /\ r.at = "write"
    /\ r.block = 3
    /\ IF tmp[r.u][r.n] = None
       THEN Goto(p, "untmp") /\ UNCHANGED <<tmp, files>>
       ELSE /\ Goto(p, "record")
            /\ files' = [files EXCEPT ![r.u][r.n] = tmp[r.u][r.n]]
            /\ tmp' = [tmp EXCEPT ![r.u][r.n] = None]
    /\ UNCHANGED <<tables, data, attempts, objects, history>>

RecordPart(p) ==
    LET r == req[p] IN
    /\ r.at = "record"
    /\ PutObjectPart(r.u, r.n, r.c)
    /\ Goto(p, "untmp")
    /\ unkept' = unkept \ {<<r.u, r.n>>}
    /\ UNCHANGED <<disk, attempts, objects, created, aborted, emptied>>

\* Slip: the part file stays.
RecordPartFailsKeeping(p) ==
    LET r == req[p] IN
    /\ r.at = "record"
    /\ r.u \notin live \/ "io" \in Faults
    /\ Goto(p, "untmp")
    /\ unkept' = unkept \cup {<<r.u, r.n>>}
    /\ UNCHANGED <<tables, disk, attempts, objects, created, aborted, emptied>>

\* The upload is gone, or the transaction fails: the part file is removed, even
\* when an earlier attempt has recorded the part.
RecordPartFails(p) ==
    LET r == req[p] IN
    /\ r.at = "record"
    /\ r.u \notin live \/ "io" \in Faults
    /\ files' = [files EXCEPT ![r.u][r.n] = None]
    /\ Goto(p, "untmp")
    /\ unkept' = unkept \cup {<<r.u, r.n>>}
    /\ UNCHANGED <<tables, tmp, data, attempts, objects, created, aborted, emptied>>

\* The deferred removal of n.tmp, on every way out.
RemoveTmp(p) ==
    LET r == req[p] IN
    /\ r.at = "untmp"
    /\ tmp' = [tmp EXCEPT ![r.u][r.n] = None]
    /\ Finish(p)
    /\ UNCHANGED <<tables, files, data, attempts, objects, history>>

UploadPart(p) ==
    \/ \E u \in Uploads, n \in Parts : OpenPart(p, u, n)
    \/ WriteBlock(p) \/ StreamFails(p) \/ RenamePart(p)
    \/ RecordPart(p) \/ RecordPartFails(p) \/ RemoveTmp(p)

-----------------------------------------------------------------------------
(***************************************************************************)
(* CompleteMultipartUpload and AbortMultipartUpload.  The client completes *)
(* with parts it was told are there, and their ETags; the ETags go into    *)
(* the object's own ETag and are not compared with anything.               *)
(***************************************************************************)
BeginComplete(p, u, listed) ==
    /\ req[p] = Idle
    /\ u \in live
    /\ \A n \in listed : recorded[u][n] # None
    /\ req' = [req EXCEPT ![p] = [at |-> "copy", u |-> u,
                 etags |-> [n \in listed |-> recorded[u][n]], copied |-> [n \in {} |-> Empty]]]
    /\ UNCHANGED <<tables, disk, attempts, objects, history>>

\* Parts are appended to the new object one after the other.
CopyPart(p) ==
    LET r == req[p] IN
    /\ r.at = "copy"
    /\ \E n \in DOMAIN r.etags \ DOMAIN r.copied :
          IF files[r.u][n] = None
          THEN Finish(p)
          ELSE req' = [req EXCEPT ![p].copied =
                  [k \in DOMAIN @ \cup {n} |-> IF k = n THEN data[files[r.u][n]] ELSE @[k]]]
    /\ UNCHANGED <<tables, disk, attempts, objects, history>>

\* The rename and the object record, whose own interleavings are those of a
\* "complete" request of ObjectBackend.
CommitObject(p) ==
    LET r == req[p] IN
    /\ r.at = "copy"
    /\ DOMAIN r.copied = DOMAIN r.etags
    /\ objects' = objects \cup {[u |-> r.u, etags |-> r.etags, parts |-> r.copied]}
    /\ Goto(p, "drop")
    /\ UNCHANGED <<tables, disk, attempts, history>>

\* Slip: the cleanup runs on the way out of a failure too.
CompleteFailsDropping(p) ==
    /\ req[p].at = "copy"
    /\ Goto(p, "drop")
    /\ UNCHANGED <<tables, disk, attempts, objects, history>>

\* The bucket is gone or a write fails: parts and upload stay.
CompleteFails(p) ==
    /\ req[p].at = "copy"
    /\ Finish(p)
    /\ UNCHANGED <<tables, disk, attempts, objects, history>>

\* Nothing is left to do when another request has removed the upload.
DropUpload(p) ==
    /\ req[p].at = "drop"
    /\ DeleteMultipartUpload(req[p].u)
    /\ req' = [req EXCEPT ![p] = [at |-> "rmdir", u |-> req[p].u]]
    /\ UNCHANGED <<disk, attempts, objects, history>>

\* A transaction that fails is ignored too: the upload stays, without its parts.
DropFails(p) ==
    /\ "io" \in Faults
    /\ req[p].at = "drop"
    /\ req' = [req EXCEPT ![p] = [at |-> "rmdir", u |-> req[p].u]]
    /\ emptied' = emptied \cup {req[p].u}
    /\ UNCHANGED <<tables, disk, attempts, objects, created, aborted, unkept>>

\* A transaction that fails ends the request before anything is removed.
AbortMultipartUpload(p, u) ==
    /\ req[p] = Idle
    /\ u \in live
    /\ DeleteMultipartUpload(u)
    /\ req' = [req EXCEPT ![p] = [at |-> "rmdir", u |-> u]]
    /\ aborted' = aborted \cup {u}
    /\ UNCHANGED <<disk, attempts, objects, created, emptied, unkept>>

RemoveParts(p) ==
    LET u == req[p].u IN
    /\ req[p].at = "rmdir"
    /\ tmp' = [tmp EXCEPT ![u] = NoParts]
    /\ files' = [files EXCEPT ![u] = NoParts]
    /\ Finish(p)
    /\ UNCHANGED <<tables, data, attempts, objects, history>>

CompleteOrAbort(p) ==
    \/ \E u \in Uploads :
          \/ \E listed \in SUBSET Parts : BeginComplete(p, u, listed)
          \/ AbortMultipartUpload(p, u)
    \/ CopyPart(p) \/ CommitObject(p) \/ CompleteFails(p)
    \/ DropUpload(p) \/ DropFails(p) \/ RemoveParts(p)

\* The process ends and starts again: NewBackend empties the directory that
\* the parts of unfinished uploads lie in.
Restart ==
    /\ "crash" \in Faults
    /\ emptied' = emptied \cup live
    /\ req' = [p \in Procs |-> Idle]
    /\ tmp' = [u \in Uploads |-> NoParts]
    /\ files' = [u \in Uploads |-> NoParts]
    /\ UNCHANGED <<tables, data, attempts, objects, created, aborted, unkept>>

Next ==
    \/ Restart
    \/ \E u \in Uploads : CreateMultipartUpload(u)
    \/ \E p \in Procs : UploadPart(p) \/ CompleteOrAbort(p)

Spec == Init /\ [][Next]_vars

-----------------------------------------------------------------------------
PartFns(S) == UNION {[D -> S] : D \in SUBSET Parts}

Requests ==
    [at : {"idle"}]
    \cup [at : {"write", "record", "untmp"}, u : Uploads, n : Parts, c : Attempts,
          inode : Attempts, block : 1..3]
    \cup [at : {"copy", "drop"}, u : Uploads, etags : PartFns(Attempts), copied : PartFns(Blocks)]
    \cup [at : {"rmdir"}, u : Uploads]

Names == [Uploads -> [Parts -> Attempts \cup {None}]]

TypeOK ==
    /\ live \subseteq Uploads
    /\ recorded \in Names /\ tmp \in Names /\ files \in Names
    /\ data \in [Attempts -> Blocks]
    /\ req \in [Procs -> Requests]
    /\ attempts \in 0..MaxAttempts
    /\ objects \subseteq [u : Uploads, etags : PartFns(Attempts), parts : PartFns(Blocks)]
    /\ created \subseteq Uploads /\ aborted \subseteq Uploads
    /\ emptied \subseteq Uploads /\ unkept \subseteq Uploads \X Parts

\* What ListParts shows can be completed: a recorded part has its file, whole,
\* with the recorded ETag.  The exceptions are the ways the code loses it: a new
\* attempt is under way or could not be recorded, a restart has emptied the
\* directory, or a completion has, which then failed to drop the upload.
PartsReadable ==
    \A u \in live \ emptied, n \in Parts :
        (recorded[u][n] # None /\ ~Sending(u, n) /\ <<u, n>> \notin unkept) =>
            files[u][n] # None /\ data[files[u][n]] = Whole(recorded[u][n])

\* An object is put together from whole parts, never from one half sent or
\* one that two attempts wrote.
CompletedWhole ==
    \A o \in objects : \A n \in DOMAIN o.parts : \E c \in Attempts : o.parts[n] = Whole(c)

\* An upload is never dropped half way: it can still be completed or aborted,
\* or it was aborted, or its object is there.  The process may die anywhere.
NothingLost ==
    \A u \in created : u \in live \/ u \in aborted \/ \E o \in objects : o.u = u

\* When no request runs, the disk holds nothing of an upload that is gone.
NoOrphanParts ==
    (\A p \in Procs : req[p] = Idle) =>
        \A u \in Uploads \ live : files[u] = NoParts /\ tmp[u] = NoParts
=============================================================================
