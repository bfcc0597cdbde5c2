--------------------------- MODULE Multipart_proofs ---------------------------
(***************************************************************************)
(* What Multipart promises, for any uploads, parts, attempts and number of *)
(* requests at once.  With or without retries: types, NothingLost and      *)
(* NoOrphanParts.  Without a part being sent again while an attempt at it  *)
(* runs: PartsReadable and CompletedWhole.                                 *)
(***************************************************************************)
EXTENDS Multipart, TLAPS

-----------------------------------------------------------------------------
(***************************************************************************)
(* Data.                                                                   *)
(***************************************************************************)
SendSteps == {"write", "record", "untmp"}
SendRequests == [at : SendSteps, u : Uploads, n : Parts, c : Attempts, inode : Attempts, block : 1..3]
MakeRequests == [at : {"copy", "drop"}, u : Uploads, etags : PartFns(Attempts), copied : PartFns(Blocks)]
DropRequests == [at : {"rmdir"}, u : Uploads]

\* A request is of the kind its step says.
LEMMA RequestKinds ==
    ASSUME NEW r \in Requests
    PROVE  /\ r.at \in SendSteps => r \in SendRequests
           /\ r.at \in {"copy", "drop"} => r \in MakeRequests
           /\ r.at = "rmdir" => r \in DropRequests
           /\ r.at = "idle" => r = Idle
           /\ r.at \in SendSteps \cup {"copy", "drop", "rmdir", "idle"}
  BY DEF Requests, SendRequests, MakeRequests, DropRequests, SendSteps, Idle

\* Every kind is a request.
LEMMA KindsAreRequests ==
    SendRequests \subseteq Requests /\ MakeRequests \subseteq Requests
    /\ DropRequests \subseteq Requests /\ Idle \in Requests
  BY DEF Requests, SendRequests, MakeRequests, DropRequests, SendSteps, Idle

\* A function on some parts.
LEMMA PartFnsIntro ==
    ASSUME NEW S, NEW D \in SUBSET Parts, NEW f \in [D -> S]
    PROVE  f \in PartFns(S)
  BY DEF PartFns

\* Its domain and values.
LEMMA PartFnsElim ==
    ASSUME NEW S, NEW f \in PartFns(S)
    PROVE  DOMAIN f \subseteq Parts /\ f \in [DOMAIN f -> S]
  BY DEF PartFns

\* One name is set.
LEMMA SetName ==
    ASSUME NEW f \in Names, NEW u \in Uploads, NEW n \in Parts, NEW v \in Attempts \cup {None}, NEW g,
           g = [f EXCEPT ![u][n] = v]
    PROVE  /\ g \in Names /\ g[u][n] = v
           /\ \A a \in Uploads, b \in Parts : a # u \/ b # n => g[a][b] = f[a][b]
  BY DEF Names

\* The names of an upload are removed.
LEMMA ClearNames ==
    ASSUME NEW f \in Names, NEW u \in Uploads, NEW g, g = [f EXCEPT ![u] = NoParts]
    PROVE  /\ g \in Names
           /\ \A b \in Parts : g[u][b] = None
           /\ \A a \in Uploads, b \in Parts : a # u => g[a][b] = f[a][b]
  BY DEF Names, NoParts

\* Numbers of attempts and contents of files.
LEMMA DataFacts ==
    /\ Attempts \subseteq Nat /\ None \notin Attempts
    /\ Empty \in Blocks /\ \A c \in Attempts : Whole(c) \in Blocks
  BY AttemptsAssumption, NoneAssumption DEF Attempts, Empty, Whole, Blocks

-----------------------------------------------------------------------------
(***************************************************************************)
(* What each step does, in terms of the request before and after it.       *)
(***************************************************************************)
Others(p) == \A q \in Procs \ {p} : req'[q] = req[q]

\* A sender goes to another of its steps.
Advances(p, at) ==
    /\ req[p] \in SendRequests /\ req'[p] \in SendRequests /\ req'[p].at = at
    /\ req'[p].u = req[p].u /\ req'[p].n = req[p].n /\ req'[p].c = req[p].c
    /\ req'[p].inode = req[p].inode /\ req'[p].block = req[p].block
    /\ Others(p)

\* Goto, of a sender.
LEMMA GotoAdvances ==
    ASSUME req \in [Procs -> Requests], NEW p \in Procs, req[p].at \in SendSteps,
           NEW s \in SendSteps, Goto(p, s)
    PROVE  Advances(p, s) /\ req' \in [Procs -> Requests]
  <1>1. req[p] \in SendRequests
    BY RequestKinds
  <1> DEFINE r == [req[p] EXCEPT !.at = s]
  <1>2. r \in SendRequests /\ r.at = s /\ r.u = req[p].u /\ r.n = req[p].n /\ r.c = req[p].c
        /\ r.inode = req[p].inode /\ r.block = req[p].block
    BY <1>1 DEF SendRequests
  <1>3. req' = [req EXCEPT ![p] = r]
    BY DEF Goto
  <1>4. r \in Requests
    BY <1>2, KindsAreRequests
  <1> HIDE DEF r
  <1>5. req'[p] = r /\ Others(p) /\ req' \in [Procs -> Requests]
    BY <1>3, <1>4 DEF Others
  <1> QED BY <1>1, <1>2, <1>5 DEF Advances

\* A request ends.
LEMMA FinishEnds ==
    ASSUME req \in [Procs -> Requests], NEW p \in Procs, Finish(p)
    PROVE  req'[p] = Idle /\ Others(p) /\ req' \in [Procs -> Requests]
  BY KindsAreRequests DEF Finish, Others

\* A request becomes another.
LEMMA BecomesRequest ==
    ASSUME req \in [Procs -> Requests], NEW p \in Procs, NEW r \in Requests, req' = [req EXCEPT ![p] = r]
    PROVE  req'[p] = r /\ Others(p) /\ req' \in [Procs -> Requests]
  BY DEF Others

-----------------------------------------------------------------------------
(***************************************************************************)
(* Types.                                                                  *)
(***************************************************************************)

\* A part is opened: a new sender, with a new content.
LEMMA OpenFacts ==
    ASSUME TypeOK, NEW p \in Procs, NEW u \in Uploads, NEW n \in Parts, OpenPart(p, u, n)
    PROVE  /\ attempts + 1 \in Attempts /\ attempts' = attempts + 1
           /\ req[p] = Idle /\ Others(p) /\ req' \in [Procs -> Requests]
           /\ req'[p] \in SendRequests /\ req'[p].at = "write" /\ req'[p].u = u /\ req'[p].n = n
           /\ req'[p].c = attempts + 1 /\ req'[p].block = 1
           /\ \E i \in Attempts :
                 /\ i = IF tmp[u][n] = None THEN attempts + 1 ELSE tmp[u][n]
                 /\ req'[p].inode = i
                 /\ tmp' = [tmp EXCEPT ![u][n] = i]
                 /\ data' = [data EXCEPT ![i] = Empty]
  <1> DEFINE c == attempts + 1
             i == IF tmp[u][n] = None THEN c ELSE tmp[u][n]
             r == [at |-> "write", u |-> u, n |-> n, c |-> c, inode |-> i, block |-> 1]
  <1>1. c \in Attempts /\ attempts' = c /\ req[p] = Idle
    BY AttemptsAssumption DEF OpenPart, TypeOK, Attempts
  <1>2. tmp[u][n] \in Attempts \cup {None}
    BY DEF TypeOK, Names
  <1>3. i \in Attempts
    BY <1>1, <1>2
  <1>4. req' = [req EXCEPT ![p] = r] /\ tmp' = [tmp EXCEPT ![u][n] = i] /\ data' = [data EXCEPT ![i] = Empty]
    BY DEF OpenPart
  <1>5. r \in SendRequests
    BY <1>1, <1>3 DEF SendRequests, SendSteps
  <1>6. r.at = "write" /\ r.u = u /\ r.n = n /\ r.c = c /\ r.inode = i /\ r.block = 1
    OBVIOUS
  <1> HIDE DEF r
  <1>7. req'[p] = r /\ Others(p) /\ req' \in [Procs -> Requests]
    BY <1>4, <1>5, KindsAreRequests, BecomesRequest DEF TypeOK
  <1> QED BY <1>1, <1>3, <1>4, <1>5, <1>6, <1>7

\* A block is written.
LEMMA WriteFacts ==
    ASSUME TypeOK, NEW p \in Procs, WriteBlock(p)
    PROVE  /\ req[p] \in SendRequests /\ req[p].at = "write" /\ req[p].block \in 1..2
           /\ req'[p] \in SendRequests /\ req'[p].at = "write" /\ req'[p].u = req[p].u
           /\ req'[p].n = req[p].n /\ req'[p].c = req[p].c /\ req'[p].inode = req[p].inode
           /\ req'[p].block = req[p].block + 1
           /\ Others(p) /\ req' \in [Procs -> Requests]
           /\ data' = [data EXCEPT ![req[p].inode][req[p].block] = req[p].c]
  <1>1. req[p].at = "write" /\ req[p] \in SendRequests
    BY RequestKinds DEF WriteBlock, TypeOK, SendSteps
  <1>2. req[p].block \in 1..2
    BY <1>1 DEF WriteBlock, SendRequests
  <1> DEFINE r == [req[p] EXCEPT !.block = req[p].block + 1]
  <1>3. r \in SendRequests /\ r.at = req[p].at /\ r.u = req[p].u /\ r.n = req[p].n /\ r.c = req[p].c
        /\ r.inode = req[p].inode /\ r.block = req[p].block + 1
    BY <1>1, <1>2 DEF SendRequests
  <1>4. req' = [req EXCEPT ![p] = r]
    BY DEF WriteBlock
  <1> HIDE DEF r
  <1>5. req'[p] = r /\ Others(p) /\ req' \in [Procs -> Requests]
    BY <1>3, <1>4, KindsAreRequests, BecomesRequest DEF TypeOK
  <1>6. data' = [data EXCEPT ![req[p].inode][req[p].block] = req[p].c]
    BY DEF WriteBlock
  <1> QED BY <1>1, <1>2, <1>3, <1>5, <1>6

\* The temporary file gets the part's name, if it is there.
LEMMA RenameFacts ==
    ASSUME TypeOK, NEW p \in Procs, RenamePart(p)
    PROVE  /\ req[p].at = "write" /\ req[p].block = 3 /\ req' \in [Procs -> Requests]
           /\ req[p].u \in Uploads /\ req[p].n \in Parts
           /\ \/ Advances(p, "untmp") /\ UNCHANGED <<tmp, files>>
              \/ /\ Advances(p, "record")
                 /\ tmp[req[p].u][req[p].n] \in Attempts
                 /\ files' = [files EXCEPT ![req[p].u][req[p].n] = tmp[req[p].u][req[p].n]]
                 /\ tmp' = [tmp EXCEPT ![req[p].u][req[p].n] = None]
  <1>1. req[p].at = "write" /\ req[p].block = 3 /\ req[p] \in SendRequests
    BY RequestKinds DEF RenamePart, TypeOK, SendSteps
  <1>2. req[p].u \in Uploads /\ req[p].n \in Parts
    BY <1>1 DEF SendRequests
  <1>3. tmp[req[p].u][req[p].n] \in Attempts \cup {None}
    BY <1>2 DEF TypeOK, Names
  <1>4. CASE tmp[req[p].u][req[p].n] = None
    <2>1. Goto(p, "untmp") /\ UNCHANGED <<tmp, files>>
      BY <1>4 DEF RenamePart
    <2> QED BY <1>1, <1>2, <2>1, GotoAdvances DEF TypeOK, SendSteps
  <1>5. CASE tmp[req[p].u][req[p].n] # None
    <2>1. /\ Goto(p, "record")
          /\ files' = [files EXCEPT ![req[p].u][req[p].n] = tmp[req[p].u][req[p].n]]
          /\ tmp' = [tmp EXCEPT ![req[p].u][req[p].n] = None]
      BY <1>5 DEF RenamePart
    <2>2. Advances(p, "record") /\ req' \in [Procs -> Requests]
      BY <1>1, <2>1, GotoAdvances DEF TypeOK, SendSteps
    <2> QED BY <1>1, <1>2, <1>3, <1>5, <2>1, <2>2
  <1> QED BY <1>4, <1>5

\* The record of a part is written or refused, or its transfer fails.
LEMMA SenderFacts ==
    ASSUME TypeOK, NEW p \in Procs, StreamFails(p) \/ RecordPart(p) \/ RecordPartFails(p)
    PROVE  /\ Advances(p, "untmp") /\ req' \in [Procs -> Requests]
           /\ req[p].u \in Uploads /\ req[p].n \in Parts /\ req[p].c \in Attempts
  <1>1. req[p].at \in SendSteps
    BY DEF StreamFails, RecordPart, RecordPartFails, SendSteps
  <1>2. req[p] \in SendRequests
    BY <1>1, RequestKinds DEF TypeOK
  <1>3. Goto(p, "untmp")
    BY DEF StreamFails, RecordPart, RecordPartFails
  <1> QED BY <1>1, <1>2, <1>3, GotoAdvances DEF TypeOK, SendSteps, SendRequests

\* The last step of a sender.
LEMMA RemoveTmpFacts ==
    ASSUME TypeOK, NEW p \in Procs, RemoveTmp(p)
    PROVE  /\ req[p].at = "untmp" /\ req[p].u \in Uploads /\ req[p].n \in Parts
           /\ req'[p] = Idle /\ Others(p) /\ req' \in [Procs -> Requests]
           /\ tmp' = [tmp EXCEPT ![req[p].u][req[p].n] = None]
  <1>1. req[p].at = "untmp" /\ req[p] \in SendRequests
    BY RequestKinds DEF RemoveTmp, TypeOK, SendSteps
  <1>2. req'[p] = Idle /\ Others(p) /\ req' \in [Procs -> Requests]
    BY FinishEnds DEF RemoveTmp, TypeOK
  <1> QED BY <1>1, <1>2 DEF RemoveTmp, SendRequests

\* A completion begins with recorded parts.
LEMMA BeginFacts ==
    ASSUME TypeOK, NEW p \in Procs, NEW u \in Uploads, NEW listed \in SUBSET Parts, BeginComplete(p, u, listed)
    PROVE  /\ req[p] = Idle /\ u \in live /\ Others(p) /\ req' \in [Procs -> Requests]
           /\ req'[p] \in MakeRequests /\ req'[p].at = "copy" /\ req'[p].u = u
           /\ DOMAIN req'[p].copied = {}
  <1> DEFINE etags == [n \in listed |-> recorded[u][n]]
             none == [n \in {} |-> Empty]
             r == [at |-> "copy", u |-> u, etags |-> etags, copied |-> none]
  <1>1. req[p] = Idle /\ u \in live /\ req' = [req EXCEPT ![p] = r]
    BY DEF BeginComplete
  <1>2. etags \in [listed -> Attempts]
    BY DEF BeginComplete, TypeOK, Names
  <1>3. etags \in PartFns(Attempts)
    BY <1>2, PartFnsIntro
  <1>4. none \in [{} -> Blocks] /\ DOMAIN none = {}
    OBVIOUS
  <1>5. none \in PartFns(Blocks)
    BY <1>4, PartFnsIntro
  <1> HIDE DEF etags, none
  <1>6. r \in MakeRequests /\ r.at = "copy" /\ r.u = u /\ r.copied = none
    BY <1>3, <1>5 DEF MakeRequests
  <1> HIDE DEF r
  <1>7. req'[p] = r /\ Others(p) /\ req' \in [Procs -> Requests]
    BY <1>1, <1>6, KindsAreRequests, BecomesRequest DEF TypeOK
  <1> QED BY <1>1, <1>4, <1>6, <1>7

\* A part that is there is copied; one that is not ends the request.
LEMMA CopyFacts ==
    ASSUME TypeOK, NEW p \in Procs, CopyPart(p)
    PROVE  /\ req[p].at = "copy" /\ req[p] \in MakeRequests
           /\ Others(p) /\ req' \in [Procs -> Requests]
           /\ \/ req'[p] = Idle
              \/ \E n \in Parts :
                    /\ files[req[p].u][n] \in Attempts
                    /\ req'[p] \in MakeRequests /\ req'[p].at = "copy" /\ req'[p].u = req[p].u
                    /\ DOMAIN req'[p].copied = DOMAIN req[p].copied \cup {n}
                    /\ req'[p].copied[n] = data[files[req[p].u][n]]
                    /\ \A k \in DOMAIN req[p].copied \ {n} : req'[p].copied[k] = req[p].copied[k]
  <1>1. req[p].at = "copy" /\ req[p] \in MakeRequests
    BY RequestKinds DEF CopyPart, TypeOK
  <1>2. req[p].u \in Uploads /\ req[p].etags \in PartFns(Attempts) /\ req[p].copied \in PartFns(Blocks)
    BY <1>1 DEF MakeRequests
  <1>3. PICK n \in DOMAIN req[p].etags \ DOMAIN req[p].copied :
           IF files[req[p].u][n] = None THEN Finish(p)
           ELSE req' = [req EXCEPT ![p].copied =
                   [k \in DOMAIN @ \cup {n} |-> IF k = n THEN data[files[req[p].u][n]] ELSE @[k]]]
    BY DEF CopyPart
  <1>4. n \in Parts
    BY <1>2, <1>3, PartFnsElim
  <1>5. CASE files[req[p].u][n] = None
    <2>1. Finish(p)
      BY <1>3, <1>5
    <2> QED BY <1>1, <2>1, FinishEnds DEF TypeOK
  <1>6. CASE files[req[p].u][n] # None
    <2> DEFINE f == req[p].copied
               D == DOMAIN f \cup {n}
               g == [k \in D |-> IF k = n THEN data[files[req[p].u][n]] ELSE f[k]]
               r == [req[p] EXCEPT !.copied = g]
    <2>1. files[req[p].u][n] \in Attempts
      BY <1>2, <1>4, <1>6 DEF TypeOK, Names
    <2>2. data[files[req[p].u][n]] \in Blocks
      BY <2>1 DEF TypeOK
    <2>3. f \in [DOMAIN f -> Blocks] /\ D \in SUBSET Parts
      BY <1>2, <1>4, PartFnsElim
    <2>4. g \in [D -> Blocks]
      BY <2>2, <2>3
    <2>5. g \in PartFns(Blocks)
      BY <2>3, <2>4, PartFnsIntro
    <2>6. DOMAIN g = D /\ g[n] = data[files[req[p].u][n]] /\ \A k \in DOMAIN f \ {n} : g[k] = f[k]
      OBVIOUS
    <2>7. req' = [req EXCEPT ![p] = r]
      BY <1>3, <1>6
    <2> HIDE DEF g
    <2>8. r \in MakeRequests /\ r.at = "copy" /\ r.u = req[p].u /\ r.copied = g
      BY <1>1, <2>5 DEF MakeRequests
    <2> HIDE DEF r
    <2>9. req'[p] = r /\ Others(p) /\ req' \in [Procs -> Requests]
      BY <2>7, <2>8, KindsAreRequests, BecomesRequest DEF TypeOK
    <2> QED BY <1>1, <1>4, <2>1, <2>6, <2>8, <2>9
  <1> QED BY <1>5, <1>6

\* The object is there, and the upload is to be dropped.
LEMMA CommitFacts ==
    ASSUME TypeOK, NEW p \in Procs, CommitObject(p)
    PROVE  /\ req[p].at = "copy" /\ req[p] \in MakeRequests
           /\ Others(p) /\ req' \in [Procs -> Requests]
           /\ req'[p] \in MakeRequests /\ req'[p].at = "drop" /\ req'[p].u = req[p].u
           /\ req'[p].copied = req[p].copied
           /\ objects' = objects \cup {[u |-> req[p].u, etags |-> req[p].etags, parts |-> req[p].copied]}
  <1>1. req[p].at = "copy" /\ req[p] \in MakeRequests
    BY RequestKinds DEF CommitObject, TypeOK
  <1> DEFINE r == [req[p] EXCEPT !.at = "drop"]
  <1>2. r \in MakeRequests /\ r.at = "drop" /\ r.u = req[p].u /\ r.copied = req[p].copied
    BY <1>1 DEF MakeRequests
  <1>3. req' = [req EXCEPT ![p] = r]
    BY DEF CommitObject, Goto
  <1> HIDE DEF r
  <1>4. req'[p] = r /\ Others(p) /\ req' \in [Procs -> Requests]
    BY <1>2, <1>3, KindsAreRequests, BecomesRequest DEF TypeOK
  <1> QED BY <1>1, <1>2, <1>4 DEF CommitObject

\* An upload is dropped, by a completion or an abort.
Drops(p, u) ==
    /\ Others(p) /\ req' \in [Procs -> Requests]
    /\ req'[p] = [at |-> "rmdir", u |-> u] /\ u \in Uploads
    /\ live' = live \ {u} /\ recorded' = [recorded EXCEPT ![u] = NoParts]

\* Both requests do.
LEMMA DropFacts ==
    ASSUME TypeOK, NEW p \in Procs
    PROVE  /\ DropUpload(p) => Drops(p, req[p].u) /\ req[p].at = "drop" /\ req[p] \in MakeRequests
           /\ \A u \in Uploads : AbortMultipartUpload(p, u) => Drops(p, u) /\ req[p] = Idle /\ u \in live
  <1>1. \A u \in Uploads : [at |-> "rmdir", u |-> u] \in Requests
    BY KindsAreRequests DEF DropRequests
  <1>2. ASSUME DropUpload(p)
        PROVE  Drops(p, req[p].u) /\ req[p].at = "drop" /\ req[p] \in MakeRequests
    <2>1. req[p].at = "drop" /\ req[p] \in MakeRequests
      BY <1>2, RequestKinds DEF DropUpload, TypeOK
    <2>2. req[p].u \in Uploads
      BY <2>1 DEF MakeRequests
    <2>3. req' = [req EXCEPT ![p] = [at |-> "rmdir", u |-> req[p].u]]
      BY <1>2 DEF DropUpload
    <2>4. req'[p] = [at |-> "rmdir", u |-> req[p].u] /\ Others(p) /\ req' \in [Procs -> Requests]
      BY <1>1, <2>2, <2>3, BecomesRequest DEF TypeOK
    <2> QED BY <1>2, <2>1, <2>2, <2>4 DEF DropUpload, DeleteMultipartUpload, Drops
  <1>3. ASSUME NEW u \in Uploads, AbortMultipartUpload(p, u)
        PROVE  Drops(p, u) /\ req[p] = Idle /\ u \in live
    <2>1. req' = [req EXCEPT ![p] = [at |-> "rmdir", u |-> u]]
      BY <1>3 DEF AbortMultipartUpload
    <2>2. req'[p] = [at |-> "rmdir", u |-> u] /\ Others(p) /\ req' \in [Procs -> Requests]
      BY <1>1, <2>1, BecomesRequest DEF TypeOK
    <2> QED BY <1>3, <2>2 DEF AbortMultipartUpload, DeleteMultipartUpload, Drops
  <1> QED BY <1>2, <1>3

\* The transaction that would drop the upload fails.
LEMMA DropFailsFacts ==
    ASSUME TypeOK, NEW p \in Procs, DropFails(p)
    PROVE  /\ req[p].at = "drop" /\ req[p].u \in Uploads
           /\ req'[p].at = "rmdir" /\ req'[p].u = req[p].u /\ Others(p) /\ req' \in [Procs -> Requests]
           /\ UNCHANGED <<live, recorded, disk, attempts, objects, created, aborted, unkept>>
           /\ emptied' = emptied \cup {req[p].u}
  <1>1. req[p].at = "drop" /\ req[p] \in MakeRequests
    BY RequestKinds DEF DropFails, TypeOK
  <1>2. req[p].u \in Uploads
    BY <1>1 DEF MakeRequests
  <1>3. [at |-> "rmdir", u |-> req[p].u] \in Requests
    BY <1>2, KindsAreRequests DEF DropRequests
  <1>4. req' = [req EXCEPT ![p] = [at |-> "rmdir", u |-> req[p].u]]
    BY DEF DropFails
  <1>5. req'[p] = [at |-> "rmdir", u |-> req[p].u] /\ Others(p) /\ req' \in [Procs -> Requests]
    BY <1>3, <1>4, BecomesRequest DEF TypeOK
  <1> QED BY <1>1, <1>2, <1>5 DEF DropFails, tables

\* The directory of an upload is removed.
LEMMA RemovePartsFacts ==
    ASSUME TypeOK, NEW p \in Procs, RemoveParts(p)
    PROVE  /\ req[p].at = "rmdir" /\ req[p].u \in Uploads
           /\ req'[p] = Idle /\ Others(p) /\ req' \in [Procs -> Requests]
           /\ tmp' = [tmp EXCEPT ![req[p].u] = NoParts]
           /\ files' = [files EXCEPT ![req[p].u] = NoParts]
  <1>1. req[p].at = "rmdir" /\ req[p] \in DropRequests
    BY RequestKinds DEF RemoveParts, TypeOK
  <1>2. req'[p] = Idle /\ Others(p) /\ req' \in [Procs -> Requests]
    BY FinishEnds DEF RemoveParts, TypeOK
  <1> QED BY <1>1, <1>2 DEF RemoveParts, DropRequests

\* A completion gives up.
LEMMA CompleteFailsFacts ==
    ASSUME TypeOK, NEW p \in Procs, CompleteFails(p)
    PROVE  req[p].at = "copy" /\ req'[p] = Idle /\ Others(p) /\ req' \in [Procs -> Requests]
  BY FinishEnds DEF CompleteFails, TypeOK

\* The types hold at the start.
LEMMA TypeInit == Init => TypeOK
  <1> SUFFICES ASSUME Init PROVE TypeOK
    OBVIOUS
  <1>1. [u \in Uploads |-> NoParts] \in Names
    BY DEF Names, NoParts
  <1>2. [i \in Attempts |-> Empty] \in [Attempts -> Blocks]
    BY DataFacts
  <1>3. [p \in Procs |-> Idle] \in [Procs -> Requests]
    BY KindsAreRequests
  <1> QED BY <1>1, <1>2, <1>3, AttemptsAssumption DEF Init, TypeOK

\* A sender keeps the types.
LEMMA UploadTypes ==
    ASSUME TypeOK, NEW p \in Procs, UploadPart(p)
    PROVE  TypeOK'
  <1>1. ASSUME NEW u \in Uploads, NEW n \in Parts, OpenPart(p, u, n) PROVE TypeOK'
    <2>1. PICK i \in Attempts : tmp' = [tmp EXCEPT ![u][n] = i] /\ data' = [data EXCEPT ![i] = Empty]
      BY <1>1, OpenFacts
    <2>2. tmp' \in Names
      BY <2>1, SetName DEF TypeOK
    <2>3. data' \in [Attempts -> Blocks]
      BY <2>1, DataFacts DEF TypeOK
    <2>4. attempts' \in 0..MaxAttempts /\ req' \in [Procs -> Requests]
      BY <1>1, OpenFacts DEF Attempts
    <2>5. UNCHANGED <<tables, files, objects, history>>
      BY <1>1 DEF OpenPart
    <2> QED BY <2>2, <2>3, <2>4, <2>5 DEF TypeOK, tables, history
  <1>2. CASE WriteBlock(p)
    <2>1. data' = [data EXCEPT ![req[p].inode][req[p].block] = req[p].c] /\ req' \in [Procs -> Requests]
      BY <1>2, WriteFacts
    <2>2. req[p].inode \in Attempts /\ req[p].block \in 1..2 /\ req[p].c \in 0..MaxAttempts
      <3>1. req[p] \in SendRequests /\ req[p].block \in 1..2
        BY <1>2, WriteFacts
      <3>2. req[p].inode \in Attempts /\ req[p].c \in Attempts
        BY <3>1 DEF SendRequests
      <3> QED BY <3>1, <3>2, AttemptsAssumption DEF Attempts
    <2>3. data' \in [Attempts -> Blocks]
      BY <2>1, <2>2 DEF TypeOK, Blocks
    <2>4. UNCHANGED <<tables, tmp, files, attempts, objects, history>>
      BY <1>2 DEF WriteBlock
    <2> QED BY <2>1, <2>3, <2>4 DEF TypeOK, tables, history
  <1>3. CASE StreamFails(p)
    <2>1. UNCHANGED <<tables, disk, attempts, objects, history>> /\ req' \in [Procs -> Requests]
      BY <1>3, SenderFacts DEF StreamFails
    <2> QED BY <2>1 DEF TypeOK, tables, disk, history
  <1>4. CASE RenamePart(p)
    <2>1. files' \in Names /\ tmp' \in Names /\ req' \in [Procs -> Requests]
      <3>1. files \in Names /\ tmp \in Names /\ req[p].u \in Uploads /\ req[p].n \in Parts
            /\ req' \in [Procs -> Requests]
        BY <1>4, RenameFacts DEF TypeOK
      <3>2. CASE UNCHANGED <<tmp, files>>
        BY <3>1, <3>2
      <3>3. CASE /\ tmp[req[p].u][req[p].n] \in Attempts
                 /\ files' = [files EXCEPT ![req[p].u][req[p].n] = tmp[req[p].u][req[p].n]]
                 /\ tmp' = [tmp EXCEPT ![req[p].u][req[p].n] = None]
        <4>1. files' \in Names
          <5>1. PICK i \in Attempts : files' = [files EXCEPT ![req[p].u][req[p].n] = i]
            BY <3>3
          <5> QED BY <3>1, <5>1, SetName
        <4>2. tmp' \in Names
          BY <3>1, <3>3, SetName
        <4> QED BY <3>1, <4>1, <4>2
      <3> QED BY <1>4, <3>1, <3>2, <3>3, RenameFacts
    <2>2. UNCHANGED <<tables, data, attempts, objects, history>>
      BY <1>4 DEF RenamePart
    <2> QED BY <2>1, <2>2 DEF TypeOK, tables, history
  <1>5. CASE RecordPart(p)
    <2>1. recorded' \in Names
      <3>1. recorded' = [recorded EXCEPT ![req[p].u][req[p].n] = req[p].c]
        BY <1>5 DEF RecordPart, PutObjectPart
      <3>2. req[p].u \in Uploads /\ req[p].n \in Parts /\ req[p].c \in Attempts
        BY <1>5, SenderFacts
      <3>3. recorded \in Names
        BY DEF TypeOK
      <3>4. PICK c \in Attempts : recorded' = [recorded EXCEPT ![req[p].u][req[p].n] = c]
        BY <3>1, <3>2
      <3> QED BY <3>2, <3>3, <3>4, SetName
    <2>2. /\ req' \in [Procs -> Requests] /\ unkept' \subseteq unkept
          /\ UNCHANGED <<live, disk, attempts, objects, created, aborted, emptied>>
      BY <1>5, SenderFacts DEF RecordPart, PutObjectPart
    <2> QED BY <2>1, <2>2 DEF TypeOK, disk
  <1>6. CASE RecordPartFails(p)
    <2>1. files' \in Names
      <3>1. files' = [files EXCEPT ![req[p].u][req[p].n] = None]
        BY <1>6 DEF RecordPartFails
      <3>2. req[p].u \in Uploads /\ req[p].n \in Parts /\ files \in Names
        BY <1>6, SenderFacts DEF TypeOK
      <3> QED BY <3>1, <3>2, SetName
    <2>2. /\ req' \in [Procs -> Requests] /\ unkept' = unkept \cup {<<req[p].u, req[p].n>>}
          /\ UNCHANGED <<tables, tmp, data, attempts, objects, created, aborted, emptied>>
      BY <1>6, SenderFacts DEF RecordPartFails
    <2>3. unkept' \subseteq Uploads \X Parts
      BY <1>6, <2>2, SenderFacts DEF TypeOK
    <2> QED BY <2>1, <2>2, <2>3 DEF TypeOK, tables
  <1>7. CASE RemoveTmp(p)
    <2>1. tmp' \in Names
      <3>1. tmp \in Names /\ req[p].u \in Uploads /\ req[p].n \in Parts
            /\ tmp' = [tmp EXCEPT ![req[p].u][req[p].n] = None]
        BY <1>7, RemoveTmpFacts DEF TypeOK
      <3> QED BY <3>1, SetName
    <2>2. req' \in [Procs -> Requests] /\ UNCHANGED <<tables, files, data, attempts, objects, history>>
      BY <1>7, RemoveTmpFacts DEF RemoveTmp
    <2> QED BY <2>1, <2>2 DEF TypeOK, tables, history
  <1> QED BY <1>1, <1>2, <1>3, <1>4, <1>5, <1>6, <1>7 DEF UploadPart

\* A completion or an abort keeps the types.
LEMMA CompleteTypes ==
    ASSUME TypeOK, NEW p \in Procs, CompleteOrAbort(p)
    PROVE  TypeOK'
  <1>1. ASSUME NEW u \in Uploads, NEW listed \in SUBSET Parts, BeginComplete(p, u, listed) PROVE TypeOK'
    <2>1. req' \in [Procs -> Requests] /\ UNCHANGED <<tables, disk, attempts, objects, history>>
      BY <1>1, BeginFacts DEF BeginComplete
    <2> QED BY <2>1 DEF TypeOK, tables, disk, history
  <1>2. CASE CopyPart(p)
    <2>1. req' \in [Procs -> Requests] /\ UNCHANGED <<tables, disk, attempts, objects, history>>
      BY <1>2, CopyFacts DEF CopyPart
    <2> QED BY <2>1 DEF TypeOK, tables, disk, history
  <1>3. CASE CommitObject(p)
    <2>1. req' \in [Procs -> Requests] /\ UNCHANGED <<tables, disk, attempts, history>>
      BY <1>3, CommitFacts DEF CommitObject
    <2>2. objects' \subseteq [u : Uploads, etags : PartFns(Attempts), parts : PartFns(Blocks)]
      BY <1>3, CommitFacts DEF TypeOK, MakeRequests
    <2> QED BY <2>1, <2>2 DEF TypeOK, tables, disk, history
  <1>4. CASE CompleteFails(p)
    <2>1. req' \in [Procs -> Requests] /\ UNCHANGED <<tables, disk, attempts, objects, history>>
      BY <1>4, CompleteFailsFacts DEF CompleteFails
    <2> QED BY <2>1 DEF TypeOK, tables, disk, history
  <1>5. ASSUME NEW u \in Uploads, Drops(p, u) PROVE live' \subseteq Uploads /\ recorded' \in Names /\ req' \in [Procs -> Requests]
    BY <1>5, ClearNames DEF Drops, TypeOK
  <1>6. CASE DropUpload(p)
    <2>1. UNCHANGED <<disk, attempts, objects, history>>
      BY <1>6 DEF DropUpload
    <2>2. Drops(p, req[p].u) /\ req[p].u \in Uploads
      BY <1>6, DropFacts DEF Drops
    <2> QED BY <1>5, <2>1, <2>2 DEF TypeOK, disk, history
  <1>7. ASSUME NEW u \in Uploads, AbortMultipartUpload(p, u) PROVE TypeOK'
    <2>1. UNCHANGED <<disk, attempts, objects, created, emptied, unkept>> /\ aborted' = aborted \cup {u}
      BY <1>7 DEF AbortMultipartUpload
    <2> QED BY <1>5, <1>7, <2>1, DropFacts DEF TypeOK, disk
  <1>8. CASE RemoveParts(p)
    <2>1. tmp' \in Names /\ files' \in Names /\ req' \in [Procs -> Requests]
      BY <1>8, RemovePartsFacts, ClearNames DEF TypeOK
    <2>2. UNCHANGED <<tables, data, attempts, objects, history>>
      BY <1>8 DEF RemoveParts
    <2> QED BY <2>1, <2>2 DEF TypeOK, tables, history
  <1>9. CASE DropFails(p)
    BY <1>9, DropFailsFacts DEF TypeOK, disk
  <1> QED BY <1>1, <1>2, <1>3, <1>4, <1>6, <1>7, <1>8, <1>9 DEF CompleteOrAbort

\* Every step keeps the types.
LEMMA TypeStep ==
    ASSUME TypeOK, [Next]_vars
    PROVE  TypeOK'
  <1>1. CASE Restart
    <2>1. [u \in Uploads |-> NoParts] \in Names /\ [p \in Procs |-> Idle] \in [Procs -> Requests]
      BY KindsAreRequests DEF Names, NoParts
    <2> QED BY <1>1, <2>1 DEF Restart, TypeOK, tables
  <1>2. ASSUME NEW u \in Uploads, CreateMultipartUpload(u) PROVE TypeOK'
    BY <1>2 DEF CreateMultipartUpload, TypeOK, disk
  <1>3. CASE UNCHANGED vars
    BY <1>3 DEF vars, tables, disk, history, TypeOK
  <1> QED BY <1>1, <1>2, <1>3, UploadTypes, CompleteTypes DEF Next

\* Types, for any uploads, parts and requests (local.go:521-720).
THEOREM MultipartTypeCorrect == Spec => []TypeOK
  BY TypeInit, TypeStep, PTL DEF Spec

-----------------------------------------------------------------------------
(***************************************************************************)
(* Nothing is lost.  Whoever drops an upload has committed its object.     *)
(***************************************************************************)
DropCommitted == \A p \in Procs : req[p].at = "drop" => \E o \in objects : o.u = req[p].u

LossInv == DropCommitted /\ NothingLost

\* A step that neither commits nor drops.
LEMMA LossFrame ==
    ASSUME LossInv, NEW p \in Procs, Others(p), UNCHANGED <<live, objects, created, aborted>>,
           req'[p].at = "drop" => req[p].at = "drop" /\ req'[p].u = req[p].u
    PROVE  LossInv'
  BY DEF LossInv, DropCommitted, NothingLost, Others

\* Every step of a sender is one.
LEMMA LossUpload ==
    ASSUME TypeOK, LossInv, NEW p \in Procs, UploadPart(p)
    PROVE  LossInv'
  <1>1. ASSUME NEW u \in Uploads, NEW n \in Parts, OpenPart(p, u, n) PROVE LossInv'
    <2>1. UNCHANGED <<live, objects, created, aborted>> /\ Others(p) /\ req'[p].at = "write"
      BY <1>1, OpenFacts DEF OpenPart, tables, history
    <2> QED BY <2>1, LossFrame
  <1>2. CASE WriteBlock(p)
    <2>1. UNCHANGED <<live, objects, created, aborted>> /\ Others(p) /\ req'[p].at = "write"
      BY <1>2, WriteFacts DEF WriteBlock, tables, history
    <2> QED BY <2>1, LossFrame
  <1>3. CASE RenamePart(p)
    <2>1. UNCHANGED <<live, objects, created, aborted>>
      BY <1>3 DEF RenamePart, tables, history
    <2>2. Advances(p, "untmp") \/ Advances(p, "record")
      BY <1>3, RenameFacts
    <2>3. Others(p) /\ req'[p].at # "drop"
      BY <2>2 DEF Advances
    <2> QED BY <2>1, <2>2, <2>3, LossFrame
  <1>4. CASE StreamFails(p) \/ RecordPart(p) \/ RecordPartFails(p)
    <2>1. UNCHANGED <<live, objects, created, aborted>>
      BY <1>4 DEF StreamFails, RecordPart, RecordPartFails, PutObjectPart, tables, history
    <2>2. Advances(p, "untmp")
      BY <1>4, SenderFacts
    <2>3. Others(p) /\ req'[p].at # "drop"
      BY <2>2 DEF Advances
    <2> QED BY <2>1, <2>2, <2>3, LossFrame
  <1>5. CASE RemoveTmp(p)
    <2>1. UNCHANGED <<live, objects, created, aborted>>
      BY <1>5 DEF RemoveTmp, tables, history
    <2>2. Others(p) /\ req'[p] = Idle
      BY <1>5, RemoveTmpFacts
    <2>3. req'[p].at # "drop"
      BY <2>2 DEF Idle
    <2> QED BY <2>1, <2>2, <2>3, LossFrame
  <1> QED BY <1>1, <1>2, <1>3, <1>4, <1>5 DEF UploadPart

\* A completion commits before it drops; an abort is known.
LEMMA LossComplete ==
    ASSUME TypeOK, LossInv, NEW p \in Procs, CompleteOrAbort(p)
    PROVE  LossInv'
  <1>1. ASSUME NEW u \in Uploads, NEW listed \in SUBSET Parts, BeginComplete(p, u, listed) PROVE LossInv'
    <2>1. UNCHANGED <<live, objects, created, aborted>>
      BY <1>1 DEF BeginComplete, tables, history
    <2>2. Others(p) /\ req'[p].at = "copy"
      BY <1>1, BeginFacts
    <2> QED BY <2>1, <2>2, LossFrame
  <1>2. CASE CopyPart(p)
    <2>1. UNCHANGED <<live, objects, created, aborted>>
      BY <1>2 DEF CopyPart, tables, history
    <2>2. Others(p) /\ (req'[p] = Idle \/ req'[p].at = "copy")
      BY <1>2, CopyFacts
    <2>3. req'[p].at # "drop"
      BY <2>2 DEF Idle
    <2> QED BY <2>1, <2>2, <2>3, LossFrame
  <1>3. CASE CommitObject(p)
    <2>1. UNCHANGED <<live, created, aborted>> /\ Others(p) /\ req'[p].u = req[p].u
      BY <1>3, CommitFacts DEF CommitObject, tables, history
    <2>2. objects \subseteq objects' /\ \E o \in objects' : o.u = req[p].u
      <3> DEFINE o == [u |-> req[p].u, etags |-> req[p].etags, parts |-> req[p].copied]
      <3>1. o.u = req[p].u
        OBVIOUS
      <3>2. objects' = objects \cup {o}
        BY <1>3 DEF CommitObject
      <3> HIDE DEF o
      <3> QED BY <3>1, <3>2
    <2> QED BY <2>1, <2>2 DEF LossInv, DropCommitted, NothingLost, Others
  <1>4. CASE CompleteFails(p)
    <2>1. UNCHANGED <<live, objects, created, aborted>>
      BY <1>4 DEF CompleteFails, tables, history
    <2>2. Others(p) /\ req'[p] = Idle
      BY <1>4, CompleteFailsFacts
    <2>3. req'[p].at # "drop"
      BY <2>2 DEF Idle
    <2> QED BY <2>1, <2>2, <2>3, LossFrame
  <1>5. CASE DropUpload(p)
    <2>0. UNCHANGED <<objects, created, aborted>>
      BY <1>5 DEF DropUpload, history
    <2>1. Drops(p, req[p].u) /\ req[p].at = "drop"
      BY <1>5, DropFacts
    <2>2. \E o \in objects : o.u = req[p].u
      BY <2>1 DEF LossInv, DropCommitted
    <2>3. DropCommitted'
      BY <2>0, <2>1 DEF LossInv, DropCommitted, Drops, Others
    <2>4. NothingLost'
      BY <2>0, <2>1, <2>2 DEF LossInv, NothingLost, Drops
    <2> QED BY <2>3, <2>4 DEF LossInv
  <1>6. ASSUME NEW u \in Uploads, AbortMultipartUpload(p, u) PROVE LossInv'
    <2>0. UNCHANGED <<objects, created>> /\ aborted' = aborted \cup {u}
      BY <1>6 DEF AbortMultipartUpload
    <2>1. Drops(p, u)
      BY <1>6, DropFacts
    <2>2. DropCommitted'
      BY <2>0, <2>1 DEF LossInv, DropCommitted, Drops, Others
    <2>3. NothingLost'
      BY <2>0, <2>1 DEF LossInv, NothingLost, Drops
    <2> QED BY <2>2, <2>3 DEF LossInv
  <1>7. CASE RemoveParts(p)
    <2>1. UNCHANGED <<live, objects, created, aborted>>
      BY <1>7 DEF RemoveParts, tables, history
    <2>2. Others(p) /\ req'[p] = Idle
      BY <1>7, RemovePartsFacts
    <2>3. req'[p].at # "drop"
      BY <2>2 DEF Idle
    <2> QED BY <2>1, <2>2, <2>3, LossFrame
  <1>8. CASE DropFails(p)
    BY <1>8, DropFailsFacts, LossFrame
  <1> QED BY <1>1, <1>2, <1>3, <1>4, <1>5, <1>6, <1>7, <1>8 DEF CompleteOrAbort

\* An upload is never dropped half way, wherever the process dies: it can still
\* be completed or aborted, or was aborted, or its object is there
\* (local.go:655-672).
THEOREM MultipartLosesNothing == Spec => []NothingLost
  <1>1. Init => LossInv
    BY DEF Init, LossInv, DropCommitted, NothingLost, Idle
  <1>2. TypeOK /\ LossInv /\ [Next]_vars => LossInv'
    <2> SUFFICES ASSUME TypeOK, LossInv, [Next]_vars PROVE LossInv'
      OBVIOUS
    <2>1. CASE Restart
      BY <2>1 DEF Restart, LossInv, DropCommitted, NothingLost, Idle, tables
    <2>2. ASSUME NEW u \in Uploads, CreateMultipartUpload(u) PROVE LossInv'
      BY <2>2 DEF CreateMultipartUpload, LossInv, DropCommitted, NothingLost
    <2>3. CASE UNCHANGED vars
      BY <2>3 DEF vars, tables, history, LossInv, DropCommitted, NothingLost
    <2> QED BY <2>1, <2>2, <2>3, LossUpload, LossComplete DEF Next
  <1>3. LossInv => NothingLost
    BY DEF LossInv
  <1> QED BY <1>1, <1>2, <1>3, MultipartTypeCorrect, PTL DEF Spec

-----------------------------------------------------------------------------
(***************************************************************************)
(* Nothing is left on the disk of an upload that is gone: whatever lies    *)
(* there, a request that is to remove it still runs.                       *)
(***************************************************************************)
Sends(p, u, n) == req[p].at \in SendSteps /\ req[p].u = u /\ req[p].n = n
Removes(p, u, n) ==
    \/ req[p].at = "rmdir" /\ req[p].u = u
    \/ req[p].at = "record" /\ req[p].u = u /\ req[p].n = n

TmpSent == \A u \in Uploads, n \in Parts : tmp[u][n] # None => \E p \in Procs : Sends(p, u, n)
FilesOwned ==
    \A u \in Uploads \ live, n \in Parts : files[u][n] # None => \E p \in Procs : Removes(p, u, n)

OrphanInv == TmpSent /\ FilesOwned

\* What a step of p may do to them: a name it makes it answers for, and it
\* goes on answering for those it leaves.
LEMMA TmpFrame ==
    ASSUME TmpSent, NEW p \in Procs, Others(p),
           \A u \in Uploads, n \in Parts :
              tmp'[u][n] # None => (Sends(p, u, n))' \/ (tmp[u][n] # None /\ ~Sends(p, u, n))
    PROVE  TmpSent'
  <1> SUFFICES ASSUME NEW u \in Uploads, NEW n \in Parts, tmp'[u][n] # None
               PROVE  \E q \in Procs : (Sends(q, u, n))'
    BY DEF TmpSent
  <1>1. CASE (Sends(p, u, n))'
    BY <1>1
  <1>2. CASE tmp[u][n] # None /\ ~Sends(p, u, n)
    <2>1. PICK q \in Procs : Sends(q, u, n)
      BY <1>2 DEF TmpSent
    <2>2. q # p /\ req'[q] = req[q]
      BY <1>2, <2>1 DEF Others
    <2> QED BY <2>1, <2>2 DEF Sends
  <1> QED BY <1>1, <1>2

LEMMA FilesFrame ==
    ASSUME FilesOwned, NEW p \in Procs, Others(p),
           \A u \in Uploads \ live', n \in Parts :
              files'[u][n] # None =>
                 (Removes(p, u, n))' \/ (u \notin live /\ files[u][n] # None /\ ~Removes(p, u, n))
    PROVE  FilesOwned'
  <1> SUFFICES ASSUME NEW u \in Uploads \ live', NEW n \in Parts, files'[u][n] # None
               PROVE  \E q \in Procs : (Removes(q, u, n))'
    BY DEF FilesOwned
  <1>1. CASE (Removes(p, u, n))'
    BY <1>1
  <1>2. CASE u \notin live /\ files[u][n] # None /\ ~Removes(p, u, n)
    <2>1. PICK q \in Procs : Removes(q, u, n)
      BY <1>2 DEF FilesOwned
    <2>2. q # p /\ req'[q] = req[q]
      BY <1>2, <2>1 DEF Others
    <2> QED BY <2>1, <2>2 DEF Removes
  <1> QED BY <1>1, <1>2

\* A step that names no file, and of a request that answers for none.
LEMMA OrphanFrame ==
    ASSUME OrphanInv, NEW p \in Procs, Others(p), UNCHANGED <<live, tmp, files>>,
           req[p].at \notin SendSteps \cup {"rmdir"}
    PROVE  OrphanInv'
  <1>1. \A u \in Uploads, n \in Parts : ~Sends(p, u, n) /\ ~Removes(p, u, n)
    BY DEF Sends, Removes, SendSteps
  <1> QED BY <1>1, TmpFrame, FilesFrame DEF OrphanInv

\* The steps of a sender.
LEMMA OrphanUpload ==
    ASSUME TypeOK, OrphanInv, NEW p \in Procs, UploadPart(p)
    PROVE  OrphanInv'
  <1>0. tmp \in Names /\ files \in Names
    BY DEF TypeOK
  <1>1. ASSUME NEW s \in SendSteps, Advances(p, s)
        PROVE  /\ Others(p)
               /\ \A u \in Uploads, n \in Parts : /\ Sends(p, u, n) => (Sends(p, u, n))'
                                                  /\ Removes(p, u, n) => u = req[p].u /\ n = req[p].n
    <2>1. req[p].at \in SendSteps
      BY <1>1 DEF Advances, SendRequests
    <2> QED BY <1>1, <2>1 DEF Advances, Sends, Removes, SendSteps
  <1>2. ASSUME NEW u \in Uploads, NEW n \in Parts, OpenPart(p, u, n) PROVE OrphanInv'
    <2>1. UNCHANGED <<live, files>>
      BY <1>2 DEF OpenPart, tables
    <2>2. req[p] = Idle /\ Others(p) /\ req'[p].at = "write" /\ req'[p].u = u /\ req'[p].n = n
      BY <1>2, OpenFacts
    <2>3. PICK i \in Attempts : tmp' = [tmp EXCEPT ![u][n] = i]
      BY <1>2, OpenFacts
    <2>4. \A a \in Uploads, b \in Parts : a # u \/ b # n => tmp'[a][b] = tmp[a][b]
      BY <2>3, SetName DEF TypeOK
    <2>5. \A a \in Uploads, b \in Parts : ~Sends(p, a, b) /\ ~Removes(p, a, b)
      BY <2>2 DEF Sends, Removes, SendSteps, Idle
    <2>6. (Sends(p, u, n))'
      BY <2>2 DEF Sends, SendSteps
    <2>7. TmpSent'
      BY <2>2, <2>4, <2>5, <2>6, TmpFrame DEF OrphanInv
    <2>8. FilesOwned'
      BY <2>1, <2>2, <2>5, FilesFrame DEF OrphanInv
    <2> QED BY <2>7, <2>8 DEF OrphanInv
  <1>3. CASE WriteBlock(p)
    <2>1. UNCHANGED <<live, tmp, files>>
      BY <1>3 DEF WriteBlock, tables
    <2>2. /\ Others(p) /\ req[p].at = "write" /\ req'[p].at = "write"
          /\ req'[p].u = req[p].u /\ req'[p].n = req[p].n
      BY <1>3, WriteFacts
    <2>3. \A a \in Uploads, b \in Parts : (Sends(p, a, b) => (Sends(p, a, b))') /\ ~Removes(p, a, b)
      BY <2>2 DEF Sends, Removes, SendSteps
    <2>4. TmpSent'
      BY <2>1, <2>2, <2>3, TmpFrame DEF OrphanInv
    <2>5. FilesOwned'
      BY <2>1, <2>2, <2>3, FilesFrame DEF OrphanInv
    <2> QED BY <2>4, <2>5 DEF OrphanInv
  <1>4. CASE RenamePart(p)
    <2>1. UNCHANGED live
      BY <1>4 DEF RenamePart, tables
    <2>2. req[p].at = "write" /\ req[p].u \in Uploads /\ req[p].n \in Parts
      BY <1>4, RenameFacts
    <2>3. \A a \in Uploads, b \in Parts : ~Removes(p, a, b)
      BY <2>2 DEF Removes
    <2>4. CASE Advances(p, "untmp") /\ UNCHANGED <<tmp, files>>
      <3>1. Others(p) /\ \A u \in Uploads, n \in Parts : Sends(p, u, n) => (Sends(p, u, n))'
        BY <1>1, <2>4 DEF SendSteps
      <3>2. TmpSent'
        BY <2>4, <3>1, TmpFrame DEF OrphanInv
      <3>3. FilesOwned'
        BY <2>1, <2>3, <2>4, <3>1, FilesFrame DEF OrphanInv
      <3> QED BY <3>2, <3>3 DEF OrphanInv
    <2>5. CASE /\ Advances(p, "record")
               /\ tmp[req[p].u][req[p].n] \in Attempts
               /\ files' = [files EXCEPT ![req[p].u][req[p].n] = tmp[req[p].u][req[p].n]]
               /\ tmp' = [tmp EXCEPT ![req[p].u][req[p].n] = None]
      <3>1. Others(p) /\ \A u \in Uploads, n \in Parts : Sends(p, u, n) => (Sends(p, u, n))'
        BY <1>1, <2>5 DEF SendSteps
      <3>2. \A a \in Uploads, b \in Parts : a = req[p].u /\ b = req[p].n => (Removes(p, a, b))'
        BY <2>5 DEF Advances, Removes
      <3>3. PICK i \in Attempts : files' = [files EXCEPT ![req[p].u][req[p].n] = i]
        BY <2>5
      <3>4. \A a \in Uploads, b \in Parts : a # req[p].u \/ b # req[p].n => files'[a][b] = files[a][b]
        BY <2>2, <3>3, SetName DEF TypeOK
      <3>5. \A a \in Uploads, b \in Parts : tmp'[a][b] # None => tmp[a][b] # None
        BY <2>2, <2>5, SetName DEF TypeOK
      <3>6. TmpSent'
        BY <3>1, <3>5, TmpFrame DEF OrphanInv
      <3>7. FilesOwned'
        BY <2>1, <2>3, <3>1, <3>2, <3>4, FilesFrame DEF OrphanInv
      <3> QED BY <3>6, <3>7 DEF OrphanInv
    <2> QED BY <1>4, <2>4, <2>5, RenameFacts
  <1>5. ASSUME StreamFails(p) \/ RecordPart(p) \/ RecordPartFails(p)
        PROVE  /\ Advances(p, "untmp") /\ Others(p) /\ req[p].u \in Uploads /\ req[p].n \in Parts
               /\ \A u \in Uploads, n \in Parts : /\ Sends(p, u, n) => (Sends(p, u, n))'
                                                  /\ Removes(p, u, n) => u = req[p].u /\ n = req[p].n
    <2>1. Advances(p, "untmp") /\ req[p].u \in Uploads /\ req[p].n \in Parts
      BY <1>5, SenderFacts
    <2> QED BY <1>1, <2>1 DEF SendSteps
  <1>6. CASE StreamFails(p)
    <2>1. UNCHANGED <<live, tmp, files>> /\ req[p].at = "write"
      BY <1>6 DEF StreamFails, tables, disk
    <2>2. \A u \in Uploads, n \in Parts : ~Removes(p, u, n)
      BY <2>1 DEF Removes
    <2>3. TmpSent'
      BY <1>5, <1>6, <2>1, TmpFrame DEF OrphanInv
    <2>4. FilesOwned'
      BY <1>5, <1>6, <2>1, <2>2, FilesFrame DEF OrphanInv
    <2> QED BY <2>3, <2>4 DEF OrphanInv
  <1>7. CASE RecordPart(p)
    <2>1. UNCHANGED <<live, tmp, files>> /\ req[p].u \in live
      BY <1>7 DEF RecordPart, PutObjectPart, disk
    <2>2. \A u \in Uploads \ live', n \in Parts : ~Removes(p, u, n)
      BY <1>5, <1>7, <2>1
    <2>3. TmpSent'
      BY <1>5, <1>7, <2>1, TmpFrame DEF OrphanInv
    <2>4. FilesOwned'
      BY <1>5, <1>7, <2>1, <2>2, FilesFrame DEF OrphanInv
    <2> QED BY <2>3, <2>4 DEF OrphanInv
  <1>8. CASE RecordPartFails(p)
    <2>1. UNCHANGED <<live, tmp>> /\ files' = [files EXCEPT ![req[p].u][req[p].n] = None]
      BY <1>8 DEF RecordPartFails, tables
    <2>2. /\ files'[req[p].u][req[p].n] = None
          /\ \A a \in Uploads, b \in Parts : a # req[p].u \/ b # req[p].n => files'[a][b] = files[a][b]
      BY <1>0, <1>5, <1>8, <2>1 DEF Names
    <2>3. TmpSent'
      BY <1>5, <1>8, <2>1, TmpFrame DEF OrphanInv
    <2>4. FilesOwned'
      BY <1>5, <1>8, <2>1, <2>2, FilesFrame DEF OrphanInv
    <2> QED BY <2>3, <2>4 DEF OrphanInv
  <1>9. CASE RemoveTmp(p)
    <2>1. UNCHANGED <<live, files>>
      BY <1>9 DEF RemoveTmp, tables
    <2>2. /\ req[p].at = "untmp" /\ req[p].u \in Uploads /\ req[p].n \in Parts /\ Others(p)
          /\ tmp' = [tmp EXCEPT ![req[p].u][req[p].n] = None]
      BY <1>9, RemoveTmpFacts
    <2>3. /\ tmp'[req[p].u][req[p].n] = None
          /\ \A a \in Uploads, b \in Parts : a # req[p].u \/ b # req[p].n => tmp'[a][b] = tmp[a][b]
      BY <1>0, <2>2 DEF Names
    <2>4. \A u \in Uploads, n \in Parts : /\ Sends(p, u, n) => u = req[p].u /\ n = req[p].n
                                          /\ ~Removes(p, u, n)
      BY <2>2 DEF Sends, Removes
    <2>5. TmpSent'
      BY <2>2, <2>3, <2>4, TmpFrame DEF OrphanInv
    <2>6. FilesOwned'
      BY <2>1, <2>2, <2>4, FilesFrame DEF OrphanInv
    <2> QED BY <2>5, <2>6 DEF OrphanInv
  <1> QED BY <1>2, <1>3, <1>4, <1>6, <1>7, <1>8, <1>9 DEF UploadPart

\* The steps of a completion or an abort: the one that drops the upload removes
\* its directory.
LEMMA OrphanComplete ==
    ASSUME TypeOK, OrphanInv, NEW p \in Procs, CompleteOrAbort(p)
    PROVE  OrphanInv'
  <1>0. tmp \in Names /\ files \in Names
    BY DEF TypeOK
  <1>1. ASSUME NEW u \in Uploads, NEW listed \in SUBSET Parts, BeginComplete(p, u, listed) PROVE OrphanInv'
    <2>1. UNCHANGED <<live, tmp, files>>
      BY <1>1 DEF BeginComplete, tables, disk
    <2>2. Others(p) /\ req[p].at \notin SendSteps \cup {"rmdir"}
      BY <1>1, BeginFacts DEF Idle, SendSteps
    <2> QED BY <2>1, <2>2, OrphanFrame
  <1>2. CASE CopyPart(p)
    <2>1. UNCHANGED <<live, tmp, files>>
      BY <1>2 DEF CopyPart, tables, disk
    <2>2. Others(p) /\ req[p].at = "copy"
      BY <1>2, CopyFacts
    <2> QED BY <2>1, <2>2, OrphanFrame DEF SendSteps
  <1>3. CASE CommitObject(p)
    <2>1. UNCHANGED <<live, tmp, files>>
      BY <1>3 DEF CommitObject, tables, disk
    <2>2. Others(p) /\ req[p].at = "copy"
      BY <1>3, CommitFacts
    <2> QED BY <2>1, <2>2, OrphanFrame DEF SendSteps
  <1>4. CASE CompleteFails(p)
    <2>1. UNCHANGED <<live, tmp, files>>
      BY <1>4 DEF CompleteFails, tables, disk
    <2>2. Others(p) /\ req[p].at = "copy"
      BY <1>4, CompleteFailsFacts
    <2> QED BY <2>1, <2>2, OrphanFrame DEF SendSteps
  <1>5. ASSUME NEW u \in Uploads, Drops(p, u), req[p].at \notin SendSteps \cup {"rmdir"}, UNCHANGED disk
        PROVE  OrphanInv'
    <2>1. UNCHANGED <<tmp, files>> /\ Others(p) /\ live' = live \ {u}
      BY <1>5 DEF Drops, disk
    <2>2. \A n \in Parts : (Removes(p, u, n))'
      BY <1>5 DEF Drops, Removes
    <2>3. \A a \in Uploads, b \in Parts : ~Sends(p, a, b) /\ ~Removes(p, a, b)
      BY <1>5 DEF Sends, Removes, SendSteps
    <2>4. TmpSent'
      BY <2>1, <2>3, TmpFrame DEF OrphanInv
    <2>5. FilesOwned'
      BY <2>1, <2>2, <2>3, FilesFrame DEF OrphanInv
    <2> QED BY <2>4, <2>5 DEF OrphanInv
  <1>6. CASE DropUpload(p)
    <2>1. Drops(p, req[p].u) /\ req[p].at = "drop"
      BY <1>6, DropFacts
    <2>2. UNCHANGED disk
      BY <1>6 DEF DropUpload
    <2> QED BY <1>5, <2>1, <2>2 DEF Drops, SendSteps
  <1>7. ASSUME NEW u \in Uploads, AbortMultipartUpload(p, u) PROVE OrphanInv'
    <2>1. Drops(p, u) /\ req[p] = Idle
      BY <1>7, DropFacts
    <2>2. UNCHANGED disk
      BY <1>7 DEF AbortMultipartUpload
    <2>3. req[p].at \notin SendSteps \cup {"rmdir"}
      BY <2>1 DEF Idle, SendSteps
    <2> QED BY <1>5, <2>1, <2>2, <2>3
  <1>8. CASE RemoveParts(p)
    <2>1. UNCHANGED live
      BY <1>8 DEF RemoveParts, tables
    <2>2. /\ req[p].at = "rmdir" /\ req[p].u \in Uploads /\ Others(p)
          /\ tmp' = [tmp EXCEPT ![req[p].u] = NoParts] /\ files' = [files EXCEPT ![req[p].u] = NoParts]
      BY <1>8, RemovePartsFacts
    <2>3. /\ \A b \in Parts : tmp'[req[p].u][b] = None
          /\ \A a \in Uploads, b \in Parts : a # req[p].u => tmp'[a][b] = tmp[a][b]
      BY <1>0, <2>2 DEF Names, NoParts
    <2>4. /\ \A b \in Parts : files'[req[p].u][b] = None
          /\ \A a \in Uploads, b \in Parts : a # req[p].u => files'[a][b] = files[a][b]
      BY <1>0, <2>2 DEF Names, NoParts
    <2>5. \A u \in Uploads, n \in Parts : /\ ~Sends(p, u, n)
                                          /\ Removes(p, u, n) => u = req[p].u
      BY <2>2 DEF Sends, Removes, SendSteps
    <2>6. TmpSent'
      BY <2>2, <2>3, <2>5, TmpFrame DEF OrphanInv
    <2>7. FilesOwned'
      BY <2>1, <2>2, <2>4, <2>5, FilesFrame DEF OrphanInv
    <2> QED BY <2>6, <2>7 DEF OrphanInv
  <1>9. CASE DropFails(p)
    <2>1. UNCHANGED <<live, tmp, files>> /\ Others(p) /\ req[p].at = "drop"
      BY <1>9, DropFailsFacts DEF disk
    <2> QED BY <2>1, OrphanFrame DEF SendSteps
  <1> QED BY <1>1, <1>2, <1>3, <1>4, <1>6, <1>7, <1>8, <1>9 DEF CompleteOrAbort

\* Every step.
LEMMA OrphanStep ==
    ASSUME TypeOK, OrphanInv, [Next]_vars
    PROVE  OrphanInv'
  <1>1. CASE Restart
    BY <1>1 DEF Restart, OrphanInv, TmpSent, FilesOwned, NoParts
  <1>2. ASSUME NEW u \in Uploads, CreateMultipartUpload(u) PROVE OrphanInv'
    BY <1>2 DEF CreateMultipartUpload, OrphanInv, TmpSent, FilesOwned, Sends, Removes, disk
  <1>3. CASE UNCHANGED vars
    BY <1>3 DEF vars, tables, disk, OrphanInv, TmpSent, FilesOwned, Sends, Removes
  <1> QED BY <1>1, <1>2, <1>3, OrphanUpload, OrphanComplete DEF Next

\* When no request runs, the disk holds nothing of an upload that is gone,
\* whatever was retried, aborted, completed or restarted (local.go:521-720).
THEOREM MultipartLeavesNothing == Spec => []NoOrphanParts
  <1>1. Init => OrphanInv
    BY DEF Init, OrphanInv, TmpSent, FilesOwned, NoParts
  <1>2. TypeOK /\ OrphanInv => NoOrphanParts
    <2> SUFFICES ASSUME TypeOK, OrphanInv, \A p \in Procs : req[p] = Idle, NEW u \in Uploads \ live
                 PROVE  files[u] = NoParts /\ tmp[u] = NoParts
      BY DEF NoOrphanParts
    <2>1. \A p \in Procs, n \in Parts : ~Sends(p, u, n) /\ ~Removes(p, u, n)
      BY DEF Sends, Removes, SendSteps, Idle
    <2>2. \A n \in Parts : files[u][n] = None /\ tmp[u][n] = None
      BY <2>1 DEF OrphanInv, TmpSent, FilesOwned
    <2>3. files[u] \in [Parts -> Attempts \cup {None}] /\ tmp[u] \in [Parts -> Attempts \cup {None}]
      BY DEF TypeOK, Names
    <2> QED BY <2>2, <2>3 DEF NoParts
  <1> QED BY <1>1, <1>2, OrphanStep, MultipartTypeCorrect, PTL DEF Spec

-----------------------------------------------------------------------------
(***************************************************************************)
(* While no part is sent again before its last attempt is over, a file has *)
(* one writer: the temporary file of a part is its sender's own.           *)
(***************************************************************************)
Sender(p) == req[p].at \in SendSteps
Holds(p, u, n) == req[p].at \in {"write", "untmp"} /\ req[p].u = u /\ req[p].n = n

OneSender ==
    \A p, q \in Procs :
        (Sender(p) /\ Sender(q) /\ (req[p].c = req[q].c \/ (req[p].u = req[q].u /\ req[p].n = req[q].n)))
            => p = q
OwnInode == \A p \in Procs : Sender(p) => req[p].inode = req[p].c /\ req[p].c <= attempts
TmpOwned ==
    \A u \in Uploads, n \in Parts :
        tmp[u][n] # None => \E p \in Procs : Holds(p, u, n) /\ req[p].c = tmp[u][n]

SenderInv == OneSender /\ OwnInode /\ TmpOwned

\* A step that opens no part.
LEMMA SenderFrame ==
    ASSUME SenderInv, NEW p \in Procs, Others(p), UNCHANGED attempts,
           (Sender(p))' => /\ Sender(p)
                           /\ req'[p].u = req[p].u /\ req'[p].n = req[p].n
                           /\ req'[p].c = req[p].c /\ req'[p].inode = req[p].inode,
           \A u \in Uploads, n \in Parts :
              tmp'[u][n] # None => /\ tmp'[u][n] = tmp[u][n]
                                   /\ Holds(p, u, n) => (Holds(p, u, n))' /\ req'[p].c = req[p].c
    PROVE  SenderInv'
  <1>1. \A q \in Procs : (Sender(q))' => /\ Sender(q)
                                         /\ req'[q].u = req[q].u /\ req'[q].n = req[q].n
                                         /\ req'[q].c = req[q].c /\ req'[q].inode = req[q].inode
    BY DEF Others, Sender
  <1>2. OneSender'
    BY <1>1 DEF SenderInv, OneSender
  <1>3. OwnInode'
    BY <1>1 DEF SenderInv, OwnInode
  <1>4. TmpOwned'
    <2> SUFFICES ASSUME NEW u \in Uploads, NEW n \in Parts, tmp'[u][n] # None
                 PROVE  \E q \in Procs : (Holds(q, u, n))' /\ req'[q].c = tmp'[u][n]
      BY DEF TmpOwned
    <2>1. tmp'[u][n] = tmp[u][n]
      OBVIOUS
    <2>2. PICK q \in Procs : Holds(q, u, n) /\ req[q].c = tmp[u][n]
      BY <2>1 DEF SenderInv, TmpOwned
    <2>3. CASE q = p
      BY <2>1, <2>2, <2>3
    <2>4. CASE q # p
      <3>1. req'[q] = req[q]
        BY <2>4 DEF Others
      <3> QED BY <2>1, <2>2, <3>1 DEF Holds
    <2> QED BY <2>3, <2>4
  <1> QED BY <1>2, <1>3, <1>4 DEF SenderInv

\* A part is opened: nobody else sends it, so there is no temporary file and the
\* file is new.
LEMMA OpenAlone ==
    ASSUME ~Retries, TypeOK, OrphanInv, NEW p \in Procs, NEW u \in Uploads, NEW n \in Parts,
           OpenPart(p, u, n)
    PROVE  /\ \A q \in Procs : ~Sends(q, u, n)
           /\ tmp[u][n] = None
           /\ req'[p].inode = attempts + 1
           /\ tmp' = [tmp EXCEPT ![u][n] = attempts + 1]
           /\ data' = [data EXCEPT ![attempts + 1] = Empty]
  <1>1. ~Sending(u, n)
    BY DEF OpenPart
  <1>2. \A q \in Procs : ~Sends(q, u, n)
    BY <1>1 DEF Sending, Sends, SendSteps
  <1>3. tmp[u][n] = None
    BY <1>2 DEF OrphanInv, TmpSent
  <1>4. PICK i \in Attempts : /\ i = IF tmp[u][n] = None THEN attempts + 1 ELSE tmp[u][n]
                              /\ req'[p].inode = i
                              /\ tmp' = [tmp EXCEPT ![u][n] = i]
                              /\ data' = [data EXCEPT ![i] = Empty]
    BY OpenFacts
  <1>5. i = attempts + 1
    BY <1>3, <1>4
  <1> QED BY <1>2, <1>3, <1>4, <1>5

\* A sender that advances to its end keeps its file, and its own.
LEMMA SenderAdvances ==
    ASSUME SenderInv, NEW p \in Procs, Advances(p, "untmp"), req[p].at = "write" \/ req[p].at = "record",
           UNCHANGED <<attempts, tmp>>
    PROVE  SenderInv'
  <1>1. Others(p)
    BY DEF Advances
  <1>2. (Sender(p))' => /\ Sender(p)
                        /\ req'[p].u = req[p].u /\ req'[p].n = req[p].n
                        /\ req'[p].c = req[p].c /\ req'[p].inode = req[p].inode
    BY DEF Advances, Sender, SendSteps
  <1>3. \A u \in Uploads, n \in Parts : Holds(p, u, n) => (Holds(p, u, n))' /\ req'[p].c = req[p].c
    BY DEF Advances, Holds
  <1> QED BY <1>1, <1>2, <1>3, SenderFrame

\* The steps of a sender.
LEMMA SenderUpload ==
    ASSUME ~Retries, TypeOK, OrphanInv, SenderInv, NEW p \in Procs, UploadPart(p)
    PROVE  SenderInv'
  <1>0. tmp \in Names
    BY DEF TypeOK
  <1>1. ASSUME NEW u \in Uploads, NEW n \in Parts, OpenPart(p, u, n) PROVE SenderInv'
    <2>1. /\ \A q \in Procs : ~Sends(q, u, n)
          /\ tmp' = [tmp EXCEPT ![u][n] = attempts + 1] /\ req'[p].inode = attempts + 1
      BY <1>1, OpenAlone
    <2>2. /\ attempts + 1 \in Attempts /\ attempts' = attempts + 1 /\ req[p] = Idle /\ Others(p)
          /\ req'[p].at = "write" /\ req'[p].u = u /\ req'[p].n = n /\ req'[p].c = attempts + 1
      BY <1>1, OpenFacts
    <2>3. attempts \in Nat
      BY AttemptsAssumption DEF TypeOK
    <2>4. \A q \in Procs \ {p} : req'[q] = req[q]
      BY <2>2 DEF Others
    <2>5. ~Sender(p)
      BY <2>2 DEF Sender, SendSteps, Idle
    <2>6. \A q \in Procs \ {p} : Sender(q) => req[q].c <= attempts /\ (req[q].u # u \/ req[q].n # n)
      BY <2>1 DEF SenderInv, OwnInode, Sends, Sender
    <2>7. \A q \in Procs : Sender(q) => req[q].c \in Attempts
      BY RequestKinds DEF TypeOK, Sender, SendRequests
    <2>8. \A q \in Procs \ {p} : Sender(q) => req[q].c # attempts + 1
      BY <2>3, <2>6, <2>7, DataFacts
    <2>9. OneSender'
      <3> SUFFICES ASSUME NEW q \in Procs, NEW r \in Procs, (Sender(q))', (Sender(r))', q # r,
                          req'[q].c = req'[r].c \/ (req'[q].u = req'[r].u /\ req'[q].n = req'[r].n)
                   PROVE  FALSE
        BY DEF OneSender
      <3>1. CASE q = p
        BY <2>2, <2>4, <2>6, <2>8, <3>1 DEF Sender
      <3>2. CASE r = p
        BY <2>2, <2>4, <2>6, <2>8, <3>2 DEF Sender
      <3>3. CASE q # p /\ r # p
        BY <2>4, <3>3 DEF SenderInv, OneSender, Sender
      <3> QED BY <3>1, <3>2, <3>3
    <2>10. OwnInode'
      <3>1. ASSUME NEW q \in Procs \ {p}, (Sender(q))'
            PROVE  req'[q].inode = req'[q].c /\ req'[q].c <= attempts'
        <4>1. Sender(q) /\ req'[q] = req[q]
          BY <2>4, <3>1 DEF Sender
        <4>2. req[q].inode = req[q].c /\ req[q].c <= attempts /\ req[q].c \in Nat
          BY <2>7, <4>1, DataFacts DEF SenderInv, OwnInode
        <4> QED BY <2>2, <2>3, <4>1, <4>2
      <3>2. req'[p].inode = req'[p].c /\ req'[p].c <= attempts'
        BY <2>1, <2>2, <2>3
      <3> QED BY <3>1, <3>2 DEF OwnInode
    <2>11. TmpOwned'
      <3> SUFFICES ASSUME NEW a \in Uploads, NEW b \in Parts, tmp'[a][b] # None
                   PROVE  \E q \in Procs : (Holds(q, a, b))' /\ req'[q].c = tmp'[a][b]
        BY DEF TmpOwned
      <3>1. CASE a = u /\ b = n
        <4>1. tmp'[a][b] = attempts + 1
          BY <1>0, <2>1, <3>1 DEF Names
        <4>2. (Holds(p, a, b))'
          BY <2>2, <3>1 DEF Holds
        <4> QED BY <2>2, <4>1, <4>2
      <3>2. CASE a # u \/ b # n
        <4>1. tmp'[a][b] = tmp[a][b]
          BY <1>0, <2>1, <3>2 DEF Names
        <4>2. PICK q \in Procs : Holds(q, a, b) /\ req[q].c = tmp[a][b]
          BY <4>1 DEF SenderInv, TmpOwned
        <4>3. q # p
          BY <2>5, <4>2 DEF Holds, Sender, SendSteps
        <4>4. req'[q] = req[q]
          BY <2>4, <4>3
        <4> QED BY <4>1, <4>2, <4>4 DEF Holds
      <3> QED BY <3>1, <3>2
    <2> QED BY <2>9, <2>10, <2>11 DEF SenderInv
  <1>2. CASE WriteBlock(p)
    <2>1. UNCHANGED <<attempts, tmp>>
      BY <1>2 DEF WriteBlock
    <2>2. /\ req[p].at = "write" /\ req'[p].at = "write" /\ req'[p].u = req[p].u
          /\ req'[p].n = req[p].n /\ req'[p].c = req[p].c /\ req'[p].inode = req[p].inode /\ Others(p)
      BY <1>2, WriteFacts
    <2>3. Sender(p)
      BY <2>2 DEF Sender, SendSteps
    <2>4. \A u \in Uploads, n \in Parts : Holds(p, u, n) => (Holds(p, u, n))'
      BY <2>2 DEF Holds
    <2> QED BY <2>1, <2>2, <2>3, <2>4, SenderFrame
  <1>3. CASE RenamePart(p)
    <2>1. UNCHANGED attempts
      BY <1>3 DEF RenamePart
    <2>2. req[p].at = "write" /\ req[p].u \in Uploads /\ req[p].n \in Parts
      BY <1>3, RenameFacts
    <2>3. CASE Advances(p, "untmp") /\ UNCHANGED <<tmp, files>>
      BY <2>1, <2>2, <2>3, SenderAdvances
    <2>4. CASE Advances(p, "record") /\ tmp' = [tmp EXCEPT ![req[p].u][req[p].n] = None]
      <3>1. Others(p)
        BY <2>4 DEF Advances
      <3>2. (Sender(p))' => /\ Sender(p)
                            /\ req'[p].u = req[p].u /\ req'[p].n = req[p].n
                            /\ req'[p].c = req[p].c /\ req'[p].inode = req[p].inode
        BY <2>2, <2>4 DEF Advances, Sender, SendSteps
      <3>3. \A u \in Uploads, n \in Parts :
               tmp'[u][n] # None => tmp'[u][n] = tmp[u][n] /\ (u # req[p].u \/ n # req[p].n)
        BY <1>0, <2>2, <2>4 DEF Names
      <3>4. \A u \in Uploads, n \in Parts : Holds(p, u, n) => u = req[p].u /\ n = req[p].n
        BY DEF Holds
      <3> QED BY <2>1, <3>1, <3>2, <3>3, <3>4, SenderFrame
    <2> QED BY <1>3, <2>3, <2>4, RenameFacts
  <1>4. CASE StreamFails(p) \/ RecordPart(p) \/ RecordPartFails(p)
    <2>1. Advances(p, "untmp")
      BY <1>4, SenderFacts
    <2>2. UNCHANGED <<attempts, tmp>> /\ (req[p].at = "write" \/ req[p].at = "record")
      BY <1>4 DEF StreamFails, RecordPart, RecordPartFails, disk
    <2> QED BY <2>1, <2>2, SenderAdvances
  <1>5. CASE RemoveTmp(p)
    <2>1. UNCHANGED attempts
      BY <1>5 DEF RemoveTmp
    <2>2. /\ req[p].u \in Uploads /\ req[p].n \in Parts /\ Others(p) /\ req'[p] = Idle
          /\ tmp' = [tmp EXCEPT ![req[p].u][req[p].n] = None]
      BY <1>5, RemoveTmpFacts
    <2>3. ~(Sender(p))'
      BY <2>2 DEF Sender, SendSteps, Idle
    <2>4. \A u \in Uploads, n \in Parts :
             tmp'[u][n] # None => tmp'[u][n] = tmp[u][n] /\ (u # req[p].u \/ n # req[p].n)
      BY <1>0, <2>2 DEF Names
    <2>5. \A u \in Uploads, n \in Parts : Holds(p, u, n) => u = req[p].u /\ n = req[p].n
      BY DEF Holds
    <2> QED BY <2>1, <2>2, <2>3, <2>4, <2>5, SenderFrame
  <1> QED BY <1>1, <1>2, <1>3, <1>4, <1>5 DEF UploadPart

\* What a completion or an abort does is no sender's.
LEMMA OthersFacts ==
    ASSUME TypeOK, NEW p \in Procs, CompleteOrAbort(p)
    PROVE  /\ ~Sender(p) /\ ~(Sender(p))' /\ Others(p) /\ UNCHANGED <<attempts, data>>
           /\ \A u \in Uploads, n \in Parts :
                 /\ tmp'[u][n] # None => tmp'[u][n] = tmp[u][n]
                 /\ files'[u][n] # None => files'[u][n] = files[u][n]
                 /\ files'[u][n] # files[u][n] => req[p].at = "rmdir" /\ req[p].u = u
  <1>1. ASSUME NEW u \in Uploads, NEW listed \in SUBSET Parts, BeginComplete(p, u, listed)
        PROVE  /\ UNCHANGED <<attempts, disk>> /\ Others(p)
               /\ req[p].at \notin SendSteps /\ req'[p].at \notin SendSteps
    <2>1. UNCHANGED <<attempts, disk>>
      BY <1>1 DEF BeginComplete
    <2>2. req[p] = Idle /\ req'[p].at = "copy" /\ Others(p)
      BY <1>1, BeginFacts
    <2> QED BY <2>1, <2>2 DEF SendSteps, Idle
  <1>2. CASE CopyPart(p)
    <2>1. UNCHANGED <<attempts, disk>>
      BY <1>2 DEF CopyPart
    <2>2. req[p].at = "copy" /\ (req'[p] = Idle \/ req'[p].at = "copy") /\ Others(p)
      BY <1>2, CopyFacts
    <2>3. ~Sender(p) /\ ~(Sender(p))'
      BY <2>2 DEF SendSteps, Idle, Sender
    <2> QED BY <2>1, <2>2, <2>3 DEF disk
  <1>3. CASE CommitObject(p)
    <2>1. UNCHANGED <<attempts, disk>>
      BY <1>3 DEF CommitObject
    <2>2. req[p].at = "copy" /\ req'[p].at = "drop" /\ Others(p)
      BY <1>3, CommitFacts
    <2>3. ~Sender(p) /\ ~(Sender(p))'
      BY <2>2 DEF SendSteps, Sender
    <2> QED BY <2>1, <2>2, <2>3 DEF disk
  <1>4. CASE CompleteFails(p)
    <2>1. UNCHANGED <<attempts, disk>>
      BY <1>4 DEF CompleteFails
    <2>2. req[p].at = "copy" /\ req'[p] = Idle /\ Others(p)
      BY <1>4, CompleteFailsFacts
    <2>3. ~Sender(p) /\ ~(Sender(p))'
      BY <2>2 DEF SendSteps, Idle, Sender
    <2> QED BY <2>1, <2>2, <2>3 DEF disk
  <1>5. CASE DropUpload(p)
    <2>1. UNCHANGED <<attempts, disk>>
      BY <1>5 DEF DropUpload
    <2>2. Drops(p, req[p].u) /\ req[p].at = "drop"
      BY <1>5, DropFacts
    <2>3. req'[p].at = "rmdir" /\ Others(p)
      BY <2>2 DEF Drops
    <2>4. ~Sender(p) /\ ~(Sender(p))'
      BY <2>2, <2>3 DEF SendSteps, Sender
    <2> QED BY <2>1, <2>3, <2>4 DEF disk
  <1>6. ASSUME NEW u \in Uploads, AbortMultipartUpload(p, u)
        PROVE  UNCHANGED <<attempts, disk>> /\ Others(p) /\ ~Sender(p) /\ ~(Sender(p))'
    <2>1. UNCHANGED <<attempts, disk>>
      BY <1>6 DEF AbortMultipartUpload
    <2>2. Drops(p, u) /\ req[p] = Idle
      BY <1>6, DropFacts
    <2>3. req'[p].at = "rmdir" /\ Others(p)
      BY <2>2 DEF Drops
    <2>4. ~Sender(p) /\ ~(Sender(p))'
      BY <2>2, <2>3 DEF SendSteps, Sender, Idle
    <2> QED BY <2>1, <2>3, <2>4
  <1>9. CASE DropFails(p)
    <2>1. UNCHANGED <<attempts, disk>> /\ Others(p) /\ req[p].at = "drop" /\ req'[p].at = "rmdir"
      BY <1>9, DropFailsFacts
    <2>2. ~Sender(p) /\ ~(Sender(p))'
      BY <2>1 DEF SendSteps, Sender
    <2> QED BY <2>1, <2>2 DEF disk
  <1>7. CASE RemoveParts(p)
    <2>0. tmp \in Names /\ files \in Names
      BY DEF TypeOK
    <2>1. UNCHANGED <<attempts, data>>
      BY <1>7 DEF RemoveParts
    <2>2. /\ req[p].at = "rmdir" /\ req'[p] = Idle /\ Others(p) /\ req[p].u \in Uploads
          /\ tmp' = [tmp EXCEPT ![req[p].u] = NoParts] /\ files' = [files EXCEPT ![req[p].u] = NoParts]
      BY <1>7, RemovePartsFacts
    <2>3. ~Sender(p) /\ ~(Sender(p))'
      BY <2>2 DEF SendSteps, Idle, Sender
    <2>4. \A u \in Uploads, n \in Parts : tmp'[u][n] # None => tmp'[u][n] = tmp[u][n]
      BY <2>0, <2>2 DEF Names, NoParts
    <2>5. \A u \in Uploads, n \in Parts : /\ files'[u][n] # None => files'[u][n] = files[u][n]
                                          /\ files'[u][n] # files[u][n] => u = req[p].u
      BY <2>0, <2>2 DEF Names, NoParts
    <2> QED BY <2>1, <2>2, <2>3, <2>4, <2>5
  <1>8. CASE \E u \in Uploads : \/ \E listed \in SUBSET Parts : BeginComplete(p, u, listed)
                                \/ AbortMultipartUpload(p, u)
    BY <1>1, <1>6, <1>8 DEF disk, Sender
  <1> QED BY <1>2, <1>3, <1>4, <1>5, <1>7, <1>8, <1>9 DEF CompleteOrAbort

\* Every step.
LEMMA SenderStep ==
    ASSUME ~Retries, TypeOK, OrphanInv, SenderInv, [Next]_vars
    PROVE  SenderInv'
  <1>1. CASE Restart
    BY <1>1 DEF Restart, SenderInv, OneSender, OwnInode, TmpOwned, Sender, SendSteps, Idle, NoParts
  <1>2. ASSUME NEW u \in Uploads, CreateMultipartUpload(u) PROVE SenderInv'
    BY <1>2 DEF CreateMultipartUpload, SenderInv, OneSender, OwnInode, TmpOwned, Sender, Holds, disk
  <1>3. CASE UNCHANGED vars
    BY <1>3 DEF vars, disk, SenderInv, OneSender, OwnInode, TmpOwned, Sender, Holds
  <1>4. ASSUME NEW p \in Procs, CompleteOrAbort(p) PROVE SenderInv'
    <2>1. /\ ~Sender(p) /\ ~(Sender(p))' /\ Others(p) /\ UNCHANGED attempts
          /\ \A u \in Uploads, n \in Parts : tmp'[u][n] # None => tmp'[u][n] = tmp[u][n]
      BY <1>4, OthersFacts
    <2>2. \A u \in Uploads, n \in Parts : ~Holds(p, u, n)
      BY <2>1 DEF Holds, Sender, SendSteps
    <2> QED BY <2>1, <2>2, SenderFrame
  <1> QED BY <1>1, <1>2, <1>3, <1>4, SenderUpload DEF Next

-----------------------------------------------------------------------------
(***************************************************************************)
(* Contents.  A file that has got its part's name is whole and nobody      *)
(* writes it any more; what is copied from it is whole.                    *)
(***************************************************************************)
IsWhole(d) == \E c \in Attempts : d = Whole(c)

Written ==
    \A p \in Procs : req[p].at = "write" =>
        \A i \in 1..2 : i < req[p].block => data[req[p].c][i] = req[p].c
FilesWhole ==
    \A u \in Uploads, n \in Parts : files[u][n] # None =>
        /\ files[u][n] <= attempts
        /\ data[files[u][n]] = Whole(files[u][n])
        /\ \A p \in Procs : req[p].at = "write" => req[p].c # files[u][n]
ContentInv == Written /\ FilesWhole

CopiesWhole ==
    \A p \in Procs : req[p].at \in {"copy", "drop"} =>
        \A n \in DOMAIN req[p].copied : IsWhole(req[p].copied[n])
WholeInv == CopiesWhole /\ CompletedWhole

\* A step that writes nothing and names no file.
LEMMA ContentFrame ==
    ASSUME ContentInv, NEW p \in Procs, Others(p), UNCHANGED <<attempts, data>>,
           req'[p].at = "write" => req[p].at = "write" /\ req'[p].c = req[p].c /\ req'[p].block = req[p].block,
           \A u \in Uploads, n \in Parts : files'[u][n] # None => files'[u][n] = files[u][n]
    PROVE  ContentInv'
  <1>1. \A q \in Procs : req'[q].at = "write" =>
            req[q].at = "write" /\ req'[q].c = req[q].c /\ req'[q].block = req[q].block
    BY DEF Others
  <1>2. Written'
    BY <1>1 DEF ContentInv, Written
  <1>3. FilesWhole'
    BY <1>1 DEF ContentInv, FilesWhole
  <1> QED BY <1>2, <1>3 DEF ContentInv

\* A rename gives the part its sender's own file, whole.
LEMMA RenamedOwn ==
    ASSUME TypeOK, SenderInv, Written, NEW p \in Procs, RenamePart(p), tmp[req[p].u][req[p].n] \in Attempts
    PROVE  /\ tmp[req[p].u][req[p].n] = req[p].c
           /\ data[req[p].c] = Whole(req[p].c)
           /\ req[p].c \in Attempts /\ req[p].c <= attempts
  <1>1. req[p].at = "write" /\ req[p].block = 3 /\ req[p].u \in Uploads /\ req[p].n \in Parts
    BY RenameFacts
  <1>2. req[p].c \in Attempts
    BY <1>1, RequestKinds DEF TypeOK, SendSteps, SendRequests
  <1>3. PICK q \in Procs : Holds(q, req[p].u, req[p].n) /\ req[q].c = tmp[req[p].u][req[p].n]
    BY <1>1, DataFacts DEF SenderInv, TmpOwned
  <1>4. Sender(p) /\ Sender(q) /\ req[p].u = req[q].u /\ req[p].n = req[q].n
    BY <1>1, <1>3 DEF Holds, Sender, SendSteps
  <1>5. q = p
    BY <1>4 DEF SenderInv, OneSender
  <1>6. req[p].c <= attempts
    BY <1>4 DEF SenderInv, OwnInode
  <1>7. data[req[p].c][1] = req[p].c /\ data[req[p].c][2] = req[p].c
    BY <1>1 DEF Written
  <1>8. data[req[p].c] \in [1..2 -> 0..MaxAttempts]
    BY <1>2 DEF TypeOK, Blocks
  <1>9. data[req[p].c] = Whole(req[p].c)
    BY <1>7, <1>8 DEF Whole
  <1> QED BY <1>2, <1>3, <1>5, <1>6, <1>9

\* The steps of a sender.
LEMMA ContentUpload ==
    ASSUME ~Retries, TypeOK, OrphanInv, SenderInv, ContentInv, NEW p \in Procs, UploadPart(p)
    PROVE  ContentInv'
  <1>0. /\ files \in Names /\ data \in [Attempts -> Blocks] /\ attempts \in Nat
        /\ \A q \in Procs : Sender(q) => req[q].c \in Attempts
    BY RequestKinds, AttemptsAssumption DEF TypeOK, Sender, SendRequests
  <1>1. \A q \in Procs : req[q].at = "write" => Sender(q)
    BY DEF Sender, SendSteps
  <1>2. ASSUME NEW u \in Uploads, NEW n \in Parts, OpenPart(p, u, n) PROVE ContentInv'
    <2>1. data' = [data EXCEPT ![attempts + 1] = Empty]
      BY <1>2, OpenAlone
    <2>2. /\ attempts + 1 \in Attempts /\ attempts' = attempts + 1 /\ Others(p)
          /\ req'[p].at = "write" /\ req'[p].c = attempts + 1 /\ req'[p].block = 1
      BY <1>2, OpenFacts
    <2>3. UNCHANGED files
      BY <1>2 DEF OpenPart
    <2>4. \A i \in Attempts : i <= attempts => data'[i] = data[i]
      BY <1>0, <2>1, DataFacts
    <2>5. Written'
      <3> SUFFICES ASSUME NEW q \in Procs, req'[q].at = "write", NEW i \in 1..2, i < req'[q].block
                   PROVE  data'[req'[q].c][i] = req'[q].c
        BY DEF Written
      <3>1. q # p
        BY <2>2
      <3>2. req'[q] = req[q]
        BY <2>2, <3>1 DEF Others
      <3>3. Sender(q)
        BY <1>1, <3>2
      <3>4. req[q].c \in Attempts /\ req[q].c <= attempts
        BY <1>0, <3>3 DEF SenderInv, OwnInode
      <3> QED BY <2>4, <3>2, <3>4 DEF ContentInv, Written
    <2>6. FilesWhole'
      <3> SUFFICES ASSUME NEW a \in Uploads, NEW b \in Parts, files[a][b] # None
                   PROVE  /\ files[a][b] <= attempts'
                          /\ data'[files[a][b]] = Whole(files[a][b])
                          /\ \A q \in Procs : req'[q].at = "write" => req'[q].c # files[a][b]
        BY <2>3 DEF FilesWhole
      <3>1. files[a][b] \in Attempts
        BY <1>0 DEF Names
      <3>2. /\ files[a][b] <= attempts /\ data[files[a][b]] = Whole(files[a][b])
            /\ \A q \in Procs : req[q].at = "write" => req[q].c # files[a][b]
        BY DEF ContentInv, FilesWhole
      <3>3. files[a][b] # attempts + 1 /\ files[a][b] <= attempts'
        <4>1. PICK f \in Nat : f = files[a][b] /\ f <= attempts
          BY <3>1, <3>2, DataFacts
        <4>2. attempts \in Nat /\ attempts' = attempts + 1
          BY <1>0, <2>2
        <4> QED BY <4>1, <4>2
      <3>4. \A q \in Procs : req'[q].at = "write" => req'[q].c # files[a][b]
        BY <2>2, <3>2, <3>3 DEF Others
      <3> QED BY <2>4, <3>1, <3>2, <3>3, <3>4
    <2> QED BY <2>5, <2>6 DEF ContentInv
  <1>3. CASE WriteBlock(p)
    <2>1. UNCHANGED <<attempts, files>>
      BY <1>3 DEF WriteBlock
    <2>2. /\ req[p].at = "write" /\ req[p].block \in 1..2 /\ req'[p].at = "write"
          /\ req'[p].c = req[p].c /\ req'[p].block = req[p].block + 1 /\ Others(p)
          /\ data' = [data EXCEPT ![req[p].inode][req[p].block] = req[p].c]
      BY <1>3, WriteFacts
    <2>3. Sender(p) /\ req[p].c \in Attempts /\ req[p].inode = req[p].c
      BY <1>0, <1>1, <2>2 DEF SenderInv, OwnInode
    <2>4. /\ \A i \in Attempts : i # req[p].c => data'[i] = data[i]
          /\ data'[req[p].c][req[p].block] = req[p].c
          /\ \A i \in 1..2 : i # req[p].block => data'[req[p].c][i] = data[req[p].c][i]
      <3>1. data' = [data EXCEPT ![req[p].c][req[p].block] = req[p].c]
        BY <2>2, <2>3
      <3> QED BY <1>0, <2>2, <2>3, <3>1 DEF Blocks
    <2>5. \A q \in Procs : req[q].at = "write" /\ q # p => req[q].c # req[p].c /\ req[q].c \in Attempts
      BY <1>0, <1>1, <2>3 DEF SenderInv, OneSender
    <2>6. Written'
      <3> SUFFICES ASSUME NEW q \in Procs, req'[q].at = "write", NEW i \in 1..2, i < req'[q].block
                   PROVE  data'[req'[q].c][i] = req'[q].c
        BY DEF Written
      <3>1. CASE q # p
        <4>1. req'[q] = req[q]
          BY <2>2, <3>1 DEF Others
        <4> QED BY <2>4, <2>5, <3>1, <4>1 DEF ContentInv, Written
      <3>2. CASE q = p /\ i = req[p].block
        BY <2>2, <2>4, <3>2
      <3>3. CASE q = p /\ i # req[p].block
        <4>1. i < req[p].block
          BY <2>2, <3>3
        <4>2. data[req[p].c][i] = req[p].c
          BY <2>2, <4>1 DEF ContentInv, Written
        <4> QED BY <2>2, <2>4, <3>3, <4>2
      <3> QED BY <3>1, <3>2, <3>3
    <2>7. FilesWhole'
      <3> SUFFICES ASSUME NEW a \in Uploads, NEW b \in Parts, files[a][b] # None
                   PROVE  /\ files[a][b] <= attempts
                          /\ data'[files[a][b]] = Whole(files[a][b])
                          /\ \A q \in Procs : req'[q].at = "write" => req'[q].c # files[a][b]
        BY <2>1 DEF FilesWhole
      <3>1. files[a][b] \in Attempts
        BY <1>0 DEF Names
      <3>2. /\ files[a][b] <= attempts /\ data[files[a][b]] = Whole(files[a][b])
            /\ \A q \in Procs : req[q].at = "write" => req[q].c # files[a][b]
        BY DEF ContentInv, FilesWhole
      <3>3. \A q \in Procs : req'[q].at = "write" => req'[q].c # files[a][b]
        BY <2>2, <3>2 DEF Others
      <3>4. data'[files[a][b]] = data[files[a][b]]
        BY <2>2, <2>4, <3>1, <3>2
      <3> QED BY <3>2, <3>3, <3>4
    <2> QED BY <2>6, <2>7 DEF ContentInv
  <1>4. ASSUME NEW s \in {"record", "untmp"}, Advances(p, s), UNCHANGED <<attempts, data>>,
               \A u \in Uploads, n \in Parts : files'[u][n] # None => files'[u][n] = files[u][n]
        PROVE  ContentInv'
    <2>1. Others(p) /\ req'[p].at # "write"
      BY <1>4 DEF Advances
    <2> QED BY <1>4, <2>1, ContentFrame
  <1>5. CASE RenamePart(p)
    <2>1. UNCHANGED <<attempts, data>>
      BY <1>5 DEF RenamePart
    <2>2. CASE Advances(p, "untmp") /\ UNCHANGED <<tmp, files>>
      BY <1>4, <2>1, <2>2
    <2>3. CASE /\ Advances(p, "record")
               /\ tmp[req[p].u][req[p].n] \in Attempts
               /\ files' = [files EXCEPT ![req[p].u][req[p].n] = tmp[req[p].u][req[p].n]]
      <3>1. /\ files' = [files EXCEPT ![req[p].u][req[p].n] = req[p].c]
            /\ data[req[p].c] = Whole(req[p].c) /\ req[p].c \in Attempts /\ req[p].c <= attempts
        BY <1>5, <2>3, RenamedOwn DEF ContentInv
      <3>2. Others(p) /\ req'[p].at = "record"
        BY <2>3 DEF Advances
      <3>3. Sender(p) /\ req[p].u \in Uploads /\ req[p].n \in Parts
        BY <1>1, <1>5, RenameFacts
      <3>4. Written'
        BY <2>1, <3>2 DEF ContentInv, Written, Others
      <3>5. FilesWhole'
        <4> SUFFICES ASSUME NEW a \in Uploads, NEW b \in Parts, files'[a][b] # None
                     PROVE  /\ files'[a][b] <= attempts
                            /\ data[files'[a][b]] = Whole(files'[a][b])
                            /\ \A q \in Procs : req'[q].at = "write" => req'[q].c # files'[a][b]
          BY <2>1 DEF FilesWhole
        <4>1. CASE a = req[p].u /\ b = req[p].n
          <5>1. files'[a][b] = req[p].c
            BY <1>0, <3>1, <3>3, <4>1 DEF Names
          <5>2. \A q \in Procs : req'[q].at = "write" => req'[q].c # req[p].c
            <6> SUFFICES ASSUME NEW q \in Procs, req'[q].at = "write", req'[q].c = req[p].c
                         PROVE  FALSE
              OBVIOUS
            <6>1. q # p /\ req'[q] = req[q]
              BY <3>2 DEF Others
            <6> QED BY <1>1, <3>3, <6>1 DEF SenderInv, OneSender
          <5> QED BY <3>1, <5>1, <5>2
        <4>2. CASE a # req[p].u \/ b # req[p].n
          <5>1. files'[a][b] = files[a][b]
            BY <1>0, <3>1, <3>3, <4>2 DEF Names
          <5>2. /\ files[a][b] <= attempts /\ data[files[a][b]] = Whole(files[a][b])
                /\ \A q \in Procs : req[q].at = "write" => req[q].c # files[a][b]
            BY <5>1 DEF ContentInv, FilesWhole
          <5>3. \A q \in Procs : req'[q].at = "write" => req'[q].c # files[a][b]
            BY <3>2, <5>2 DEF Others
          <5> QED BY <5>1, <5>2, <5>3
        <4> QED BY <4>1, <4>2
      <3> QED BY <3>4, <3>5 DEF ContentInv
    <2> QED BY <1>5, <2>2, <2>3, RenameFacts
  <1>6. CASE StreamFails(p) \/ RecordPart(p) \/ RecordPartFails(p)
    <2>1. Advances(p, "untmp") /\ req[p].u \in Uploads /\ req[p].n \in Parts
      BY <1>6, SenderFacts
    <2>2. UNCHANGED <<attempts, data>>
      BY <1>6 DEF StreamFails, RecordPart, RecordPartFails, disk
    <2>3. UNCHANGED files \/ files' = [files EXCEPT ![req[p].u][req[p].n] = None]
      BY <1>6 DEF StreamFails, RecordPart, RecordPartFails, disk
    <2>4. \A u \in Uploads, n \in Parts : files'[u][n] # None => files'[u][n] = files[u][n]
      BY <1>0, <2>1, <2>3 DEF Names
    <2> QED BY <1>4, <2>1, <2>2, <2>4
  <1>7. CASE RemoveTmp(p)
    <2>1. UNCHANGED <<attempts, data, files>>
      BY <1>7 DEF RemoveTmp
    <2>2. Others(p) /\ req'[p] = Idle
      BY <1>7, RemoveTmpFacts
    <2>3. req'[p].at # "write"
      BY <2>2 DEF Idle
    <2> QED BY <2>1, <2>2, <2>3, ContentFrame
  <1> QED BY <1>2, <1>3, <1>5, <1>6, <1>7 DEF UploadPart

\* Every step.
LEMMA ContentStep ==
    ASSUME ~Retries, TypeOK, OrphanInv, SenderInv, ContentInv, [Next]_vars
    PROVE  ContentInv'
  <1>1. CASE Restart
    BY <1>1 DEF Restart, ContentInv, Written, FilesWhole, Idle, NoParts
  <1>2. ASSUME NEW u \in Uploads, CreateMultipartUpload(u) PROVE ContentInv'
    BY <1>2 DEF CreateMultipartUpload, ContentInv, Written, FilesWhole, disk
  <1>3. CASE UNCHANGED vars
    BY <1>3 DEF vars, disk, ContentInv, Written, FilesWhole
  <1>4. ASSUME NEW p \in Procs, CompleteOrAbort(p) PROVE ContentInv'
    <2>1. /\ ~(Sender(p))' /\ Others(p) /\ UNCHANGED <<attempts, data>>
          /\ \A u \in Uploads, n \in Parts : files'[u][n] # None => files'[u][n] = files[u][n]
      BY <1>4, OthersFacts
    <2>2. req'[p].at # "write"
      BY <2>1 DEF Sender, SendSteps
    <2> QED BY <2>1, <2>2, ContentFrame
  <1> QED BY <1>1, <1>2, <1>3, <1>4, ContentUpload DEF Next

\* A step that copies and commits nothing.
LEMMA WholeFrame ==
    ASSUME WholeInv, NEW p \in Procs, Others(p), UNCHANGED objects, req'[p].at \notin {"copy", "drop"}
    PROVE  WholeInv'
  <1>1. CopiesWhole'
    BY DEF WholeInv, CopiesWhole, Others
  <1>2. CompletedWhole'
    BY DEF WholeInv, CompletedWhole
  <1> QED BY <1>1, <1>2 DEF WholeInv

\* The steps of a completion: what it copies is whole.
LEMMA WholeComplete ==
    ASSUME TypeOK, FilesWhole, WholeInv, NEW p \in Procs, CompleteOrAbort(p)
    PROVE  WholeInv'
  <1>1. ASSUME NEW u \in Uploads, NEW listed \in SUBSET Parts, BeginComplete(p, u, listed) PROVE WholeInv'
    <2>1. UNCHANGED objects
      BY <1>1 DEF BeginComplete
    <2>2. Others(p) /\ DOMAIN req'[p].copied = {}
      BY <1>1, BeginFacts
    <2>3. CopiesWhole'
      BY <2>2 DEF WholeInv, CopiesWhole, Others
    <2> QED BY <2>1, <2>3 DEF WholeInv, CompletedWhole
  <1>2. CASE CopyPart(p)
    <2>1. UNCHANGED objects
      BY <1>2 DEF CopyPart
    <2>2. Others(p) /\ req[p].at = "copy" /\ req[p] \in MakeRequests
      BY <1>2, CopyFacts
    <2>3. CASE req'[p] = Idle
      <3>1. req'[p].at \notin {"copy", "drop"}
        BY <2>3 DEF Idle
      <3> QED BY <2>1, <2>2, <3>1, WholeFrame
    <2>4. CASE \E n \in Parts :
                  /\ files[req[p].u][n] \in Attempts
                  /\ req'[p] \in MakeRequests /\ req'[p].at = "copy" /\ req'[p].u = req[p].u
                  /\ DOMAIN req'[p].copied = DOMAIN req[p].copied \cup {n}
                  /\ req'[p].copied[n] = data[files[req[p].u][n]]
                  /\ \A k \in DOMAIN req[p].copied \ {n} : req'[p].copied[k] = req[p].copied[k]
      <3>1. PICK n \in Parts :
               /\ files[req[p].u][n] \in Attempts
               /\ DOMAIN req'[p].copied = DOMAIN req[p].copied \cup {n}
               /\ req'[p].copied[n] = data[files[req[p].u][n]]
               /\ \A k \in DOMAIN req[p].copied \ {n} : req'[p].copied[k] = req[p].copied[k]
        BY <2>4
      <3>2. req[p].u \in Uploads
        BY <2>2 DEF MakeRequests
      <3>3. IsWhole(req'[p].copied[n])
        <4>1. files[req[p].u][n] \in Attempts /\ files[req[p].u][n] # None
          BY <3>1, DataFacts
        <4>2. data[files[req[p].u][n]] = Whole(files[req[p].u][n])
          BY <3>2, <4>1 DEF FilesWhole
        <4> QED BY <3>1, <4>1, <4>2 DEF IsWhole
      <3>4. \A k \in DOMAIN req[p].copied : IsWhole(req[p].copied[k])
        BY <2>2 DEF WholeInv, CopiesWhole
      <3>5. \A k \in DOMAIN req'[p].copied : IsWhole(req'[p].copied[k])
        BY <3>1, <3>3, <3>4
      <3>6. CopiesWhole'
        <4> SUFFICES ASSUME NEW q \in Procs, req'[q].at \in {"copy", "drop"}, NEW k \in DOMAIN req'[q].copied
                     PROVE  IsWhole(req'[q].copied[k])
          BY DEF CopiesWhole, IsWhole
        <4>1. CASE q = p
          BY <3>5, <4>1
        <4>2. CASE q # p
          BY <2>2, <4>2 DEF Others, WholeInv, CopiesWhole
        <4> QED BY <4>1, <4>2
      <3> QED BY <2>1, <3>6 DEF WholeInv, CompletedWhole
    <2> QED BY <1>2, <2>3, <2>4, CopyFacts
  <1>3. CASE CommitObject(p)
    <2> DEFINE o == [u |-> req[p].u, etags |-> req[p].etags, parts |-> req[p].copied]
    <2>1. /\ req[p].at = "copy" /\ Others(p) /\ req'[p].copied = req[p].copied
          /\ objects' = objects \cup {o}
      BY <1>3, CommitFacts
    <2>2. o.parts = req[p].copied
      OBVIOUS
    <2> HIDE DEF o
    <2>3. \A n \in DOMAIN req[p].copied : IsWhole(req[p].copied[n])
      BY <2>1 DEF WholeInv, CopiesWhole
    <2>4. CopiesWhole'
      <3> SUFFICES ASSUME NEW q \in Procs, req'[q].at \in {"copy", "drop"}, NEW k \in DOMAIN req'[q].copied
                   PROVE  IsWhole(req'[q].copied[k])
        BY DEF CopiesWhole, IsWhole
      <3>1. CASE q = p
        BY <2>1, <2>3, <3>1
      <3>2. CASE q # p
        BY <2>1, <3>2 DEF Others, WholeInv, CopiesWhole
      <3> QED BY <3>1, <3>2
    <2>5. CompletedWhole'
      <3> SUFFICES ASSUME NEW x \in objects \cup {o}, NEW n \in DOMAIN x.parts
                   PROVE  \E c \in Attempts : x.parts[n] = Whole(c)
        BY <2>1 DEF CompletedWhole
      <3>1. CASE x = o
        BY <2>2, <2>3, <3>1 DEF IsWhole
      <3>2. CASE x \in objects
        BY <3>2 DEF WholeInv, CompletedWhole
      <3> QED BY <3>1, <3>2
    <2> QED BY <2>4, <2>5 DEF WholeInv
  <1>4. CASE CompleteFails(p)
    <2>1. UNCHANGED objects
      BY <1>4 DEF CompleteFails
    <2>2. Others(p) /\ req'[p] = Idle
      BY <1>4, CompleteFailsFacts
    <2>3. req'[p].at \notin {"copy", "drop"}
      BY <2>2 DEF Idle
    <2> QED BY <2>1, <2>2, <2>3, WholeFrame
  <1>5. CASE DropUpload(p)
    <2>1. UNCHANGED objects
      BY <1>5 DEF DropUpload
    <2>2. Drops(p, req[p].u)
      BY <1>5, DropFacts
    <2>3. Others(p) /\ req'[p].at \notin {"copy", "drop"}
      BY <2>2 DEF Drops
    <2> QED BY <2>1, <2>3, WholeFrame
  <1>6. ASSUME NEW u \in Uploads, AbortMultipartUpload(p, u) PROVE WholeInv'
    <2>1. UNCHANGED objects
      BY <1>6 DEF AbortMultipartUpload
    <2>2. Drops(p, u)
      BY <1>6, DropFacts
    <2>3. Others(p) /\ req'[p].at \notin {"copy", "drop"}
      BY <2>2 DEF Drops
    <2> QED BY <2>1, <2>3, WholeFrame
  <1>8. CASE DropFails(p)
    <2>1. UNCHANGED objects /\ Others(p) /\ req'[p].at \notin {"copy", "drop"}
      BY <1>8, DropFailsFacts
    <2> QED BY <2>1, WholeFrame
  <1>7. CASE RemoveParts(p)
    <2>1. UNCHANGED objects
      BY <1>7 DEF RemoveParts
    <2>2. Others(p) /\ req'[p] = Idle
      BY <1>7, RemovePartsFacts
    <2>3. req'[p].at \notin {"copy", "drop"}
      BY <2>2 DEF Idle
    <2> QED BY <2>1, <2>2, <2>3, WholeFrame
  <1> QED BY <1>1, <1>2, <1>3, <1>4, <1>5, <1>6, <1>7, <1>8 DEF CompleteOrAbort

\* A sender commits nothing.
LEMMA WholeUpload ==
    ASSUME TypeOK, WholeInv, NEW p \in Procs, UploadPart(p)
    PROVE  WholeInv'
  <1>1. UNCHANGED objects
    BY DEF UploadPart, OpenPart, WriteBlock, StreamFails, RenamePart, RecordPart, RecordPartFails, RemoveTmp
  <1>2. ASSUME NEW s \in SendSteps, Advances(p, s)
        PROVE  Others(p) /\ req'[p].at \notin {"copy", "drop"}
    BY <1>2 DEF Advances, SendSteps
  <1>3. Others(p) /\ req'[p].at \notin {"copy", "drop"}
    <2>1. ASSUME NEW u \in Uploads, NEW n \in Parts, OpenPart(p, u, n)
          PROVE  Others(p) /\ req'[p].at = "write"
      BY <2>1, OpenFacts
    <2>2. CASE WriteBlock(p)
      BY <2>2, WriteFacts
    <2>3. CASE RenamePart(p)
      <3>1. Advances(p, "untmp") \/ Advances(p, "record")
        BY <2>3, RenameFacts
      <3> QED BY <1>2, <3>1 DEF SendSteps
    <2>4. CASE StreamFails(p) \/ RecordPart(p) \/ RecordPartFails(p)
      <3>1. Advances(p, "untmp")
        BY <2>4, SenderFacts
      <3> QED BY <1>2, <3>1 DEF SendSteps
    <2>5. CASE RemoveTmp(p)
      <3>1. Others(p) /\ req'[p] = Idle
        BY <2>5, RemoveTmpFacts
      <3> QED BY <3>1 DEF Idle
    <2> QED BY <2>1, <2>2, <2>3, <2>4, <2>5 DEF UploadPart
  <1> QED BY <1>1, <1>3, WholeFrame

\* Every step.
LEMMA WholeStep ==
    ASSUME TypeOK, FilesWhole, WholeInv, [Next]_vars
    PROVE  WholeInv'
  <1>1. CASE Restart
    BY <1>1 DEF Restart, WholeInv, CopiesWhole, CompletedWhole, Idle
  <1>2. ASSUME NEW u \in Uploads, CreateMultipartUpload(u) PROVE WholeInv'
    BY <1>2 DEF CreateMultipartUpload, WholeInv, CopiesWhole, CompletedWhole
  <1>3. CASE UNCHANGED vars
    BY <1>3 DEF vars, WholeInv, CopiesWhole, CompletedWhole
  <1> QED BY <1>1, <1>2, <1>3, WholeUpload, WholeComplete DEF Next

\* What the theorems below keep of the files.
PartsInv == TypeOK /\ OrphanInv /\ SenderInv /\ ContentInv

\* It holds at the start.
LEMMA PartsInit == Init => PartsInv /\ WholeInv
  <1> SUFFICES ASSUME Init PROVE PartsInv /\ WholeInv
    OBVIOUS
  <1>1. TypeOK
    BY TypeInit
  <1>2. OrphanInv
    BY DEF Init, OrphanInv, TmpSent, FilesOwned, NoParts
  <1>3. SenderInv
    BY DEF Init, SenderInv, OneSender, OwnInode, TmpOwned, Sender, SendSteps, Idle, NoParts
  <1>4. ContentInv
    BY DEF Init, ContentInv, Written, FilesWhole, Idle, NoParts
  <1>5. WholeInv
    BY DEF Init, WholeInv, CopiesWhole, CompletedWhole, Idle
  <1> QED BY <1>1, <1>2, <1>3, <1>4, <1>5 DEF PartsInv

\* Every step keeps it.
LEMMA PartsStep ==
    ASSUME ~Retries, PartsInv, [Next]_vars
    PROVE  PartsInv'
  BY TypeStep, OrphanStep, SenderStep, ContentStep DEF PartsInv

\* While a part is sent again only after its last attempt has ended, an object
\* is put together from whole parts (local.go:521-672).
THEOREM MultipartCompletesWhole ==
    ASSUME ~Retries
    PROVE  Spec => []CompletedWhole
  <1>1. PartsInv /\ WholeInv /\ [Next]_vars => (PartsInv /\ WholeInv)'
    BY PartsStep, WholeStep DEF PartsInv, ContentInv
  <1>2. WholeInv => CompletedWhole
    BY DEF WholeInv
  <1> QED BY <1>1, <1>2, PartsInit, PTL DEF Spec

-----------------------------------------------------------------------------
(***************************************************************************)
(* Records.  A recorded part has its file, but for the moment in which a   *)
(* sender has put a new file there and not yet its record.                 *)
(***************************************************************************)
Recording(p, u, n) == req[p].at = "record" /\ req[p].u = u /\ req[p].n = n
Kept(u, n) == <<u, n>> \notin unkept

KnownUploads ==
    /\ live \subseteq created
    /\ \A p \in Procs : req[p].at # "idle" => req[p].u \in created
    /\ \A p \in Procs : req[p].at = "rmdir" => req[p].u \notin live \ emptied
    /\ \A u \in Uploads, n \in Parts : recorded[u][n] # None => u \in live

FilesMatch ==
    \A u \in live \ emptied, n \in Parts :
        /\ \A p \in Procs : Recording(p, u, n) => files[u][n] = req[p].c
        /\ recorded[u][n] # None /\ Kept(u, n) /\ (\A p \in Procs : ~Recording(p, u, n)) =>
              files[u][n] = recorded[u][n]

\* A step that makes or drops no upload.
LEMMA KnownFrame ==
    ASSUME KnownUploads, NEW p \in Procs, Others(p), UNCHANGED <<live, created>>, emptied \subseteq emptied',
           req'[p].at # "idle" => req'[p].u \in created,
           req'[p].at = "rmdir" => req'[p].u \notin live \ emptied',
           \A u \in Uploads, n \in Parts : recorded'[u][n] # None => recorded[u][n] # None \/ u \in live
    PROVE  KnownUploads'
  BY DEF KnownUploads, Others

\* An upload is dropped.
LEMMA KnownDrop ==
    ASSUME TypeOK, KnownUploads, NEW p \in Procs, NEW u \in Uploads, Drops(p, u), u \in created, UNCHANGED <<created, emptied>>
    PROVE  KnownUploads'
  <1>0. recorded \in Names
    BY DEF TypeOK
  <1>1. /\ Others(p) /\ req'[p].at = "rmdir" /\ req'[p].u = u
        /\ live' = live \ {u} /\ recorded' = [recorded EXCEPT ![u] = NoParts]
    BY DEF Drops
  <1>2. \A a \in Uploads, b \in Parts : recorded'[a][b] # None => recorded[a][b] # None /\ a # u
    BY <1>0, <1>1 DEF Names, NoParts
  <1> QED BY <1>1, <1>2 DEF KnownUploads, Others

\* Every step of a sender.
LEMMA KnownUpload ==
    ASSUME TypeOK, KnownUploads, NEW p \in Procs, UploadPart(p)
    PROVE  KnownUploads'
  <1>0. recorded \in Names
    BY DEF TypeOK
  <1>1. ASSUME NEW s \in SendSteps, Advances(p, s), UNCHANGED <<live, created, emptied>>,
               \A u \in Uploads, n \in Parts : recorded'[u][n] # None => recorded[u][n] # None \/ u \in live
        PROVE  KnownUploads'
    <2>1. /\ Others(p) /\ req[p].at # "idle" /\ req'[p].at \in SendSteps /\ req'[p].u = req[p].u
      BY <1>1 DEF Advances, SendRequests, SendSteps
    <2>2. req'[p].u \in created /\ req'[p].at # "rmdir"
      BY <2>1 DEF KnownUploads, SendSteps
    <2> QED BY <1>1, <2>1, <2>2, KnownFrame
  <1>2. ASSUME NEW u \in Uploads, NEW n \in Parts, OpenPart(p, u, n) PROVE KnownUploads'
    <2>1. UNCHANGED <<live, created, recorded, emptied>> /\ u \in created
      BY <1>2 DEF OpenPart, tables, history
    <2>2. Others(p) /\ req'[p].at = "write" /\ req'[p].u = u
      BY <1>2, OpenFacts
    <2> QED BY <2>1, <2>2, KnownFrame
  <1>3. CASE WriteBlock(p)
    <2>1. UNCHANGED <<live, created, recorded, emptied>>
      BY <1>3 DEF WriteBlock, tables, history
    <2>2. Others(p) /\ req[p].at = "write" /\ req'[p].at = "write" /\ req'[p].u = req[p].u
      BY <1>3, WriteFacts
    <2>3. req'[p].u \in created
      BY <2>2 DEF KnownUploads
    <2> QED BY <2>1, <2>2, <2>3, KnownFrame
  <1>4. CASE RenamePart(p)
    <2>1. UNCHANGED <<live, created, recorded, emptied>>
      BY <1>4 DEF RenamePart, tables, history
    <2>2. Advances(p, "untmp") \/ Advances(p, "record")
      BY <1>4, RenameFacts
    <2> QED BY <1>1, <2>1, <2>2 DEF SendSteps
  <1>5. CASE StreamFails(p) \/ RecordPartFails(p)
    <2>1. UNCHANGED <<live, created, recorded, emptied>>
      BY <1>5 DEF StreamFails, RecordPartFails, tables, history
    <2>2. Advances(p, "untmp")
      BY <1>5, SenderFacts
    <2> QED BY <1>1, <2>1, <2>2 DEF SendSteps
  <1>6. CASE RecordPart(p)
    <2>1. /\ UNCHANGED <<live, created, emptied>> /\ req[p].u \in live
          /\ recorded' = [recorded EXCEPT ![req[p].u][req[p].n] = req[p].c]
      BY <1>6 DEF RecordPart, PutObjectPart, history
    <2>2. Advances(p, "untmp") /\ req[p].u \in Uploads /\ req[p].n \in Parts
      BY <1>6, SenderFacts
    <2>3. \A u \in Uploads, n \in Parts : recorded'[u][n] # None => recorded[u][n] # None \/ u \in live
      BY <1>0, <2>1, <2>2 DEF Names
    <2> QED BY <1>1, <2>1, <2>2, <2>3 DEF SendSteps
  <1>7. CASE RemoveTmp(p)
    <2>1. UNCHANGED <<live, created, recorded, emptied>>
      BY <1>7 DEF RemoveTmp, tables, history
    <2>2. Others(p) /\ req'[p] = Idle
      BY <1>7, RemoveTmpFacts
    <2>3. req'[p].at = "idle"
      BY <2>2 DEF Idle
    <2> QED BY <2>1, <2>2, <2>3, KnownFrame
  <1> QED BY <1>2, <1>3, <1>4, <1>5, <1>6, <1>7 DEF UploadPart

\* Every step of a completion or an abort.
LEMMA KnownComplete ==
    ASSUME TypeOK, KnownUploads, NEW p \in Procs, CompleteOrAbort(p)
    PROVE  KnownUploads'
  <1>1. ASSUME NEW u \in Uploads, NEW listed \in SUBSET Parts, BeginComplete(p, u, listed) PROVE KnownUploads'
    <2>1. UNCHANGED <<live, created, recorded, emptied>>
      BY <1>1 DEF BeginComplete, tables, history
    <2>2. Others(p) /\ req'[p].at = "copy" /\ req'[p].u = u /\ u \in live
      BY <1>1, BeginFacts
    <2>3. u \in created
      BY <2>2 DEF KnownUploads
    <2> QED BY <2>1, <2>2, <2>3, KnownFrame
  <1>2. CASE CopyPart(p)
    <2>1. UNCHANGED <<live, created, recorded, emptied>>
      BY <1>2 DEF CopyPart, tables, history
    <2>2. /\ Others(p) /\ req[p].at = "copy"
          /\ req'[p] = Idle \/ (req'[p].at = "copy" /\ req'[p].u = req[p].u)
      BY <1>2, CopyFacts
    <2>3. req'[p].at = "idle" \/ (req'[p].at = "copy" /\ req'[p].u \in created)
      BY <2>2 DEF Idle, KnownUploads
    <2> QED BY <2>1, <2>2, <2>3, KnownFrame
  <1>3. CASE CommitObject(p)
    <2>1. UNCHANGED <<live, created, recorded, emptied>>
      BY <1>3 DEF CommitObject, tables, history
    <2>2. Others(p) /\ req[p].at = "copy" /\ req'[p].at = "drop" /\ req'[p].u = req[p].u
      BY <1>3, CommitFacts
    <2>3. req'[p].u \in created
      BY <2>2 DEF KnownUploads
    <2> QED BY <2>1, <2>2, <2>3, KnownFrame
  <1>4. CASE CompleteFails(p)
    <2>1. UNCHANGED <<live, created, recorded, emptied>>
      BY <1>4 DEF CompleteFails, tables, history
    <2>2. Others(p) /\ req'[p] = Idle
      BY <1>4, CompleteFailsFacts
    <2>3. req'[p].at = "idle"
      BY <2>2 DEF Idle
    <2> QED BY <2>1, <2>2, <2>3, KnownFrame
  <1>5. CASE DropUpload(p)
    <2>1. UNCHANGED <<created, emptied>>
      BY <1>5 DEF DropUpload, history
    <2>2. Drops(p, req[p].u) /\ req[p].at = "drop"
      BY <1>5, DropFacts
    <2>3. req[p].u \in created
      BY <2>2 DEF KnownUploads
    <2>4. req[p].u \in Uploads
      BY <2>2 DEF Drops
    <2> QED BY <2>1, <2>2, <2>3, <2>4, KnownDrop
  <1>6. ASSUME NEW u \in Uploads, AbortMultipartUpload(p, u) PROVE KnownUploads'
    <2>1. UNCHANGED <<created, emptied>>
      BY <1>6 DEF AbortMultipartUpload
    <2>2. Drops(p, u) /\ u \in live
      BY <1>6, DropFacts
    <2>3. u \in created
      BY <2>2 DEF KnownUploads
    <2> QED BY <2>1, <2>2, <2>3, KnownDrop
  <1>7. CASE RemoveParts(p)
    <2>1. UNCHANGED <<live, created, recorded, emptied>>
      BY <1>7 DEF RemoveParts, tables, history
    <2>2. Others(p) /\ req'[p] = Idle
      BY <1>7, RemovePartsFacts
    <2>3. req'[p].at = "idle"
      BY <2>2 DEF Idle
    <2> QED BY <2>1, <2>2, <2>3, KnownFrame
  <1>8. CASE DropFails(p)
    <2>1. /\ UNCHANGED <<live, created, recorded>> /\ emptied' = emptied \cup {req[p].u}
          /\ Others(p) /\ req[p].at = "drop" /\ req'[p].at = "rmdir" /\ req'[p].u = req[p].u
      BY <1>8, DropFailsFacts
    <2>2. req'[p].u \in created
      BY <2>1 DEF KnownUploads
    <2> QED BY <2>1, <2>2, KnownFrame
  <1> QED BY <1>1, <1>2, <1>3, <1>4, <1>5, <1>6, <1>7, <1>8 DEF CompleteOrAbort

\* Every step.
LEMMA KnownStep ==
    ASSUME TypeOK, KnownUploads, [Next]_vars
    PROVE  KnownUploads'
  <1>1. CASE Restart
    BY <1>1 DEF Restart, KnownUploads, Idle, tables
  <1>2. ASSUME NEW u \in Uploads, CreateMultipartUpload(u) PROVE KnownUploads'
    BY <1>2 DEF CreateMultipartUpload, KnownUploads
  <1>3. CASE UNCHANGED vars
    BY <1>3 DEF vars, tables, history, KnownUploads
  <1> QED BY <1>1, <1>2, <1>3, KnownUpload, KnownComplete DEF Next

\* A step that records and renames nothing in an upload that can be completed.
LEMMA MatchFrame ==
    ASSUME FilesMatch, NEW p \in Procs, Others(p), UNCHANGED unkept, emptied \subseteq emptied', live' \subseteq live,
           \A u \in Uploads, n \in Parts : ~Recording(p, u, n) /\ ~(Recording(p, u, n))',
           \A u \in live' \ emptied', n \in Parts :
              files'[u][n] = files[u][n] /\ recorded'[u][n] = recorded[u][n],
           live \subseteq Uploads
    PROVE  FilesMatch'
  <1> SUFFICES ASSUME NEW u \in live' \ emptied', NEW n \in Parts
               PROVE  /\ \A q \in Procs : (Recording(q, u, n))' => files'[u][n] = req'[q].c
                      /\ recorded'[u][n] # None /\ (Kept(u, n))' /\ (\A q \in Procs : ~(Recording(q, u, n))') =>
                            files'[u][n] = recorded'[u][n]
    BY DEF FilesMatch
  <1>1. u \in Uploads /\ u \in live \ emptied
    OBVIOUS
  <1>2. \A q \in Procs : (Recording(q, u, n))' <=> Recording(q, u, n)
    BY <1>1 DEF Others, Recording
  <1>3. \A q \in Procs : Recording(q, u, n) => q # p /\ req'[q] = req[q]
    BY <1>1 DEF Others
  <1> QED BY <1>1, <1>2, <1>3 DEF FilesMatch, Kept

\* The steps of a sender.
LEMMA MatchUpload ==
    ASSUME TypeOK, SenderInv, ContentInv, FilesMatch, NEW p \in Procs, UploadPart(p)
    PROVE  FilesMatch'
  <1>0. recorded \in Names /\ files \in Names /\ live \subseteq Uploads
    BY DEF TypeOK
  <1>1. ASSUME NEW u \in Uploads, NEW n \in Parts, OpenPart(p, u, n) PROVE FilesMatch'
    <2>1. UNCHANGED <<live, recorded, files, emptied, unkept>>
      BY <1>1 DEF OpenPart, tables, history
    <2>2. Others(p) /\ req[p] = Idle /\ req'[p].at = "write"
      BY <1>1, OpenFacts
    <2>3. \A a \in Uploads, b \in Parts : ~Recording(p, a, b) /\ ~(Recording(p, a, b))'
      BY <2>2 DEF Recording, Idle
    <2> QED BY <1>0, <2>1, <2>2, <2>3, MatchFrame
  <1>2. CASE WriteBlock(p)
    <2>1. UNCHANGED <<live, recorded, files, emptied, unkept>>
      BY <1>2 DEF WriteBlock, tables, history
    <2>2. Others(p) /\ req[p].at = "write" /\ req'[p].at = "write"
      BY <1>2, WriteFacts
    <2>3. \A a \in Uploads, b \in Parts : ~Recording(p, a, b) /\ ~(Recording(p, a, b))'
      BY <2>2 DEF Recording
    <2> QED BY <1>0, <2>1, <2>2, <2>3, MatchFrame
  <1>3. CASE StreamFails(p)
    <2>1. UNCHANGED <<live, recorded, files, emptied, unkept>> /\ req[p].at = "write"
      BY <1>3 DEF StreamFails, tables, disk, history
    <2>2. Advances(p, "untmp")
      BY <1>3, SenderFacts
    <2>3. Others(p) /\ req'[p].at = "untmp"
      BY <2>2 DEF Advances
    <2>4. \A a \in Uploads, b \in Parts : ~Recording(p, a, b) /\ ~(Recording(p, a, b))'
      BY <2>1, <2>3 DEF Recording
    <2> QED BY <1>0, <2>1, <2>3, <2>4, MatchFrame
  <1>4. CASE RemoveTmp(p)
    <2>1. UNCHANGED <<live, recorded, files, emptied, unkept>>
      BY <1>4 DEF RemoveTmp, tables, history
    <2>2. Others(p) /\ req[p].at = "untmp" /\ req'[p] = Idle
      BY <1>4, RemoveTmpFacts
    <2>3. \A a \in Uploads, b \in Parts : ~Recording(p, a, b) /\ ~(Recording(p, a, b))'
      BY <2>2 DEF Recording, Idle
    <2> QED BY <1>0, <2>1, <2>2, <2>3, MatchFrame
  <1>5. CASE RenamePart(p)
    <2>1. UNCHANGED <<live, recorded, emptied, unkept>>
      BY <1>5 DEF RenamePart, tables, history
    <2>2. req[p].at = "write" /\ req[p].u \in Uploads /\ req[p].n \in Parts
      BY <1>5, RenameFacts
    <2>3. CASE Advances(p, "untmp") /\ UNCHANGED <<tmp, files>>
      <3>1. Others(p) /\ req'[p].at = "untmp"
        BY <2>3 DEF Advances
      <3>2. \A a \in Uploads, b \in Parts : ~Recording(p, a, b) /\ ~(Recording(p, a, b))'
        BY <2>2, <3>1 DEF Recording
      <3> QED BY <1>0, <2>1, <2>3, <3>1, <3>2, MatchFrame
    <2>4. CASE /\ Advances(p, "record")
               /\ tmp[req[p].u][req[p].n] \in Attempts
               /\ files' = [files EXCEPT ![req[p].u][req[p].n] = tmp[req[p].u][req[p].n]]
      <3>1. files' = [files EXCEPT ![req[p].u][req[p].n] = req[p].c]
        BY <1>5, <2>4, RenamedOwn DEF ContentInv
      <3>2. /\ Others(p) /\ req'[p].at = "record" /\ req'[p].u = req[p].u
            /\ req'[p].n = req[p].n /\ req'[p].c = req[p].c
        BY <2>4 DEF Advances
      <3> SUFFICES ASSUME NEW u \in live \ emptied, NEW n \in Parts
                   PROVE  /\ \A q \in Procs : (Recording(q, u, n))' => files'[u][n] = req'[q].c
                          /\ recorded[u][n] # None /\ (Kept(u, n))' /\ (\A q \in Procs : ~(Recording(q, u, n))') =>
                                files'[u][n] = recorded[u][n]
        BY <2>1 DEF FilesMatch
      <3>3. u \in Uploads
        BY <1>0
      <3>4. CASE u = req[p].u /\ n = req[p].n
        <4>1. files'[u][n] = req[p].c
          BY <1>0, <2>2, <3>1, <3>4 DEF Names
        <4>2. (Recording(p, u, n))'
          BY <3>2, <3>4 DEF Recording
        <4>3. ASSUME NEW q \in Procs, (Recording(q, u, n))', q # p PROVE FALSE
          <5>1. req'[q] = req[q]
            BY <3>2, <4>3 DEF Others
          <5>2. Sender(q) /\ Sender(p) /\ req[q].u = req[p].u /\ req[q].n = req[p].n
            BY <2>2, <3>4, <4>3, <5>1 DEF Recording, Sender, SendSteps
          <5> QED BY <4>3, <5>2 DEF SenderInv, OneSender
        <4> QED BY <3>2, <4>1, <4>2, <4>3
      <3>5. CASE u # req[p].u \/ n # req[p].n
        <4>1. files'[u][n] = files[u][n]
          BY <1>0, <2>2, <3>1, <3>3, <3>5 DEF Names
        <4>2. ~Recording(p, u, n) /\ ~(Recording(p, u, n))'
          BY <2>2, <3>2, <3>5 DEF Recording
        <4>3. \A q \in Procs : /\ (Recording(q, u, n))' <=> Recording(q, u, n)
                               /\ Recording(q, u, n) => req'[q] = req[q]
          BY <3>2, <4>2 DEF Others, Recording
        <4> QED BY <2>1, <4>1, <4>3 DEF FilesMatch, Kept
      <3> QED BY <3>4, <3>5
    <2> QED BY <1>5, <2>3, <2>4, RenameFacts
  <1>6. CASE RecordPart(p)
    <2>1. /\ UNCHANGED <<live, files, emptied>> /\ unkept' = unkept \ {<<req[p].u, req[p].n>>}
          /\ req[p].at = "record" /\ req[p].u \in live
          /\ recorded' = [recorded EXCEPT ![req[p].u][req[p].n] = req[p].c]
      BY <1>6 DEF RecordPart, PutObjectPart, disk, history
    <2>2. Advances(p, "untmp") /\ req[p].u \in Uploads /\ req[p].n \in Parts
      BY <1>6, SenderFacts
    <2>3. Others(p) /\ req'[p].at = "untmp"
      BY <2>2 DEF Advances
    <2> SUFFICES ASSUME NEW u \in live \ emptied, NEW n \in Parts
                 PROVE  /\ \A q \in Procs : (Recording(q, u, n))' => files[u][n] = req'[q].c
                        /\ recorded'[u][n] # None /\ (Kept(u, n))' /\ (\A q \in Procs : ~(Recording(q, u, n))') =>
                              files[u][n] = recorded'[u][n]
      BY <2>1 DEF FilesMatch
    <2>4. ~(Recording(p, u, n))'
      BY <2>3 DEF Recording
    <2>5. \A q \in Procs \ {p} : /\ (Recording(q, u, n))' <=> Recording(q, u, n)
                                 /\ req'[q] = req[q]
      BY <2>3 DEF Others, Recording
    <2>6. CASE u = req[p].u /\ n = req[p].n
      <3>1. recorded'[u][n] = req[p].c
        BY <1>0, <2>1, <2>2, <2>6 DEF Names
      <3>2. Recording(p, u, n)
        BY <2>1, <2>6 DEF Recording
      <3>3. files[u][n] = req[p].c
        BY <3>2 DEF FilesMatch
      <3>4. \A q \in Procs : (Recording(q, u, n))' => files[u][n] = req'[q].c
        BY <2>4, <2>5 DEF FilesMatch
      <3> QED BY <3>1, <3>3, <3>4
    <2>7. CASE u # req[p].u \/ n # req[p].n
      <3>1. recorded'[u][n] = recorded[u][n]
        BY <1>0, <2>1, <2>2, <2>7 DEF Names
      <3>2. ~Recording(p, u, n)
        BY <2>7 DEF Recording
      <3>3. (Kept(u, n))' => Kept(u, n)
        BY <2>1, <2>7 DEF Kept
      <3> QED BY <2>4, <2>5, <3>1, <3>2, <3>3 DEF FilesMatch
    <2> QED BY <2>6, <2>7
  <1>7. CASE RecordPartFails(p)
    <2>1. /\ UNCHANGED <<live, recorded, emptied>> /\ unkept' = unkept \cup {<<req[p].u, req[p].n>>}
          /\ req[p].at = "record"
          /\ files' = [files EXCEPT ![req[p].u][req[p].n] = None]
      BY <1>7 DEF RecordPartFails, tables, history
    <2>2. Advances(p, "untmp") /\ req[p].u \in Uploads /\ req[p].n \in Parts
      BY <1>7, SenderFacts
    <2>3. Others(p) /\ req'[p].at = "untmp"
      BY <2>2 DEF Advances
    <2> SUFFICES ASSUME NEW u \in live \ emptied, NEW n \in Parts
                 PROVE  /\ \A q \in Procs : (Recording(q, u, n))' => files'[u][n] = req'[q].c
                        /\ recorded[u][n] # None /\ (Kept(u, n))' /\ (\A q \in Procs : ~(Recording(q, u, n))') =>
                              files'[u][n] = recorded[u][n]
      BY <2>1 DEF FilesMatch
    <2>4. u \in Uploads
      BY <1>0
    <2>5. \A q \in Procs \ {p} : /\ (Recording(q, u, n))' <=> Recording(q, u, n)
                                 /\ req'[q] = req[q]
      BY <2>3 DEF Others, Recording
    <2>6. ~(Recording(p, u, n))'
      BY <2>3 DEF Recording
    <2>7. CASE u = req[p].u /\ n = req[p].n
      <3>1. ~(Kept(u, n))'
        BY <2>1, <2>7 DEF Kept
      <3>2. ASSUME NEW q \in Procs \ {p}, Recording(q, u, n) PROVE FALSE
        <4>1. Sender(q) /\ Sender(p) /\ req[q].u = req[p].u /\ req[q].n = req[p].n
          BY <2>1, <2>7, <3>2 DEF Recording, Sender, SendSteps
        <4> QED BY <4>1 DEF SenderInv, OneSender
      <3> QED BY <2>5, <2>6, <3>1, <3>2
    <2>8. CASE u # req[p].u \/ n # req[p].n
      <3>1. files'[u][n] = files[u][n]
        BY <1>0, <2>1, <2>2, <2>4, <2>8 DEF Names
      <3>2. ~Recording(p, u, n)
        BY <2>8 DEF Recording
      <3>3. (Kept(u, n))' => Kept(u, n)
        BY <2>1 DEF Kept
      <3> QED BY <2>5, <2>6, <3>1, <3>2, <3>3 DEF FilesMatch
    <2> QED BY <2>7, <2>8
  <1> QED BY <1>1, <1>2, <1>3, <1>4, <1>5, <1>6, <1>7 DEF UploadPart

\* The steps of a completion or an abort: a directory is removed of an upload
\* that is gone.
LEMMA MatchComplete ==
    ASSUME TypeOK, KnownUploads, FilesMatch, NEW p \in Procs, CompleteOrAbort(p)
    PROVE  FilesMatch'
  <1>0. recorded \in Names /\ live \subseteq Uploads
    BY DEF TypeOK
  <1>1. UNCHANGED unkept /\ emptied \subseteq emptied'
    BY DEF CompleteOrAbort, BeginComplete, AbortMultipartUpload, CopyPart, CommitObject, CompleteFails,
           DropUpload, DropFails, RemoveParts, history
  <1>2. /\ ~Sender(p) /\ ~(Sender(p))' /\ Others(p)
        /\ \A u \in Uploads, n \in Parts : files'[u][n] # files[u][n] => req[p].at = "rmdir" /\ req[p].u = u
    BY OthersFacts
  <1>3. \A u \in Uploads, n \in Parts : ~Recording(p, u, n) /\ ~(Recording(p, u, n))'
    BY <1>2 DEF Recording, Sender, SendSteps
  <1>4. \A u \in live \ emptied, n \in Parts : files'[u][n] = files[u][n]
    BY <1>0, <1>2 DEF KnownUploads
  <1>5. ASSUME NEW u \in Uploads, Drops(p, u)
        PROVE  /\ live' \subseteq live
               /\ \A a \in live', n \in Parts : recorded'[a][n] = recorded[a][n]
    <2>1. live' = live \ {u} /\ recorded' = [recorded EXCEPT ![u] = NoParts]
      BY <1>5 DEF Drops
    <2>2. \A a \in Uploads, n \in Parts : a # u => recorded'[a][n] = recorded[a][n]
      BY <1>0, <2>1 DEF Names
    <2> QED BY <1>0, <2>1, <2>2
  <1>6. /\ live' \subseteq live
        /\ \A a \in live', n \in Parts : recorded'[a][n] = recorded[a][n]
    <2>1. CASE DropUpload(p)
      <3>1. Drops(p, req[p].u)
        BY <2>1, DropFacts
      <3>2. req[p].u \in Uploads
        BY <3>1 DEF Drops
      <3> QED BY <1>5, <3>1, <3>2
    <2>2. ASSUME NEW u \in Uploads, AbortMultipartUpload(p, u)
          PROVE  live' \subseteq live /\ \A a \in live', n \in Parts : recorded'[a][n] = recorded[a][n]
      <3>1. Drops(p, u)
        BY <2>2, DropFacts
      <3> QED BY <1>5, <3>1
    <2>3. ASSUME NEW u \in Uploads, NEW listed \in SUBSET Parts, BeginComplete(p, u, listed)
          PROVE  UNCHANGED <<live, recorded>>
      BY <2>3 DEF BeginComplete, tables
    <2>4. CASE CopyPart(p) \/ CommitObject(p) \/ CompleteFails(p) \/ RemoveParts(p)
      <3>1. UNCHANGED <<live, recorded>>
        BY <2>4 DEF CopyPart, CommitObject, CompleteFails, RemoveParts, tables
      <3> QED BY <3>1
    <2>5. CASE DropFails(p)
      BY <2>5, DropFailsFacts
    <2> QED BY <2>1, <2>2, <2>3, <2>4, <2>5 DEF CompleteOrAbort
  <1>7. \A u \in live' \ emptied', n \in Parts :
           files'[u][n] = files[u][n] /\ recorded'[u][n] = recorded[u][n]
    BY <1>1, <1>4, <1>6
  <1> QED BY <1>0, <1>1, <1>2, <1>3, <1>6, <1>7, MatchFrame

\* Every step.
LEMMA MatchStep ==
    ASSUME PartsInv, KnownUploads, FilesMatch, [Next]_vars
    PROVE  FilesMatch'
  <1>0. TypeOK /\ SenderInv /\ ContentInv
    BY DEF PartsInv
  <1>1. CASE Restart
    <2>1. live' = live /\ emptied' = emptied \cup live
      BY <1>1 DEF Restart, tables
    <2> QED BY <2>1 DEF FilesMatch
  <1>2. ASSUME NEW u \in Uploads, CreateMultipartUpload(u) PROVE FilesMatch'
    <2>1. /\ u \notin created /\ live' = live \cup {u}
          /\ UNCHANGED <<recorded, files, req, emptied, unkept>>
      BY <1>2 DEF CreateMultipartUpload, disk
    <2>2. \A n \in Parts, p \in Procs : ~Recording(p, u, n)
      BY <2>1 DEF KnownUploads, Recording
    <2>3. \A n \in Parts : recorded[u][n] = None
      BY <2>1 DEF KnownUploads
    <2>4. \A v \in Uploads, n \in Parts : (Kept(v, n))' <=> Kept(v, n)
      BY <2>1 DEF Kept
    <2>5. live \subseteq Uploads
      BY <1>0 DEF TypeOK
    <2> QED BY <2>1, <2>2, <2>3, <2>4, <2>5 DEF FilesMatch, Recording
  <1>3. CASE UNCHANGED vars
    <2>1. UNCHANGED <<live, recorded, files, req, emptied, unkept>>
      BY <1>3 DEF vars, tables, disk, history
    <2>2. \A u \in Uploads, n \in Parts : (Kept(u, n))' <=> Kept(u, n)
      BY <2>1 DEF Kept
    <2>3. live \subseteq Uploads
      BY <1>0 DEF TypeOK
    <2> QED BY <2>1, <2>2, <2>3 DEF FilesMatch, Recording
  <1> QED BY <1>0, <1>1, <1>2, <1>3, MatchUpload, MatchComplete DEF Next

\* While a part is sent again only after its last attempt has ended, what
\* ListParts shows of an upload is on the disk, whole, with the recorded ETag,
\* but for a part whose last attempt could not be recorded and an upload that a
\* restart, or a completion that failed to drop it, has emptied
\* (local.go:521-578, 663-667).
THEOREM MultipartPartsReadable ==
    ASSUME ~Retries
    PROVE  Spec => []PartsReadable
  <1>1. Init => KnownUploads /\ FilesMatch
    BY DEF Init, KnownUploads, FilesMatch, Idle, NoParts
  <1>2. PartsInv /\ KnownUploads /\ FilesMatch /\ [Next]_vars => (PartsInv /\ KnownUploads /\ FilesMatch)'
    <2>1. PartsInv => TypeOK
      BY DEF PartsInv
    <2> QED BY <2>1, PartsStep, KnownStep, MatchStep
  <1>3. PartsInv /\ FilesMatch => PartsReadable
    <2> SUFFICES ASSUME PartsInv, FilesMatch, NEW u \in live \ emptied, NEW n \in Parts,
                        recorded[u][n] # None, ~Sending(u, n), <<u, n>> \notin unkept
                 PROVE  files[u][n] # None /\ data[files[u][n]] = Whole(recorded[u][n])
      BY DEF PartsReadable
    <2>1. \A p \in Procs : ~Recording(p, u, n)
      BY DEF Sending, Recording
    <2>2. files[u][n] = recorded[u][n]
      BY <2>1 DEF FilesMatch, Kept
    <2>3. u \in Uploads
      BY DEF PartsInv, TypeOK
    <2> QED BY <2>2, <2>3 DEF PartsInv, ContentInv, FilesWhole
  <1> QED BY <1>1, <1>2, <1>3, PartsInit, PTL DEF Spec

=============================================================================
