------------------------------ MODULE Listing ------------------------------
(***************************************************************************)
(* A caller who walks through a bucket page by page while others write and *)
(* delete: the client library (client/list.go), anyone who follows the     *)
(* markers of the version and part listings, and the folder download of    *)
(* the console (internal/handler/admin_buckets.go).  Each page is a read   *)
(* transaction of its own; only the markers connect them.                  *)
(***************************************************************************)
EXTENDS Pages

CONSTANTS DefaultPage,  \* rows of a page unless the request says otherwise
          PageSizes,    \* the max-keys that requests ask for
          PartNumbers,
          NullVid,      \* the version id "null"
          Tables(_),    \* the versions a bucket may have at the start of a listing
          MaxVersions,  \* bound on the versions of a key
          MaxWrites     \* bound on the changes during the listing

\* Every key with a version has a head (VersionIndex, NoHiddenVersions).
Objects(t) == {n \in Names : t[n] # {}}

\* What walks through pages.
Walks == {"ListObjects", "ListObjectsV2", "console", "versions"}
Kinds == Walks \cup {"zip"}

ASSUME PageAssumption ==
    /\ DefaultPage \in Nat \ {0} /\ PageSizes \subseteq Int
    /\ PartNumbers \subseteq Nat \ {0} /\ IsFiniteSet(PartNumbers)
    /\ MaxWrites \in Nat

\* A version found at the start is older than any written since; ids are
\* random but for the empty one and "null", and no two records of a key have
\* the same id or the same time.
ASSUME TablesAssumption ==
    /\ NoVid \in Int \ (1..MaxWrites)
    /\ NullVid \in Int \ (1..MaxWrites) /\ NullVid # NoVid
    /\ \A kind \in Kinds : \A t \in Tables(kind) :
        /\ t \in [Names -> SUBSET [vid : Int, modified : Int]]
        /\ IsFiniteSet(Objects(t))
        /\ \A n \in Names :
            /\ IsFiniteSet(t[n])
            /\ \A v \in t[n] : v.modified <= 0 /\ v.vid \notin 1..MaxWrites
            /\ \A v, w \in t[n] : v.vid = w.vid \/ v.modified = w.modified => v = w

VARIABLES versions,     \* the bucket: for each key its versions
          parts,        \* an upload: the numbers of its parts
          writes,       \* number of changes so far; the time stamp of a write
          job,          \* what is listed
          pc,           \* "page", "fetch" (of an object for the zip), "done"
          marker,       \* key marker, part marker or continuation token
          vidMarker,    \* version id marker
          todo,         \* the keys of the page that the zip still lacks
          listed,       \* the rows the caller got, or the objects in the zip
          again,        \* those it got more than once
          stayed,       \* what was there from the beginning until now
          passed,       \* keys whose marker version was gone by the next page
          renewed,      \* keys whose marker version was written anew
          cut           \* the caller gave up, or got an error

table == <<versions, parts, writes>>
progress == <<pc, marker, vidMarker, todo, listed, again, passed, cut>>
vars == <<versions, parts, writes, job, pc, marker, vidMarker, todo, listed, again,
          stayed, passed, renewed, cut>>

\* All that a listing of this kind could show.
Present(kind, t, p) ==
    CASE kind = "versions" ->
            UNION {{[key |-> n, vid |-> v.vid, modified |-> v.modified] : v \in t[n]}
                   : n \in Names}
      [] kind = "parts" -> {ObjectRow(n) : n \in p}
      [] OTHER -> {ObjectRow(n) : n \in Objects(t)}

Folders == {Folder[n] : n \in Names} \ {Empty}

\* The client library and the folder download do not ask for a page size.
Jobs ==
    LET Job(kinds, prefixes, delimiters, asked) ==
            [kind : kinds, prefix : prefixes, delimiter : delimiters, asked : asked]
    IN  Job(Walks, {Empty} \cup Folders, {FALSE}, PageSizes)
        \cup Job(Walks, {Empty}, {TRUE}, PageSizes)
        \cup Job({"parts"}, {Empty}, {FALSE}, PageSizes)
        \cup Job({"zip"}, Folders, {FALSE}, {Empty})

Init ==
    /\ job \in Jobs
    /\ versions \in IF job.kind = "parts" THEN {[n \in Names |-> {}]} ELSE Tables(job.kind)
    /\ parts \in IF job.kind = "parts" THEN SUBSET PartNumbers ELSE {{}}
    /\ writes = 0
    /\ pc = "page"
    /\ marker = Empty /\ vidMarker = NoVid
    /\ todo = {} /\ listed = {} /\ again = {}
    /\ stayed = Present(job.kind, versions, parts)
    /\ passed = {} /\ renewed = {} /\ cut = FALSE

-----------------------------------------------------------------------------
(***************************************************************************)
(* The others.                                                             *)
(***************************************************************************)
Changed(t, p) ==
    /\ pc # "done" /\ writes < MaxWrites
    /\ writes' = writes + 1
    /\ versions' = t
    /\ parts' = p
    /\ stayed' = stayed \cap Present(job.kind, t, p)
    /\ UNCHANGED <<job, pc, marker, vidMarker, todo, listed, again, passed, cut>>

\* Slip: the record that had the version id stays.
ReplacedKept(S, v) == S \cup {v}

Replaced(S, v) == {w \in S : w.vid # v.vid} \cup {v}

\* A write, of an object or a delete marker, with a version id of its own, with
\* the empty one, or with the "null" of a suspended bucket.  Ids are random; the
\* number of the write stands for one.
PutObject(n, vid) ==
    LET v == [vid |-> vid, modified |-> writes + 1]
    IN  /\ Cardinality(Replaced(versions[n], v)) <= MaxVersions
        /\ Changed([versions EXCEPT ![n] = Replaced(@, v)], parts)
        /\ renewed' = IF n = marker /\ vid = vidMarker /\ vid # NoVid
                      THEN renewed \cup {n} ELSE renewed

DeleteVersion(n, v) == Changed([versions EXCEPT ![n] = @ \ {v}], parts) /\ UNCHANGED renewed

PutPart(n) == Changed(versions, parts \cup {n}) /\ UNCHANGED renewed

Others ==
    \/ /\ job.kind # "parts"
       /\ \E n \in Names :
            \/ \E vid \in {NoVid, NullVid, writes + 1} : PutObject(n, vid)
            \/ \E v \in versions[n] : DeleteVersion(n, v)
    \/ job.kind = "parts" /\ \E n \in PartNumbers : PutPart(n)

-----------------------------------------------------------------------------
(***************************************************************************)
(* The caller.                                                             *)
(***************************************************************************)
Receive(rows) ==
    /\ listed' = listed \cup rows
    /\ again' = again \cup (listed \cap rows)

\* max-keys, max-parts: what is no positive number counts as absent.
PageSize(asked) == IF asked > 0 THEN asked ELSE DefaultPage

\* The backend calls a page truncated when it has a marker for the next.
BackendListObjects(prefix, delimiter, from, size) ==
    LET page == ListObjects(Objects(versions), prefix, delimiter, from, size)
    IN  [rows |-> page.rows, next |-> page.next, truncated |-> page.next # Empty]

\* start-after is accepted and not looked at: there is only the token.
BackendListObjectsV2(prefix, delimiter, token, size) ==
    LET page == ListObjects(Objects(versions), prefix, delimiter, token, size)
    IN  [rows |-> page.rows, next |-> page.next, truncated |-> page.next # Empty]

\* Versions and delete markers go into two lists; the order is lost.
BackendListObjectVersions(prefix, delimiter, key, vid, size) ==
    LET page == ListObjectVersions(versions, prefix, delimiter, key, vid, size)
    IN  [rows |-> page.rows, next |-> page.next, nextVid |-> page.nextVid,
         truncated |-> page.next # Empty \/ page.nextVid # NoVid]

BackendListParts(from, size) ==
    LET page == ListObjectParts(parts, from, size)
    IN  [rows |-> page.rows, next |-> page.next, truncated |-> page.next > 0]

\* The handlers read the request and write down what the backend returns.
S3ListObjects == BackendListObjects(job.prefix, job.delimiter, marker, PageSize(job.asked))
S3ListObjectsV2 == BackendListObjectsV2(job.prefix, job.delimiter, marker, PageSize(job.asked))
S3ListObjectVersions ==
    BackendListObjectVersions(job.prefix, job.delimiter, marker, vidMarker, PageSize(job.asked))
S3ListParts == BackendListParts(marker, PageSize(job.asked))

\* The console asks the metadata itself.
AdminListObjects ==
    LET page == ListObjects(Objects(versions), job.prefix, job.delimiter, marker,
                            PageSize(job.asked))
    IN  [rows |-> page.rows, next |-> page.next, truncated |-> page.next # Empty]

\* One turn of a caller's loop: it takes the rows of a page, and asks for the
\* next one from the marker it was given while the page is truncated.
Turn(page) ==
    /\ Receive(page.rows)
    /\ pc' = IF page.truncated THEN "page" ELSE "done"
    /\ UNCHANGED <<todo, cut>>

Asking(kind) == pc = "page" /\ job.kind = kind

ClientListObjects ==
    /\ Asking("ListObjects")
    /\ \E page \in {S3ListObjects} : Turn(page) /\ marker' = page.next
    /\ UNCHANGED <<vidMarker, passed>>

ClientListObjectsV2 ==
    /\ Asking("ListObjectsV2")
    /\ \E page \in {S3ListObjectsV2} : Turn(page) /\ marker' = page.next
    /\ UNCHANGED <<vidMarker, passed>>

ConsoleListObjects ==
    /\ Asking("console")
    /\ \E page \in {AdminListObjects} : Turn(page) /\ marker' = page.next
    /\ UNCHANGED <<vidMarker, passed>>

MarkerGone == vidMarker # NoVid /\ \A v \in versions[marker] : v.vid # vidMarker

WalkVersions ==
    /\ Asking("versions")
    /\ \E page \in {S3ListObjectVersions} :
        Turn(page) /\ marker' = page.next /\ vidMarker' = page.nextVid
    /\ passed' = IF MarkerGone THEN passed \cup {marker} ELSE passed

WalkParts ==
    /\ Asking("parts")
    /\ \E page \in {S3ListParts} : Turn(page) /\ marker' = page.next
    /\ UNCHANGED <<vidMarker, passed>>

\* The folder itself, if there is an object of that name, is left out.
ZipPage ==
    /\ Asking("zip")
    /\ \E page \in {ListObjects(Objects(versions), job.prefix, FALSE, marker, DefaultPage)} :
        /\ todo' = {r.key : r \in page.rows} \ {job.prefix}
        /\ marker' = page.next
    /\ pc' = "fetch"
    /\ UNCHANGED <<vidMarker, listed, again, passed, cut>>

\* Slip: the download waits for an object that is gone.
ZipObjectWaits ==
    /\ pc = "fetch" /\ todo # {}
    /\ versions[Min(todo)] # {}
    /\ Receive({ObjectRow(Min(todo))})
    /\ todo' = todo \ {Min(todo)}
    /\ UNCHANGED <<pc, marker, vidMarker, passed, cut>>

\* An object that is gone by now ends the download in the middle.
ZipObject ==
    /\ pc = "fetch" /\ todo # {}
    /\ IF versions[Min(todo)] = {}
       THEN pc' = "done" /\ cut' = TRUE /\ UNCHANGED <<todo, listed, again>>
       ELSE /\ Receive({ObjectRow(Min(todo))})
            /\ todo' = todo \ {Min(todo)}
            /\ UNCHANGED <<pc, cut>>
    /\ UNCHANGED <<marker, vidMarker, passed>>

ZipOnward ==
    /\ pc = "fetch" /\ todo = {}
    /\ pc' = IF marker = Empty THEN "done" ELSE "page"
    /\ UNCHANGED <<marker, vidMarker, todo, listed, again, passed, cut>>

\* The request fails (the bucket or the upload is gone, the connection breaks)
\* or the caller cancels.
Break ==
    /\ pc # "done"
    /\ pc' = "done"
    /\ cut' = TRUE
    /\ UNCHANGED <<table, job, marker, vidMarker, todo, listed, again, stayed, passed, renewed>>

Caller ==
    /\ UNCHANGED <<table, job, stayed, renewed>>
    /\ \/ ClientListObjects \/ ClientListObjectsV2 \/ ConsoleListObjects
       \/ WalkVersions \/ WalkParts
       \/ ZipPage \/ ZipObject \/ ZipOnward

Next == Others \/ Caller \/ Break

Spec == Init /\ [][Next]_vars /\ WF_vars(Caller)

-----------------------------------------------------------------------------
TypeOK ==
    /\ \A n \in Names :
        /\ versions[n] \subseteq [vid : Int, modified : Int]
        /\ Cardinality({v.vid : v \in versions[n]}) = Cardinality(versions[n])
    /\ parts \subseteq PartNumbers
    /\ writes \in 0..MaxWrites
    /\ job \in Jobs
    /\ pc \in {"page", "fetch", "done"}
    /\ marker \in {Empty} \cup Names \cup PartNumbers
    /\ todo \subseteq Names
    /\ again \subseteq listed
    /\ passed \subseteq Names /\ renewed \subseteq Names
    /\ cut \in BOOLEAN

\* What a caller should see of a row.
Shown(r) == IF job.kind # "parts" /\ Rolled(r.key, job.prefix, job.delimiter)
            THEN PrefixRow(r.key) ELSE r

Asked(r) == \/ job.kind = "parts"
            \/ /\ r.key \in Under(job.prefix)
               /\ ~(job.kind = "zip" /\ r.key = job.prefix)

\* A listing that ran to its end showed all that was there the whole time,
\* whatever others wrote and deleted between its pages: no page starts behind
\* a key that the page before it did not reach.  The one exception is a key of
\* which a page showed some versions, the last of which was gone by the next
\* page.  A folder download that ran to its end holds every such object.
StayersListed ==
    pc = "done" /\ ~cut =>
        \A r \in stayed : Asked(r) => Shown(r) \in listed \/ r.key \in passed

\* Pages overlap only where the marker names no version, in a common prefix or
\* in a version with the empty id that ended a page, and where the version that
\* it names was written anew before the next page, as "null" may be.
NoRepeats ==
    \A r \in again :
        \/ r.key \in Folders /\ job.delimiter
        \/ r.key \in renewed
        \/ \E s \in listed : s.key = r.key /\ s.vid = NoVid /\ job.kind = "versions"

\* When writing ends, so does the listing: every page gets further than the
\* last, if a page is larger than the number of versions of a key and, with a
\* delimiter, than one.
ListingEnds == <>(pc = "done")
=============================================================================
