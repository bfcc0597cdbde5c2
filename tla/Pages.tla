------------------------------- MODULE Pages -------------------------------
(***************************************************************************)
(* The four paginated reads of internal/storage/metadata/bbolt.go, each    *)
(* one bbolt read transaction, as functions of the table they read.        *)
(*                                                                         *)
(* Keys and common prefixes are strings, of which only the byte order and  *)
(* what is a prefix of what matter: a string is its place in that order.   *)
(* A page is the set of its rows; the order of a page is RowBefore.        *)
(***************************************************************************)
EXTENDS Integers, FiniteSets, FiniteSetsExt

CONSTANTS Names,        \* keys and common prefixes, as places in byte order
          Folder,       \* Folder[n]: the common prefix that n is rolled into, or 0
          NoVid         \* an empty version id or version id marker

\* A common prefix sorts before the keys below it, which sort together.  An
\* object with the name of a common prefix is below it.
ASSUME FolderAssumption ==
    /\ Names \subseteq Nat \ {0}
    /\ \A n \in Names : Folder[n] \in {0} \cup {m \in Names : m <= n}
    /\ \A m, n, o \in Names :
        m < n /\ n < o /\ Folder[o] # 0 /\ Folder[o] <= m => Folder[n] = Folder[o]
    /\ \A n \in Names : Folder[n] # 0 => Folder[Folder[n]] = Folder[n]

\* An empty prefix or marker.
Empty == 0

\* The keys under a prefix; prefixes other than the empty one are folders.
Under(prefix) == {n \in Names : prefix = Empty \/ Folder[n] = prefix}

\* The rows of a page sort by key; of one key, the newest version first.  A
\* common prefix is a row of its own, with no version.
RowBefore(r, s) ==
    \/ r.key < s.key
    \/ r.key = s.key /\ r.modified > s.modified

\* A scan stops as soon as the page is full.
First(rows, n) ==
    {r \in rows : Cardinality({s \in rows : RowBefore(s, r)}) < n}

Last(rows) == CHOOSE r \in rows : \A s \in rows : s = r \/ RowBefore(s, r)

\* Where the scan stops for the prefix: at the first key not under it.
Run(keys, prefix) == {n \in keys : \A m \in keys : m <= n => m \in Under(prefix)}

\* Keys have one level of folders: none is left below a prefix.
Rolled(n, prefix, delimiter) == delimiter /\ prefix = Empty /\ Folder[n] # 0

PrefixRow(n) == [key |-> Folder[n], vid |-> NoVid, modified |-> 0]

ObjectRow(n) == [key |-> n, vid |-> NoVid, modified |-> 0]

\* Slip: the scan begins at the marker.
FromMarker(objects, prefix, marker) ==
    {n \in objects : n >= IF marker # Empty THEN marker ELSE prefix}

\* The scan begins after the marker, or at the prefix.
AfterMarker(objects, prefix, marker) ==
    {n \in objects : IF marker # Empty THEN n > marker ELSE n >= prefix}

PageOf(rows, n) ==
    LET page == First(rows, n)
    IN  IF Cardinality(page) < n THEN [rows |-> page, next |-> Empty, nextVid |-> NoVid]
        ELSE [rows |-> page, next |-> Last(page).key, nextVid |-> Last(page).vid]

\* The member of a set of one.  (TLC evaluates what is bound once, what is
\* defined each time it is used.)
Only(S) == CHOOSE x \in S : TRUE

\* Keys below a common prefix count as one row.  The marker of the next page
\* is the row that filled this one, also when nothing is left.
ListObjects(objects, prefix, delimiter, marker, maxKeys) ==
    Only({PageOf(rows, maxKeys) : rows \in
        {{IF Rolled(n, prefix, delimiter) THEN PrefixRow(n) ELSE ObjectRow(n)
          : n \in Run(AfterMarker(objects, prefix, marker), prefix)}}})

\* Slip: all versions of the marker's key are passed over.
PassedAll(S, vidMarker) == S

\* Versions of the marker's key that are passed over: those up to the one of
\* the marker, and all there are when that one is gone.
Passed(S, vidMarker) ==
    {v \in S : \A m \in S : m.vid = vidMarker => m.modified <= v.modified}

\* The versions from the key of the marker on.  A marker with an empty version
\* id, be it of a common prefix or of an object written without versioning,
\* passes over nothing.
ListObjectVersions(versions, prefix, delimiter, keyMarker, vidMarker, maxKeys) ==
    LET start == {n \in Names : versions[n] # {}
                             /\ n >= IF keyMarker # Empty THEN keyMarker ELSE prefix}
        left(n) == IF n = keyMarker /\ vidMarker # NoVid
                   THEN versions[n] \ Passed(versions[n], vidMarker) ELSE versions[n]
    IN  Only({PageOf(rows, maxKeys) : rows \in
            {UNION {IF Rolled(n, prefix, delimiter) THEN {PrefixRow(n)}
                    ELSE {[key |-> n, vid |-> v.vid, modified |-> v.modified] : v \in left(n)}
                    : n \in Run(start, prefix)}}})

\* Parts come by number.  A full page looks one part ahead, so that its marker
\* is set only when something is left.
ListObjectParts(parts, marker, maxParts) ==
    LET rest == {n \in parts : n > marker}
        page == {n \in rest : Cardinality({m \in rest : m < n}) < maxParts}
    IN  [rows |-> {ObjectRow(n) : n \in page},
         next |-> IF page = rest THEN Empty ELSE Max(page)]

\* Uploads sort by key and id.  The prefix only says where the scan starts and
\* the markers of the request are not looked at: each page starts there.
ListMultipartUploads(uploads, prefix, maxUploads) ==
    LET rest == {u \in uploads : u.key >= prefix}
        before(u) == {v \in rest : v.key < u.key \/ (v.key = u.key /\ v.id < u.id)}
        page == {u \in rest : Cardinality(before(u)) < maxUploads}
    IN  [uploads |-> page, truncated |-> Cardinality(page) >= maxUploads]
=============================================================================
