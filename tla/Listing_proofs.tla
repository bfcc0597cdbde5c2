--------------------------- MODULE Listing_proofs ---------------------------
(***************************************************************************)
(* Theorems about Listing, for any keys, folders, page sizes and tables at *)
(* the start, any number of versions and parts, and any bound on the       *)
(* changes between the pages.                                              *)
(***************************************************************************)
EXTENDS Listing, FiniteSetTheorems, TLAPS

Version == [vid : Int, modified : Int]

Rows == [key : Nat, vid : Int, modified : Int]

Row(n, v) == [key |-> n, vid |-> v.vid, modified |-> v.modified]

\* No two records of a key have the same id or the same time, and none has
\* that of a write to come.
TableOK ==
    /\ versions \in [Names -> SUBSET Version]
    /\ IsFiniteSet(Objects(versions))
    /\ \A n \in Names :
        /\ IsFiniteSet(versions[n])
        /\ \A v \in versions[n] :
            v.modified <= writes /\ v.vid \notin (writes + 1)..MaxWrites
        /\ \A v, w \in versions[n] : v.vid = w.vid \/ v.modified = w.modified => v = w
    /\ parts \subseteq PartNumbers
    /\ writes \in 0..MaxWrites

\* A marker is a place in what is walked through: a key under the prefix, a
\* common prefix or a part.
MarkerOK ==
    /\ marker \in {Empty} \cup IF job.kind = "parts" THEN PartNumbers ELSE Names
    /\ marker # Empty => marker >= job.prefix
    /\ marker # Empty /\ job.delimiter => Folder[marker] \in {Empty, marker}
    /\ vidMarker \in Int \ ((writes + 1)..MaxWrites)
    /\ marker = Empty \/ job.kind # "versions" => vidMarker = NoVid

CallerOK ==
    /\ job \in Jobs
    /\ pc \in {"page", "fetch", "done"}
    /\ pc = "fetch" => job.kind = "zip"
    /\ todo \subseteq Names /\ IsFiniteSet(todo)
    /\ listed \subseteq Rows /\ again \subseteq listed
    /\ stayed \subseteq Present(job.kind, versions, parts)
    /\ passed \subseteq Names /\ renewed \subseteq Names
    /\ cut \in BOOLEAN

\* The next page begins before the row, or at it.
Ahead(r) ==
    \/ r.key > marker
    \/ /\ r.key = marker /\ job.kind = "versions"
       /\ \/ vidMarker = NoVid
          \/ \A v \in versions[marker] : v.vid = vidMarker => r.modified < v.modified

\* What stays is on a page, on a key whose marker was gone, or yet to come.
StayersKept ==
    \A r \in stayed : Asked(r) =>
        \/ Shown(r) \in listed \/ r.key \in passed
        \/ pc = "page" /\ Ahead(r)
        \/ pc = "fetch" /\ (r.key \in todo \/ (marker # Empty /\ r.key > marker))
        \/ pc = "done" /\ cut

\* The exceptions of NoRepeats.
Repeatable(r) ==
    \/ r.key \in Folders /\ job.delimiter
    \/ r.key \in renewed
    \/ \E s \in listed : s.key = r.key /\ s.vid = NoVid /\ job.kind = "versions"

\* The next page begins behind a row, up to the version of the marker.
Behind(r) ==
    \/ r.key < marker
    \/ /\ r.key = marker
       /\ \/ job.kind # "versions" \/ Repeatable(r)
          \/ /\ vidMarker # NoVid
             /\ \A v \in versions[marker] : v.vid = vidMarker => v.modified <= r.modified

ListedBehind ==
    /\ pc = "page" => \A r \in listed : Behind(r)
    /\ pc = "fetch" =>
        /\ \A r \in listed : r.key \notin todo /\ (marker # Empty => r.key <= marker)
        /\ marker # Empty => \A n \in todo : n <= marker

ListingInv == TableOK /\ MarkerOK /\ CallerOK /\ StayersKept /\ ListedBehind /\ NoRepeats

-----------------------------------------------------------------------------
(***************************************************************************)
(* Finite sets under a strict order: a set of pairs.                       *)
(***************************************************************************)
Strict(lt, S) ==
    /\ \A x \in S : <<x, x>> \notin lt
    /\ \A x, y, z \in S : <<x, y>> \in lt /\ <<y, z>> \in lt => <<x, z>> \in lt

Below(lt, S, x) == {y \in S : <<y, x>> \in lt}

\* A finite set that is not empty has a minimal element.
LEMMA MinimalElement ==
    ASSUME NEW S, IsFiniteSet(S), NEW lt, Strict(lt, S), NEW T \in SUBSET S, T # {}
    PROVE  \E x \in T : \A y \in T : <<y, x>> \notin lt
  <1> DEFINE sets == {Below(lt, S, x) : x \in T}
  <1>1. IsWellFoundedOn(StrictSubsetOrdering(S), FiniteSubsetsOf(S))
    BY FS_StrictSubsetOrderingWellFounded
  <1>2. sets \subseteq FiniteSubsetsOf(S)
    BY FS_FiniteSubsetsOfFinite DEF Below
  <1>3. sets # {}
    OBVIOUS
  <1> HIDE DEF sets
  <1>4. PICK B \in sets : \A C \in sets : <<C, B>> \notin StrictSubsetOrdering(S)
    BY <1>1, <1>2, <1>3, WFMin
  <1>5. PICK x \in T : B = Below(lt, S, x)
    BY <1>4 DEF sets
  <1>6. ASSUME NEW y \in T, <<y, x>> \in lt PROVE FALSE
    <2>1. Below(lt, S, y) \subseteq Below(lt, S, x)
      BY <1>6 DEF Below, Strict
    <2>2. y \in Below(lt, S, x) /\ y \notin Below(lt, S, y)
      BY <1>6 DEF Below, Strict
    <2>3. Below(lt, S, y) \in SUBSET S /\ Below(lt, S, x) \in SUBSET S
      BY DEF Below
    <2>4. <<Below(lt, S, y), Below(lt, S, x)>> \in StrictSubsetOrdering(S)
      BY <2>1, <2>2, <2>3 DEF StrictSubsetOrdering
    <2>5. Below(lt, S, y) \in sets
      BY DEF sets
    <2>6. QED
      BY <1>4, <1>5, <2>4, <2>5
  <1>7. QED
    BY <1>6

\* And a maximal one.
LEMMA MaximalElement ==
    ASSUME NEW S, IsFiniteSet(S), NEW lt, Strict(lt, S), NEW T \in SUBSET S, T # {}
    PROVE  \E x \in T : \A y \in T : <<x, y>> \notin lt
  <1> DEFINE gt == {p \in S \X S : <<p[2], p[1]>> \in lt}
  <1>1. \A x, y \in S : <<x, y>> \in gt <=> <<y, x>> \in lt
    OBVIOUS
  <1> HIDE DEF gt
  <1>2. Strict(gt, S)
    BY <1>1 DEF Strict
  <1>3. PICK x \in T : \A y \in T : <<y, x>> \notin gt
    BY <1>2, MinimalElement
  <1>4. QED
    BY <1>1, <1>3

\* The first elements have fewer than n below them.  With one they include all
\* that is below it, there are some, and if they are fewer than n, they are all.
LEMMA FirstBelow ==
    ASSUME NEW S, IsFiniteSet(S), NEW lt, Strict(lt, S), NEW n \in Nat,
           NEW x \in S, NEW y \in S, <<y, x>> \in lt, Cardinality(Below(lt, S, x)) < n
    PROVE  Cardinality(Below(lt, S, y)) < n
  <1>1. Below(lt, S, y) \subseteq Below(lt, S, x)
    BY DEF Below, Strict
  <1>2. IsFiniteSet(Below(lt, S, x)) /\ IsFiniteSet(Below(lt, S, y))
    BY FS_Subset DEF Below
  <1>3. /\ Cardinality(Below(lt, S, y)) <= Cardinality(Below(lt, S, x))
        /\ Cardinality(Below(lt, S, y)) \in Nat /\ Cardinality(Below(lt, S, x)) \in Nat
    BY <1>1, <1>2, FS_Subset, FS_CardinalityType
  <1>4. QED
    BY <1>3

LEMMA FirstSome ==
    ASSUME NEW S, IsFiniteSet(S), NEW lt, Strict(lt, S), NEW n \in Nat \ {0}, S # {}
    PROVE  \E x \in S : Cardinality(Below(lt, S, x)) < n
  <1>1. PICK x \in S : \A y \in S : <<y, x>> \notin lt
    BY MinimalElement
  <1>2. Below(lt, S, x) = {}
    BY <1>1 DEF Below
  <1>3. QED
    BY <1>2, FS_EmptySet

LEMMA FirstAll ==
    ASSUME NEW S, IsFiniteSet(S), NEW lt, Strict(lt, S), NEW n \in Nat,
           NEW page, page = {x \in S : Cardinality(Below(lt, S, x)) < n},
           Cardinality(page) < n
    PROVE  page = S
  <1>1. IsFiniteSet(page) /\ Cardinality(page) \in Nat
    BY FS_Subset, FS_CardinalityType
  <1>2. SUFFICES ASSUME page # S PROVE FALSE
    OBVIOUS
  <1>3. PICK x \in S \ page : \A y \in S \ page : <<y, x>> \notin lt
    BY <1>2, MinimalElement
  <1>4. Below(lt, S, x) \subseteq page
    BY <1>3 DEF Below
  <1>5. Cardinality(Below(lt, S, x)) <= Cardinality(page)
    BY <1>1, <1>4, FS_Subset
  <1>6. Cardinality(Below(lt, S, x)) \in Nat
    BY <1>1, <1>4, FS_Subset, FS_CardinalityType
  <1>7. QED
    BY <1>1, <1>3, <1>5, <1>6

-----------------------------------------------------------------------------
(***************************************************************************)
(* Pages.                                                                  *)
(***************************************************************************)
\* A page is all there is and has no marker, or it is what there is up to the
\* row of the marker.
LEMMA PageFacts ==
    ASSUME NEW rows \in SUBSET Rows, IsFiniteSet(rows), NEW n \in Nat \ {0},
           \A r, s \in rows : r = s \/ RowBefore(r, s) \/ RowBefore(s, r),
           NEW page, page = PageOf(rows, n)
    PROVE  /\ page.rows \subseteq rows
           /\ \/ page.rows = rows /\ page.next = Empty /\ page.nextVid = NoVid
              \/ \E last \in page.rows :
                    /\ page.next = last.key /\ page.nextVid = last.vid
                    /\ \A r \in rows : r \in page.rows <=> r = last \/ RowBefore(r, last)
  <1> DEFINE lt == {p \in rows \X rows : RowBefore(p[1], p[2])}
             first == First(rows, n)
  <1>1. \A x, y \in rows : <<x, y>> \in lt <=> RowBefore(x, y)
    OBVIOUS
  <1>2. \A x \in rows : Below(lt, rows, x) = {s \in rows : RowBefore(s, x)}
    BY <1>1 DEF Below
  <1>3. \A x, y, z \in rows : RowBefore(x, y) /\ RowBefore(y, z) => RowBefore(x, z)
    BY DEF Rows, RowBefore
  <1>4. \A x \in rows : ~RowBefore(x, x)
    BY DEF Rows, RowBefore
  <1> HIDE DEF lt
  <1>5. Strict(lt, rows)
    BY <1>1, <1>3, <1>4 DEF Strict
  <1>6. first = {x \in rows : Cardinality(Below(lt, rows, x)) < n}
    BY <1>2 DEF First
  <1>7. first \subseteq rows
    BY DEF First
  <1> HIDE DEF first
  <1>8. /\ \A x \in first : \A y \in rows : RowBefore(y, x) => y \in first
        /\ Cardinality(first) < n => first = rows
    <2>1. ASSUME NEW x \in first, NEW y \in rows, RowBefore(y, x) PROVE y \in first
      <3>1. x \in rows /\ <<y, x>> \in lt /\ Cardinality(Below(lt, rows, x)) < n
        BY <1>1, <1>6, <1>7, <2>1
      <3>2. Cardinality(Below(lt, rows, y)) < n
        BY <1>5, <3>1, FirstBelow
      <3>3. QED
        BY <1>6, <3>2
    <2>2. Cardinality(first) < n => first = rows
      BY <1>5, <1>6, FirstAll
    <2>3. QED
      BY <2>1, <2>2
  <1>9. page = IF Cardinality(first) < n
               THEN [rows |-> first, next |-> Empty, nextVid |-> NoVid]
               ELSE [rows |-> first, next |-> Last(first).key, nextVid |-> Last(first).vid]
    BY DEF PageOf, first
  <1>10. CASE Cardinality(first) < n
    BY <1>7, <1>8, <1>9, <1>10
  <1>11. CASE ~(Cardinality(first) < n)
    <2>1. first # {}
      BY <1>11, FS_EmptySet
    <2>2. PICK x \in first : \A y \in first : ~RowBefore(x, y)
      <3>1. PICK x \in first : \A y \in first : <<x, y>> \notin lt
        BY <1>5, <1>7, <2>1, MaximalElement
      <3>2. QED
        BY <1>1, <1>7, <3>1
    <2>3. \A s \in first : s = x \/ RowBefore(s, x)
      BY <1>7, <2>2
    <2>4. Last(first) \in first /\ \A s \in first : s = Last(first) \/ RowBefore(s, Last(first))
      BY <2>3 DEF Last
    <2>5. \A r \in rows : r \in first <=> r = Last(first) \/ RowBefore(r, Last(first))
      BY <1>8, <2>4
    <2>6. QED
      BY <1>7, <1>9, <1>11, <2>4, <2>5
  <1>12. QED
    BY <1>10, <1>11

LEMMA FiniteImage ==
    ASSUME NEW S, IsFiniteSet(S), NEW f
    PROVE  IsFiniteSet({f[x] : x \in S})
  <1> DEFINE g == [x \in S |-> f[x]]
             T == {f[x] : x \in S}
  <1>1. g \in Surjection(S, T)
    BY DEF Surjection
  <1>2. QED
    BY <1>1, FS_Surjection

-----------------------------------------------------------------------------
(***************************************************************************)
(* Folders and markers.                                                    *)
(***************************************************************************)
Prefixed(prefix, delimiter) ==
    /\ prefix \in {Empty} \cup Folders
    /\ delimiter \in BOOLEAN
    /\ delimiter => prefix = Empty

Marks(from, prefix, delimiter) ==
    /\ from \in {Empty} \cup Names
    /\ from # Empty => from >= prefix
    /\ from # Empty /\ delimiter => Folder[from] \in {Empty, from}

LEMMA FolderFacts ==
    ASSUME NEW n \in Names
    PROVE  /\ n \in Nat \ {0} /\ Folder[n] \in Nat /\ Folder[n] <= n
           /\ Folder[n] # 0 => /\ Folder[n] \in Names /\ Folder[n] \in Folders
                               /\ Folder[Folder[n]] = Folder[n]
  <1>1. n \in Nat \ {0} /\ (Folder[n] = 0 \/ (Folder[n] \in Names /\ Folder[n] <= n))
    BY FolderAssumption
  <1>2. Folder[n] # 0 => Folder[n] \in Folders
    BY DEF Folders, Empty
  <1>3. Folder[n] # 0 => Folder[Folder[n]] = Folder[n]
    BY FolderAssumption
  <1>4. Names \subseteq Nat
    BY FolderAssumption
  <1>5. CASE Folder[n] = 0
    BY <1>1, <1>5
  <1>6. CASE Folder[n] \in Names /\ Folder[n] <= n
    BY <1>1, <1>2, <1>3, <1>4, <1>6
  <1>7. QED
    BY <1>1, <1>5, <1>6

\* What sorts between a prefix and a key under it is under it.
LEMMA UnderBetween ==
    ASSUME NEW prefix \in {Empty} \cup Folders, NEW k \in Names, NEW m \in Names,
           k \in Under(prefix), prefix <= m, m <= k
    PROVE  m \in Under(prefix)
  <1>1. CASE prefix = Empty
    BY <1>1 DEF Under
  <1>2. CASE prefix # Empty
    <2>1. Folder[k] = prefix /\ prefix \in Names /\ Folder[prefix] = prefix
      BY <1>2, FolderFacts DEF Under, Empty
    <2>2. Folder[m] = prefix
      BY <2>1, <1>2, FolderFacts, FolderAssumption DEF Empty
    <2>3. QED
      BY <2>2 DEF Under
  <1>3. QED
    BY <1>1, <1>2

LEMMA UnderFrom ==
    ASSUME NEW prefix \in {Empty} \cup Folders, NEW k \in Under(prefix)
    PROVE  k \in Names /\ k >= prefix /\ prefix \in Nat
  BY FolderFacts DEF Under, Empty, Folders

\* The common prefix of a key behind the marker is not before the marker.
LEMMA RolledBehind ==
    ASSUME NEW k \in Names, NEW from \in Names, Folder[from] \in {Empty, from},
           k >= from, Folder[k] # 0
    PROVE  Folder[k] >= from
  BY FolderFacts, FolderAssumption DEF Empty

\* The keys a page begins with are those under the prefix.
LEMMA RunKeys ==
    ASSUME NEW prefix \in {Empty} \cup Folders, NEW keys \in SUBSET Names,
           \A k \in keys : k >= prefix
    PROVE  Run(keys, prefix) = keys \cap Under(prefix)
  <1>1. ASSUME NEW n \in keys, n \in Under(prefix), NEW m \in keys, m <= n
        PROVE  m \in Under(prefix)
    BY <1>1, UnderBetween
  <1>2. ASSUME NEW n \in Run(keys, prefix) PROVE n \in keys \cap Under(prefix)
    BY <1>2, FolderFacts DEF Run
  <1>3. QED
    BY <1>1, <1>2 DEF Run

-----------------------------------------------------------------------------
(***************************************************************************)
(* A page of objects.                                                      *)
(***************************************************************************)
ObjectShown(k, prefix, delimiter) ==
    IF Rolled(k, prefix, delimiter) THEN PrefixRow(k) ELSE ObjectRow(k)

LEMMA ObjectShownFacts ==
    ASSUME NEW k \in Names, NEW prefix, NEW delimiter
    PROVE  LET r == ObjectShown(k, prefix, delimiter)
           IN  /\ r \in Rows /\ r.key \in Names /\ r.key <= k
               /\ r = [key |-> r.key, vid |-> NoVid, modified |-> 0]
               /\ delimiter /\ prefix = Empty => Folder[r.key] \in {Empty, r.key}
               /\ r.key # k => r.key \in Folders /\ r.key = Folder[k] /\ delimiter /\ prefix = Empty
  BY FolderFacts, TablesAssumption
     DEF ObjectShown, Rolled, PrefixRow, ObjectRow, Rows, Empty

LEMMA ObjectsPage ==
    ASSUME NEW objects \in SUBSET Names, IsFiniteSet(objects),
           NEW prefix, NEW delimiter, Prefixed(prefix, delimiter),
           NEW from, Marks(from, prefix, delimiter), NEW n \in Nat \ {0},
           NEW page, page = ListObjects(objects, prefix, delimiter, from, n)
    PROVE  /\ page.rows \subseteq Rows
           /\ \A r \in page.rows : \E k \in objects :
                k \in Under(prefix) /\ k > from /\ r = ObjectShown(k, prefix, delimiter)
           /\ \A k \in objects : k \in Under(prefix) /\ k > from =>
                \/ ObjectShown(k, prefix, delimiter) \in page.rows
                \/ page.next # Empty /\ k > page.next
           /\ Marks(page.next, prefix, delimiter)
           /\ page.next # Empty =>
                page.next >= from /\ \A r \in page.rows : r.key <= page.next
  <1> DEFINE Sh(k) == ObjectShown(k, prefix, delimiter)
             after == AfterMarker(objects, prefix, from)
             keys == {k \in objects : k \in Under(prefix) /\ k > from}
             f == [k \in Names |-> Sh(k)]
             rows == {Sh(k) : k \in keys}
  <1>1. prefix \in Nat /\ from \in Nat /\ prefix \in {Empty} \cup Folders
    BY FolderFacts, FolderAssumption DEF Prefixed, Marks, Folders, Empty
  <1>2. after \in SUBSET Names /\ \A k \in after : k >= prefix
    BY <1>1, FolderFacts DEF AfterMarker, Marks, Empty
  <1>3. Run(after, prefix) = after \cap Under(prefix)
    BY <1>1, <1>2, RunKeys
  <1>4. after \cap Under(prefix) = keys
    BY <1>1, UnderFrom, FolderFacts DEF AfterMarker, Empty, Marks
  <1>5. page = PageOf(rows, n)
    <2>1. rows = {IF Rolled(k, prefix, delimiter) THEN PrefixRow(k) ELSE ObjectRow(k)
                  : k \in Run(after, prefix)}
      BY <1>3, <1>4 DEF ObjectShown
    <2>2. QED
      BY <2>1 DEF ListObjects, Only
  <1>6. keys \in SUBSET Names /\ IsFiniteSet(keys)
    BY FS_Subset
  <1>7. IsFiniteSet(rows)
    <2>1. rows = {f[k] : k \in keys}
      BY <1>6
    <2> HIDE DEF f, rows, keys
    <2>2. QED
      BY <1>6, <2>1, FiniteImage
  <1>8. \A k \in Names : Sh(k) \in Rows /\ Sh(k).key \in Names /\ Sh(k).key <= k
                         /\ Sh(k) = [key |-> Sh(k).key, vid |-> NoVid, modified |-> 0]
                         /\ (delimiter => Folder[Sh(k).key] \in {Empty, Sh(k).key})
                         /\ (Sh(k).key # k => Sh(k).key = Folder[k] /\ Folder[k] # 0 /\ delimiter)
    BY ObjectShownFacts DEF Prefixed, Folders, Empty
  <1> HIDE DEF Sh
  <1>9. rows \in SUBSET Rows
    BY <1>6, <1>8
  <1>10. \A r, s \in rows : r = s \/ RowBefore(r, s) \/ RowBefore(s, r)
    BY <1>6, <1>8, FolderFacts DEF RowBefore
  <1> HIDE DEF rows
  <1>11. /\ page.rows \subseteq rows
         /\ \/ page.rows = rows /\ page.next = Empty /\ page.nextVid = NoVid
            \/ \E last \in page.rows :
                  /\ page.next = last.key /\ page.nextVid = last.vid
                  /\ \A r \in rows : r \in page.rows <=> r = last \/ RowBefore(r, last)
    BY <1>5, <1>7, <1>9, <1>10, PageFacts
  <1> USE DEF rows
  <1>12. CASE page.rows = rows /\ page.next = Empty
    BY <1>6, <1>8, <1>9, <1>12 DEF Marks, Sh
  <1>13. ASSUME NEW last \in page.rows, page.next = last.key,
                \A r \in rows : r \in page.rows <=> r = last \/ RowBefore(r, last)
         PROVE  /\ Marks(page.next, prefix, delimiter) /\ page.next # Empty
                /\ page.next >= from /\ \A r \in page.rows : r.key <= page.next
                /\ \A k \in keys : Sh(k) \in page.rows \/ k > page.next
    <2>1. PICK k \in keys : last = Sh(k)
      BY <1>11, <1>13
    <2>2. page.next \in Names /\ page.next # Empty
      BY <1>6, <1>8, <1>13, <2>1, FolderFacts DEF Empty
    <2>3. delimiter => Folder[page.next] \in {Empty, page.next}
      BY <1>6, <1>8, <1>13, <2>1
    <2>4. page.next >= from
      <3>1. CASE page.next = k
        BY <1>1, <1>6, <3>1, FolderFacts
      <3>2. CASE page.next # k
        <4>1. page.next = Folder[k] /\ Folder[k] # 0 /\ delimiter
          BY <1>6, <1>8, <1>13, <2>1, <3>2
        <4>2. CASE from = Empty
          BY <2>2, <4>2, FolderFacts DEF Empty
        <4>3. CASE from # Empty
          <5>1. from \in Names /\ Folder[from] \in {Empty, from}
            BY <4>1, <4>3 DEF Marks
          <5>2. k \in Names /\ k >= from
            BY <1>1, <1>6, FolderFacts
          <5>3. QED
            BY <4>1, <5>1, <5>2, RolledBehind
        <4>4. QED
          BY <4>2, <4>3
      <3>3. QED
        BY <3>1, <3>2
    <2>5. page.next >= prefix
      <3>1. CASE delimiter
        <4>1. prefix = 0 /\ page.next \in Nat
          BY <2>2, <3>1, FolderFacts DEF Prefixed, Empty
        <4>2. QED
          BY <4>1
      <3>2. CASE ~delimiter
        BY <1>1, <1>6, <1>8, <1>13, <2>1, <3>2, UnderFrom
      <3>3. QED
        BY <3>1, <3>2
    <2>6. \A r \in page.rows : r.key <= page.next
      BY <1>9, <1>11, <1>13 DEF RowBefore, Rows
    <2>7. ASSUME NEW m \in keys, Sh(m) \notin page.rows PROVE m > page.next
      <3>1. RowBefore(last, Sh(m)) /\ Sh(m) \in rows
        BY <1>10, <1>11, <1>13, <2>7
      <3>2. last.key < Sh(m).key
        BY <1>6, <1>8, <1>13, <2>1, <3>1, FolderFacts DEF RowBefore
      <3>3. QED
        BY <1>6, <1>8, <1>13, <2>2, <3>2, FolderFacts
    <2>8. QED
      BY <2>2, <2>3, <2>4, <2>5, <2>6, <2>7 DEF Marks
  <1>14. QED
    BY <1>6, <1>9, <1>11, <1>12, <1>13 DEF Sh

-----------------------------------------------------------------------------
(***************************************************************************)
(* A page of versions.                                                     *)
(***************************************************************************)
VersionShown(k, v, prefix, delimiter) ==
    IF Rolled(k, prefix, delimiter) THEN PrefixRow(k) ELSE Row(k, v)

\* A version is behind the markers.
LeftBy(tbl, k, v, from, vid) ==
    \/ k > from
    \/ k = from /\ (vid = NoVid \/ \E m \in tbl[k] : m.vid = vid /\ m.modified > v.modified)

GoodTable(tbl) ==
    /\ tbl \in [Names -> SUBSET Version]
    /\ IsFiniteSet(Objects(tbl))
    /\ \A n \in Names :
        /\ IsFiniteSet(tbl[n])
        /\ \A v, w \in tbl[n] : v.vid = w.vid \/ v.modified = w.modified => v = w

VersionsLeft(tbl, n, from, vid) ==
    IF n = from /\ vid # NoVid THEN tbl[n] \ Passed(tbl[n], vid) ELSE tbl[n]

VersionRows(tbl, n, prefix, delimiter, from, vid) ==
    IF Rolled(n, prefix, delimiter) THEN {PrefixRow(n)}
    ELSE {Row(n, v) : v \in VersionsLeft(tbl, n, from, vid)}

LEMMA VersionsLeftFacts ==
    ASSUME NEW tbl, GoodTable(tbl), NEW n \in Names, NEW from \in Nat, NEW vid, n >= from
    PROVE  VersionsLeft(tbl, n, from, vid) = {v \in tbl[n] : LeftBy(tbl, n, v, from, vid)}
  <1>1. \A v \in tbl[n] : v.modified \in Int
    BY DEF GoodTable, Version
  <1>2. n \in Nat
    BY FolderFacts
  <1>3. QED
    BY <1>1, <1>2 DEF VersionsLeft, LeftBy, Passed

LEMMA VersionRowsFacts ==
    ASSUME NEW tbl, GoodTable(tbl), NEW n \in Names, NEW prefix, NEW delimiter,
           NEW from \in Nat, NEW vid, n >= from,
           NEW rows, rows = VersionRows(tbl, n, prefix, delimiter, from, vid)
    PROVE  /\ rows \subseteq Rows /\ IsFiniteSet(rows)
           /\ Rolled(n, prefix, delimiter) =>
                /\ rows = {PrefixRow(n)}
                /\ Folder[n] # 0 /\ delimiter /\ prefix = Empty
                /\ PrefixRow(n).key = Folder[n] /\ PrefixRow(n).vid = NoVid
           /\ ~Rolled(n, prefix, delimiter) =>
                /\ \A r \in rows : \E v \in tbl[n] :
                    r = Row(n, v) /\ LeftBy(tbl, n, v, from, vid)
                /\ \A v \in tbl[n] : LeftBy(tbl, n, v, from, vid) => Row(n, v) \in rows
  <1>1. CASE Rolled(n, prefix, delimiter)
    <2>1. rows = {PrefixRow(n)}
      BY <1>1 DEF VersionRows
    <2>2. PrefixRow(n) \in Rows
      BY FolderFacts, TablesAssumption DEF PrefixRow, Rows
    <2>3. QED
      BY <1>1, <2>1, <2>2, FS_Singleton DEF Rolled, PrefixRow
  <1>2. CASE ~Rolled(n, prefix, delimiter)
    <2> DEFINE left == {v \in tbl[n] : LeftBy(tbl, n, v, from, vid)}
               f == [v \in left |-> Row(n, v)]
    <2>1. rows = {Row(n, v) : v \in left}
      BY <1>2, VersionsLeftFacts DEF VersionRows
    <2>2. rows = {f[v] : v \in left}
      BY <2>1
    <2>3. IsFiniteSet(left)
      BY FS_Subset DEF GoodTable
    <2>4. IsFiniteSet(rows)
      <3> HIDE DEF f, left
      <3>1. QED
        BY <2>2, <2>3, FiniteImage
    <2>5. rows \subseteq Rows
      BY <2>1, FolderFacts DEF Row, Rows, GoodTable, Version
    <2>6. QED
      BY <1>2, <2>1, <2>4, <2>5
  <1>3. QED
    BY <1>1, <1>2

\* What a page shows is behind the markers and in the table; what it leaves is
\* behind its own markers; and they are those of its last row.
PagesVersions(tbl, prefix, delimiter, from, vid, page) ==
    /\ page.rows \subseteq Rows
    /\ \A r \in page.rows : \E k \in Names :
        /\ k \in Under(prefix) /\ k >= from /\ tbl[k] # {}
        /\ \/ Rolled(k, prefix, delimiter) /\ r = PrefixRow(k)
           \/ /\ ~Rolled(k, prefix, delimiter)
              /\ \E v \in tbl[k] : r = Row(k, v) /\ LeftBy(tbl, k, v, from, vid)
    /\ \A k \in Under(prefix) : \A v \in tbl[k] : LeftBy(tbl, k, v, from, vid) =>
        \/ VersionShown(k, v, prefix, delimiter) \in page.rows
        \/ /\ page.next # Empty
           /\ \/ k > page.next
              \/ /\ k = page.next
                 /\ \A w \in tbl[k] : w.vid = page.nextVid => v.modified < w.modified
    /\ Marks(page.next, prefix, delimiter)
    /\ page.next = Empty => page.nextVid = NoVid
    /\ page.next # Empty =>
        /\ page.next >= from
        /\ \E last \in page.rows :
            /\ last.key = page.next /\ last.vid = page.nextVid
            /\ \A r \in page.rows :
                r.key < last.key \/ (r.key = last.key /\ r.modified >= last.modified)

LEMMA VersionsPage ==
    ASSUME NEW tbl, GoodTable(tbl),
           NEW prefix, NEW delimiter, Prefixed(prefix, delimiter),
           NEW from, Marks(from, prefix, delimiter), NEW vid,
           from = Empty => vid = NoVid, NEW n \in Nat \ {0},
           NEW page, page = ListObjectVersions(tbl, prefix, delimiter, from, vid, n)
    PROVE  PagesVersions(tbl, prefix, delimiter, from, vid, page)
  <1> DEFINE start == {k \in Names : tbl[k] # {} /\ k >= IF from # Empty THEN from ELSE prefix}
             keys == {k \in Under(prefix) : tbl[k] # {} /\ k >= from}
             R(k) == Rolled(k, prefix, delimiter)
             part(k) == VersionRows(tbl, k, prefix, delimiter, from, vid)
             f == [k \in Names |-> part(k)]
             rows == UNION {part(k) : k \in keys}
  <1>1. prefix \in Nat /\ from \in Nat /\ prefix \in {Empty} \cup Folders
    BY FolderFacts, FolderAssumption DEF Prefixed, Marks, Folders, Empty
  <1>2. start \in SUBSET Names /\ \A k \in start : k >= prefix
    BY <1>1, FolderFacts DEF Marks, Empty
  <1>3. Run(start, prefix) = start \cap Under(prefix)
    BY <1>1, <1>2, RunKeys
  <1>4. start \cap Under(prefix) = keys
    BY <1>1, UnderFrom, FolderFacts DEF Empty, Marks
  <1>5. page = PageOf(rows, n)
    <2>1. rows = UNION {IF Rolled(k, prefix, delimiter) THEN {PrefixRow(k)}
                        ELSE {[key |-> k, vid |-> v.vid, modified |-> v.modified] :
                              v \in IF k = from /\ vid # NoVid
                                    THEN tbl[k] \ Passed(tbl[k], vid) ELSE tbl[k]}
                        : k \in Run(start, prefix)}
      BY <1>3, <1>4 DEF VersionRows, VersionsLeft, Row
    <2>2. QED
      BY <2>1 DEF ListObjectVersions, Only
  <1>6. keys \in SUBSET Names /\ IsFiniteSet(keys) /\ \A k \in keys : k >= from /\ k \in Nat
    <2>1. keys \subseteq Objects(tbl)
      BY DEF Objects, Under
    <2>2. QED
      BY <2>1, FS_Subset, FolderFacts DEF GoodTable, Under
  <1>7. \A k \in keys :
            /\ part(k) \subseteq Rows /\ IsFiniteSet(part(k))
            /\ R(k) => /\ part(k) = {PrefixRow(k)}
                       /\ Folder[k] # 0 /\ delimiter /\ prefix = Empty
                       /\ PrefixRow(k).key = Folder[k] /\ PrefixRow(k).vid = NoVid
            /\ ~R(k) =>
                /\ \A r \in part(k) : \E v \in tbl[k] :
                    r = Row(k, v) /\ LeftBy(tbl, k, v, from, vid)
                /\ \A v \in tbl[k] : LeftBy(tbl, k, v, from, vid) => Row(k, v) \in part(k)
    <2>1. ASSUME NEW k \in keys
          PROVE  k \in Names /\ k >= from /\ part(k) = VersionRows(tbl, k, prefix, delimiter, from, vid)
      BY <1>6
    <2> HIDE DEF keys, part
    <2>2. QED
      BY <1>1, <2>1, VersionRowsFacts
  <1> HIDE DEF part, keys, start
  <1>8. IsFiniteSet(rows)
    <2>1. rows = UNION {f[k] : k \in keys} /\ \A S \in {f[k] : k \in keys} : IsFiniteSet(S)
      BY <1>6, <1>7
    <2>2. IsFiniteSet({f[k] : k \in keys})
      <3> HIDE DEF f
      <3>1. QED
        BY <1>6, FiniteImage
    <2> HIDE DEF f, rows
    <2>3. QED
      BY <2>1, <2>2, FS_UNION
  <1>9. rows \in SUBSET Rows
    BY <1>7
  \* The row of a key: a common prefix, or a version.
  <1>10. \A k \in keys : \A r \in part(k) :
            \/ R(k) /\ r = PrefixRow(k) /\ r.key = Folder[k] /\ r.vid = NoVid
               /\ Folder[k] # 0 /\ delimiter /\ prefix = Empty
            \/ /\ ~R(k) /\ r.key = k
               /\ \E v \in tbl[k] : r = Row(k, v) /\ LeftBy(tbl, k, v, from, vid)
                                      /\ r.vid = v.vid /\ r.modified = v.modified
    BY <1>7 DEF Row
  <1>11. \A k \in Names : delimiter /\ prefix = Empty /\ Folder[k] # 0 =>
            R(Folder[k]) /\ PrefixRow(Folder[k]) = PrefixRow(k)
    BY FolderFacts DEF Rolled, PrefixRow
  <1>12. ASSUME NEW k \in keys, NEW l \in keys, NEW r \in part(k), NEW s \in part(l)
         PROVE  r = s \/ RowBefore(r, s) \/ RowBefore(s, r)
    <2>1. k \in Names /\ l \in Names /\ r \in Rows /\ s \in Rows
      BY <1>6, <1>7
    <2>2. r.key \in Nat /\ s.key \in Nat
      BY <2>1 DEF Rows
    <2>3. CASE r.key # s.key
      BY <2>2, <2>3 DEF RowBefore
    <2>4. CASE r.key = s.key /\ R(k) /\ R(l)
      BY <1>10, <2>4 DEF PrefixRow
    <2>5. CASE r.key = s.key /\ ~R(k) /\ ~R(l)
      <3>1. k = l
        BY <1>10, <2>5
      <3>2. PICK v \in tbl[k] : r = Row(k, v) /\ r.modified = v.modified
        BY <1>10, <2>5
      <3>3. PICK w \in tbl[k] : s = Row(k, w) /\ s.modified = w.modified
        BY <1>10, <2>5, <3>1
      <3>4. CASE v.modified = w.modified
        BY <2>1, <3>2, <3>3, <3>4 DEF GoodTable
      <3>5. CASE v.modified # w.modified
        <4>1. v.modified \in Int /\ w.modified \in Int
          BY <2>1 DEF GoodTable, Version
        <4>2. QED
          BY <2>5, <3>2, <3>3, <3>5, <4>1 DEF RowBefore
      <3>6. QED
        BY <3>4, <3>5
    <2>6. CASE r.key = s.key /\ R(k) /\ ~R(l)
      BY <1>10, <1>11, <2>1, <2>6
    <2>7. CASE r.key = s.key /\ ~R(k) /\ R(l)
      BY <1>10, <1>11, <2>1, <2>7
    <2>8. QED
      BY <2>3, <2>4, <2>5, <2>6, <2>7
  <1>13. \A r, s \in rows : r = s \/ RowBefore(r, s) \/ RowBefore(s, r)
    BY <1>12
  <1>14. \A r \in rows : \E k \in keys : r \in part(k)
    OBVIOUS
  <1>15. \A k \in keys : part(k) \subseteq rows
    OBVIOUS
  <1> HIDE DEF rows
  <1>16. /\ page.rows \subseteq rows
         /\ \/ page.rows = rows /\ page.next = Empty /\ page.nextVid = NoVid
            \/ \E last \in page.rows :
                  /\ page.next = last.key /\ page.nextVid = last.vid
                  /\ \A r \in rows : r \in page.rows <=> r = last \/ RowBefore(r, last)
    BY <1>5, <1>8, <1>9, <1>13, PageFacts
  <1>17. page.rows \subseteq Rows
    BY <1>9, <1>16
  <1>18. ASSUME NEW r \in page.rows
         PROVE  \E k \in Names :
                    /\ k \in Under(prefix) /\ k >= from /\ tbl[k] # {}
                    /\ \/ R(k) /\ r = PrefixRow(k)
                       \/ /\ ~R(k)
                          /\ \E v \in tbl[k] : r = Row(k, v) /\ LeftBy(tbl, k, v, from, vid)
    <2>1. PICK k \in keys : r \in part(k)
      BY <1>14, <1>16
    <2>2. k \in Names /\ k \in Under(prefix) /\ k >= from /\ tbl[k] # {}
      BY <1>6 DEF keys
    <2>3. QED
      BY <1>10, <2>1, <2>2
  \* What is behind the markers has its row among those the page is taken from.
  <1>19. ASSUME NEW k \in Under(prefix), NEW v \in tbl[k], LeftBy(tbl, k, v, from, vid)
         PROVE  k \in keys /\ VersionShown(k, v, prefix, delimiter) \in part(k)
    <2>1. k \in keys
      BY <1>1, <1>19, FolderFacts DEF keys, LeftBy, Under
    <2>2. QED
      BY <1>7, <1>19, <2>1 DEF VersionShown
  <1>20. CASE page.rows = rows /\ page.next = Empty /\ page.nextVid = NoVid
    BY <1>15, <1>17, <1>18, <1>19, <1>20 DEF PagesVersions, Marks
  <1>21. ASSUME NEW last \in page.rows, page.next = last.key, page.nextVid = last.vid,
                \A r \in rows : r \in page.rows <=> r = last \/ RowBefore(r, last)
         PROVE  /\ Marks(page.next, prefix, delimiter) /\ page.next # Empty
                /\ page.next >= from
                /\ \A r \in page.rows :
                    r.key < last.key \/ (r.key = last.key /\ r.modified >= last.modified)
                /\ \A k \in Under(prefix) : \A v \in tbl[k] : LeftBy(tbl, k, v, from, vid) =>
                    \/ VersionShown(k, v, prefix, delimiter) \in page.rows
                    \/ k > page.next
                    \/ /\ k = page.next
                       /\ \A w \in tbl[k] : w.vid = page.nextVid => v.modified < w.modified
    <2>1. PICK k \in keys : last \in part(k)
      BY <1>14, <1>16, <1>21
    <2>2. k \in Names /\ k \in Under(prefix) /\ k >= from /\ k \in Nat
      BY <1>6 DEF keys
    <2>3. /\ R(k) => page.next = Folder[k] /\ last = PrefixRow(k)
                     /\ Folder[k] # 0 /\ delimiter /\ prefix = Empty
          /\ ~R(k) => page.next = k /\ \E v \in tbl[k] :
                        last = Row(k, v) /\ last.vid = v.vid /\ last.modified = v.modified
      BY <1>10, <1>21, <2>1
    <2>4. page.next \in Names /\ page.next # Empty /\ page.next <= k
      BY <2>2, <2>3, FolderFacts DEF Empty
    <2>5. delimiter => Folder[page.next] \in {Empty, page.next}
      <3>1. CASE R(k)
        BY <2>2, <2>3, <3>1, FolderFacts
      <3>2. CASE ~R(k)
        BY <2>3, <3>2 DEF Rolled, Prefixed, Empty
      <3>3. QED
        BY <3>1, <3>2
    <2>6. page.next >= from
      <3>1. CASE ~R(k)
        BY <2>2, <2>3, <3>1
      <3>2. CASE R(k) /\ from = Empty
        <4>1. page.next \in Nat /\ from = 0
          BY <2>4, <3>2, FolderFacts DEF Empty
        <4>2. QED
          BY <4>1
      <3>3. CASE R(k) /\ from # Empty
        <4>1. from \in Names /\ Folder[from] \in {Empty, from}
          BY <2>3, <3>3 DEF Marks
        <4>2. QED
          BY <2>2, <2>3, <3>3, <4>1, RolledBehind
      <3>4. QED
        BY <3>1, <3>2, <3>3
    <2>7. page.next >= prefix
      <3>1. CASE R(k)
        <4>1. prefix = 0 /\ page.next \in Nat
          BY <2>3, <2>4, <3>1, FolderFacts DEF Empty
        <4>2. QED
          BY <4>1
      <3>2. CASE ~R(k)
        BY <1>1, <2>2, <2>3, <3>2, UnderFrom
      <3>3. QED
        BY <3>1, <3>2
    <2>8. \A r \in page.rows :
            r.key < last.key \/ (r.key = last.key /\ r.modified >= last.modified)
      BY <1>17, <1>16, <1>21 DEF RowBefore, Rows
    <2>9. ASSUME NEW m \in Under(prefix), NEW v \in tbl[m], LeftBy(tbl, m, v, from, vid),
                 VersionShown(m, v, prefix, delimiter) \notin page.rows
          PROVE  \/ m > page.next
                 \/ /\ m = page.next
                    /\ \A w \in tbl[m] : w.vid = page.nextVid => v.modified < w.modified
      <3> DEFINE r == VersionShown(m, v, prefix, delimiter)
      <3>1. m \in keys /\ r \in part(m) /\ r \in rows /\ m \in Names /\ m \in Nat
        BY <1>6, <1>15, <1>19, <2>9
      <3>2. RowBefore(last, r)
        BY <1>13, <1>16, <1>21, <2>9, <3>1
      <3>3. r.key <= m /\ r.key \in Nat /\ last.key \in Nat
        <4>1. CASE R(m)
          BY <3>1, <4>1, FolderFacts, <1>17 DEF VersionShown, PrefixRow, Rows
        <4>2. CASE ~R(m)
          BY <3>1, <4>2, <1>17 DEF VersionShown, Row, Rows
        <4>3. QED
          BY <4>1, <4>2
      <3>4. CASE last.key < r.key
        BY <1>21, <3>1, <3>3, <3>4
      <3>5. CASE last.key = r.key /\ last.modified > r.modified /\ R(m)
        <4>1. r = PrefixRow(m) /\ r.key = Folder[m] /\ Folder[m] # 0 /\ delimiter /\ prefix = Empty
          BY <3>1, <3>5 DEF VersionShown, PrefixRow, Rolled
        <4>2. R(k)
          BY <1>11, <1>21, <2>3, <3>1, <3>5, <4>1
        <4>3. last = r
          BY <1>21, <2>3, <3>5, <4>1, <4>2 DEF PrefixRow
        <4>4. QED
          BY <1>21, <2>9, <4>3
      <3>6. CASE last.key = r.key /\ last.modified > r.modified /\ ~R(m)
        <4>1. r = Row(m, v) /\ r.key = m /\ r.modified = v.modified
          BY <3>6 DEF VersionShown, Row
        <4>2. ~R(k)
          BY <1>11, <1>21, <2>2, <2>3, <3>6, <4>1
        <4>3. k = m
          BY <1>21, <2>3, <3>6, <4>1, <4>2
        <4>4. PICK u \in tbl[m] : last.vid = u.vid /\ last.modified = u.modified
          BY <2>3, <4>2, <4>3
        <4>5. \A w \in tbl[m] : w.vid = page.nextVid => w = u
          BY <1>21, <3>1, <4>4 DEF GoodTable
        <4>6. v.modified < u.modified
          <5>1. v.modified \in Int /\ u.modified \in Int
            BY <3>1 DEF GoodTable, Version
          <5>2. QED
            BY <3>6, <4>1, <4>4, <5>1
        <4>7. QED
          BY <1>21, <3>6, <4>1, <4>5, <4>6
      <3>7. QED
        BY <3>2, <3>4, <3>5, <3>6 DEF RowBefore
    <2>10. QED
      BY <2>4, <2>5, <2>6, <2>7, <2>8, <2>9 DEF Marks
  <1>22. CASE \E last \in page.rows :
                  /\ page.next = last.key /\ page.nextVid = last.vid
                  /\ \A r \in rows : r \in page.rows <=> r = last \/ RowBefore(r, last)
    BY <1>17, <1>18, <1>21, <1>22 DEF PagesVersions
  <1>23. QED
    BY <1>16, <1>20, <1>22

-----------------------------------------------------------------------------
(***************************************************************************)
(* A page of parts.                                                        *)
(***************************************************************************)
\* The first numbers: with one, all before it, up to a greatest.
FirstNumbers(rest, n) == {k \in rest : Cardinality({m \in rest : m < k}) < n}

LEMMA FirstNumbersFacts ==
    ASSUME NEW rest, \A k \in rest : k \in Nat, IsFiniteSet(rest), NEW n \in Nat \ {0}
    PROVE  LET shown == FirstNumbers(rest, n)
           IN  /\ shown \subseteq rest
               /\ \A k \in shown : \A l \in rest : l < k => l \in shown
               /\ shown # rest => Max(shown) \in shown /\ \A l \in shown : Max(shown) >= l
  <1> DEFINE lt == {p \in rest \X rest : p[1] < p[2]}
             shown == FirstNumbers(rest, n)
  <1>1. \A k, l \in rest : <<k, l>> \in lt <=> k < l
    OBVIOUS
  <1>2. \A k \in rest : Below(lt, rest, k) = {m \in rest : m < k}
    BY <1>1 DEF Below
  <1> HIDE DEF lt
  <1>3. Strict(lt, rest)
    BY <1>1 DEF Strict
  <1>4. shown \subseteq rest /\ shown = {x \in rest : Cardinality(Below(lt, rest, x)) < n}
    BY <1>2 DEF FirstNumbers
  <1> HIDE DEF shown
  <1>5. ASSUME NEW k \in shown, NEW l \in rest, l < k PROVE l \in shown
    <2>1. k \in rest /\ <<l, k>> \in lt /\ Cardinality(Below(lt, rest, k)) < n
      BY <1>1, <1>4, <1>5
    <2>2. Cardinality(Below(lt, rest, l)) < n
      BY <1>3, <2>1, FirstBelow
    <2>3. QED
      BY <1>4, <2>2
  <1>6. ASSUME shown # rest
        PROVE  Max(shown) \in shown /\ \A l \in shown : Max(shown) >= l
    <2>1. shown # {}
      <3>1. rest # {} => \E k \in rest : Cardinality(Below(lt, rest, k)) < n
        BY <1>3, FirstSome
      <3>2. QED
        BY <1>4, <1>6, <3>1
    <2>2. PICK k \in shown : \A l \in shown : <<k, l>> \notin lt
      BY <1>3, <1>4, <2>1, MaximalElement
    <2>3. ASSUME NEW l \in shown PROVE k >= l
      <3>1. k \in rest /\ l \in rest
        BY <1>4
      <3>2. k \in Nat /\ l \in Nat /\ ~(k < l)
        BY <1>1, <2>2, <3>1
      <3>3. QED
        BY <3>2
    <2>4. QED
      BY <2>3 DEF Max
  <1>7. QED
    BY <1>4, <1>5, <1>6 DEF shown

LEMMA PartsPage ==
    ASSUME NEW S \in SUBSET (Nat \ {0}), IsFiniteSet(S), NEW from \in Nat, NEW n \in Nat \ {0},
           NEW page, page = ListObjectParts(S, from, n)
    PROVE  /\ \A r \in page.rows : \E k \in S :
                r = ObjectRow(k) /\ k > from /\ (page.next # Empty => k <= page.next)
           /\ \A k \in S : k > from => ObjectRow(k) \in page.rows
                                       \/ (page.next # Empty /\ k > page.next)
           /\ page.next # Empty => page.next \in S /\ page.next > from
  <1> DEFINE rest == {k \in S : k > from}
             shown == FirstNumbers(rest, n)
  <1>1. IsFiniteSet(rest) /\ \A k \in rest : k \in Nat
    BY FS_Subset
  <1>2. page = [rows |-> {ObjectRow(k) : k \in shown},
                next |-> IF shown = rest THEN Empty ELSE Max(shown)]
    BY DEF ListObjectParts, FirstNumbers
  <1>3. \A k \in S : k > from <=> k \in rest
    OBVIOUS
  <1>4. rest \subseteq S
    OBVIOUS
  <1>5. /\ shown \subseteq rest
        /\ \A k \in shown : \A l \in rest : l < k => l \in shown
        /\ shown # rest => Max(shown) \in shown /\ \A l \in shown : Max(shown) >= l
    BY <1>1, FirstNumbersFacts
  <1> HIDE DEF shown, rest
  <1>6. CASE shown = rest
    BY <1>2, <1>3, <1>4, <1>6
  <1>7. CASE shown # rest
    <2>1. page.next = Max(shown) /\ page.next # Empty /\ page.next \in shown
      BY <1>2, <1>4, <1>5, <1>7 DEF Empty
    <2>2. \A l \in shown : l <= page.next /\ l \in S /\ l > from
      BY <1>1, <1>3, <1>4, <1>5, <1>7, <2>1
    <2>3. ASSUME NEW l \in rest, l \notin shown PROVE l > page.next
      <3>1. l \in Nat /\ page.next \in Nat /\ ~(l < page.next) /\ l # page.next
        BY <1>1, <1>5, <2>1, <2>3
      <3>2. QED
        BY <3>1
    <2>4. QED
      BY <1>2, <1>3, <2>1, <2>2, <2>3
  <1>8. QED
    BY <1>6, <1>7

-----------------------------------------------------------------------------
(***************************************************************************)
(* What is listed, and what there is.                                      *)
(***************************************************************************)
LEMMA JobFacts ==
    ASSUME job \in Jobs
    PROVE  /\ job.kind \in Kinds \cup {"parts"}
           /\ Prefixed(job.prefix, job.delimiter)
           /\ job.kind = "parts" => job.prefix = Empty /\ job.delimiter = FALSE
           /\ job.kind = "zip" => job.delimiter = FALSE
           /\ PageSize(job.asked) \in Nat \ {0}
  <1>1. /\ job.kind \in Kinds \cup {"parts"}
        /\ Prefixed(job.prefix, job.delimiter)
        /\ job.kind = "parts" => job.prefix = Empty /\ job.delimiter = FALSE
        /\ job.kind = "zip" => job.delimiter = FALSE
    BY DEF Jobs, Walks, Kinds, Prefixed
  <1>2. job.asked \in Int
    <2>1. job.asked \in PageSizes \cup {0}
      BY DEF Jobs, Empty
    <2>2. PageSizes \subseteq Int
      BY PageAssumption
    <2>3. CASE job.asked = 0
      BY <2>3
    <2>4. CASE job.asked \in PageSizes
      BY <2>2, <2>4
    <2>5. QED
      BY <2>1, <2>3, <2>4
  <1>3. PageSize(job.asked) \in Nat \ {0}
    BY <1>2, PageAssumption DEF PageSize
  <1>4. QED
    BY <1>1, <1>3

LEMMA PresentFacts ==
    ASSUME NEW kind, NEW t, NEW p, NEW r \in Present(kind, t, p)
    PROVE  /\ kind = "versions" => \E n \in Names : \E v \in t[n] : r = Row(n, v)
           /\ kind = "parts" => \E n \in p : r = ObjectRow(n)
           /\ kind \notin {"versions", "parts"} => \E n \in Objects(t) : r = ObjectRow(n)
  BY DEF Present, Row

LEMMA ListingTypeOK == ListingInv => TypeOK
  <1> SUFFICES ASSUME ListingInv PROVE TypeOK
    OBVIOUS
  <1>1. ASSUME NEW n \in Names
        PROVE  /\ versions[n] \subseteq [vid : Int, modified : Int]
               /\ Cardinality({v.vid : v \in versions[n]}) = Cardinality(versions[n])
    <2> DEFINE T == {v.vid : v \in versions[n]}
               f == [v \in versions[n] |-> v.vid]
    <2>1. IsFiniteSet(versions[n]) /\ \A v, w \in versions[n] : v.vid = w.vid => v = w
      BY DEF ListingInv, TableOK
    <2>2. f \in Bijection(versions[n], T)
      BY <2>1 DEF Bijection, Injection, Surjection, IsInjective
    <2>3. Cardinality(T) = Cardinality(versions[n])
      BY <2>1, <2>2, FS_Bijection DEF ExistsBijection
    <2>4. QED
      BY <2>3 DEF ListingInv, TableOK, Version
  <1>2. QED
    BY <1>1 DEF ListingInv, TableOK, MarkerOK, CallerOK, TypeOK

\* A listing is at its end only when nothing is yet to come.
LEMMA ListingStayers == ListingInv => StayersListed
  BY DEF ListingInv, StayersKept, StayersListed

LEMMA InitTable ==
    ASSUME Init
    PROVE  TableOK
  <1>1. CASE job.kind = "parts"
    <2>1. versions = [n \in Names |-> {}] /\ parts \subseteq PartNumbers /\ writes = 0
      BY <1>1 DEF Init
    <2>2. Objects(versions) = {}
      BY <2>1 DEF Objects
    <2>3. QED
      BY <2>1, <2>2, FS_EmptySet, PageAssumption DEF TableOK, Version
  <1>2. CASE job.kind # "parts"
    <2>1. versions \in Tables(job.kind) /\ parts = {} /\ writes = 0 /\ job.kind \in Kinds
      BY <1>2, JobFacts DEF Init
    <2>2. QED
      BY <2>1, TablesAssumption, PageAssumption DEF TableOK, Version
  <1>3. QED
    BY <1>1, <1>2

\* A row has a key.
LEMMA StayedKeys ==
    ASSUME job \in Jobs, parts \subseteq PartNumbers,
           stayed \subseteq Present(job.kind, versions, parts), NEW r \in stayed
    PROVE  r.key \in Nat \ {0}
  <1>1. r \in Present(job.kind, versions, parts)
    OBVIOUS
  <1>2. r.key \in Names \/ r.key \in PartNumbers
    BY <1>1, PresentFacts DEF Row, ObjectRow, Objects
  <1>3. QED
    BY <1>2, FolderAssumption, PageAssumption

LEMMA ListingInvInit == Init => ListingInv
  <1> SUFFICES ASSUME Init PROVE ListingInv
    OBVIOUS
  <1>1. TableOK
    BY InitTable
  <1>2. MarkerOK
    BY TablesAssumption, PageAssumption DEF Init, MarkerOK
  <1>3. CallerOK
    BY FS_EmptySet DEF Init, CallerOK
  <1>4. StayersKept
    <2>1. \A r \in stayed : r.key > marker
      BY <1>1, <1>3, StayedKeys DEF Init, Empty, TableOK, CallerOK
    <2>2. QED
      BY <2>1 DEF Init, StayersKept, Ahead
  <1>5. ListedBehind /\ NoRepeats
    BY DEF Init, ListedBehind, NoRepeats
  <1>6. QED
    BY <1>1, <1>2, <1>3, <1>4, <1>5 DEF ListingInv

-----------------------------------------------------------------------------
(***************************************************************************)
(* Changes by others.                                                      *)
(***************************************************************************)
\* A new record of a key replaces the one that has its id; its time is its own.
LEMMA ReplacedFacts ==
    ASSUME TableOK, NEW n \in Names, NEW vid \in {NoVid, NullVid, writes + 1}, writes < MaxWrites,
           NEW v, v = [vid |-> vid, modified |-> writes + 1],
           NEW S, S = Replaced(versions[n], v)
    PROVE  /\ S \in SUBSET Version /\ IsFiniteSet(S) /\ S # {}
           /\ \A w \in S : w.modified <= writes + 1 /\ w.vid \notin (writes + 2)..MaxWrites
           /\ \A u, w \in S : u.vid = w.vid \/ u.modified = w.modified => u = w
           /\ \A w \in S : w \in versions[n] \/ w = v
  <1>1. /\ versions[n] \subseteq Version /\ IsFiniteSet(versions[n])
        /\ writes \in Nat /\ MaxWrites \in Nat
        /\ \A w \in versions[n] : w.modified <= writes /\ w.vid \notin (writes + 1)..MaxWrites
        /\ \A u, w \in versions[n] : u.vid = w.vid \/ u.modified = w.modified => u = w
    BY PageAssumption DEF TableOK
  <1>2. /\ NoVid \in Int \ (1..MaxWrites) /\ NullVid \in Int \ (1..MaxWrites)
        /\ vid \in Int /\ vid \notin (writes + 2)..MaxWrites
        /\ v \in Version /\ v.vid = vid /\ v.modified = writes + 1
    BY <1>1, TablesAssumption DEF Version
  <1>3. S = {w \in versions[n] : w.vid # v.vid} \cup {v}
    BY DEF Replaced
  <1>4. IsFiniteSet(S)
    <2>1. IsFiniteSet({w \in versions[n] : w.vid # v.vid})
      BY <1>1, FS_Subset
    <2>2. QED
      BY <1>3, <2>1, FS_AddElement
  <1>5. ASSUME NEW w \in versions[n]
        PROVE  /\ w.modified \in Int /\ w.vid \in Int /\ w.modified < writes + 1
               /\ w.vid \notin (writes + 2)..MaxWrites
    BY <1>1 DEF Version
  <1>6. QED
    BY <1>1, <1>2, <1>3, <1>4, <1>5

\* A record after a change: it was there, or is new, with the empty id, an id of
\* its own or the reused "null".
Recorded(n, w) ==
    \/ w \in versions[n]
    \/ w.vid \in {NoVid, writes + 1}
    \/ /\ w.vid = NullVid /\ w.modified = writes + 1
       /\ n = marker /\ vidMarker = NullVid => n \in renewed'

\* What a change does to the table.
TableChange ==
    /\ TableOK'
    /\ \A n \in Names : \A w \in versions'[n] : Recorded(n, w)
    /\ renewed \subseteq renewed' /\ renewed' \subseteq Names
    /\ writes < MaxWrites /\ writes' = writes + 1 /\ pc # "done"
    /\ stayed' = stayed \cap Present(job.kind, versions', parts')
    /\ UNCHANGED <<job, pc, marker, vidMarker, todo, listed, again, passed, cut>>

\* One key's records are replaced by others.
LEMMA KeyChange ==
    ASSUME TableOK, NEW n \in Names, NEW S \in SUBSET Version, IsFiniteSet(S),
           \A w \in S : w.modified <= writes + 1 /\ w.vid \notin (writes + 2)..MaxWrites,
           \A u, w \in S : u.vid = w.vid \/ u.modified = w.modified => u = w,
           \A w \in S : Recorded(n, w),
           renewed \subseteq renewed', renewed' \subseteq Names,
           Changed([versions EXCEPT ![n] = S], parts)
    PROVE  TableChange
  <1>1. /\ versions' \in [Names -> SUBSET Version] /\ versions'[n] = S
        /\ \A m \in Names \ {n} : versions'[m] = versions[m]
        /\ writes' = writes + 1 /\ parts' = parts /\ writes < MaxWrites
    BY DEF Changed, TableOK
  <1>2. IsFiniteSet(Objects(versions'))
    <2>1. Objects(versions') \subseteq Objects(versions) \cup {n}
      BY <1>1 DEF Objects
    <2>2. IsFiniteSet(Objects(versions) \cup {n})
      BY FS_AddElement DEF TableOK
    <2>3. QED
      BY <2>1, <2>2, FS_Subset
  <1>3. ASSUME NEW m \in Names
        PROVE  /\ IsFiniteSet(versions'[m])
               /\ \A v \in versions'[m] :
                    v.modified <= writes' /\ v.vid \notin (writes' + 1)..MaxWrites
               /\ \A v, w \in versions'[m] : v.vid = w.vid \/ v.modified = w.modified => v = w
               /\ \A w \in versions'[m] : Recorded(m, w)
    <2>1. CASE m = n
      <3>1. writes' + 1 = writes + 2
        BY <1>1 DEF TableOK
      <3>2. QED
        BY <1>1, <2>1, <3>1
    <2>2. CASE m # n
      <3>1. versions'[m] = versions[m]
        BY <1>1, <2>2
      <3>2. ASSUME NEW v \in versions[m]
            PROVE  v.modified <= writes' /\ v.vid \notin (writes' + 1)..MaxWrites
        <4>1. /\ v.modified \in Int /\ v.vid \in Int /\ writes \in Nat /\ MaxWrites \in Nat
              /\ v.modified <= writes /\ v.vid \notin (writes + 1)..MaxWrites
          BY PageAssumption DEF TableOK, Version
        <4>2. QED
          BY <1>1, <4>1
      <3>3. QED
        BY <3>1, <3>2 DEF TableOK, Recorded
    <2>3. QED
      BY <2>1, <2>2
  <1>4. parts' \subseteq PartNumbers /\ writes' \in 0..MaxWrites
    BY <1>1, PageAssumption DEF TableOK
  <1>5. TableOK'
    BY <1>1, <1>2, <1>3, <1>4 DEF TableOK
  <1>6. QED
    BY <1>3, <1>5 DEF TableChange, Changed

LEMMA OthersChange ==
    ASSUME ListingInv, Others
    PROVE  TableChange
  <1>1. TableOK
    BY DEF ListingInv
  <1>0. renewed \subseteq Names
    BY DEF ListingInv, CallerOK
  <1>2. ASSUME NEW n \in Names, NEW vid \in {NoVid, NullVid, writes + 1}, PutObject(n, vid)
        PROVE  TableChange
    <2> DEFINE v == [vid |-> vid, modified |-> writes + 1]
               S == Replaced(versions[n], v)
    <2>1. Changed([versions EXCEPT ![n] = S], parts) /\ writes < MaxWrites
      BY <1>2 DEF PutObject, Changed
    <2>2. /\ S \in SUBSET Version /\ IsFiniteSet(S) /\ S # {}
          /\ \A w \in S : w.modified <= writes + 1 /\ w.vid \notin (writes + 2)..MaxWrites
          /\ \A u, w \in S : u.vid = w.vid \/ u.modified = w.modified => u = w
          /\ \A w \in S : w \in versions[n] \/ w = v
      BY <1>1, <2>1, ReplacedFacts
    <2>3. /\ renewed \subseteq renewed' /\ renewed' \subseteq Names
          /\ n = marker /\ vid = vidMarker /\ vid # NoVid => n \in renewed'
      BY <1>0, <1>2 DEF PutObject
    <2> HIDE DEF S
    <2>4. \A w \in S : Recorded(n, w)
      BY <2>2, <2>3, TablesAssumption DEF Recorded
    <2>5. QED
      BY <1>1, <2>1, <2>2, <2>3, <2>4, KeyChange
  <1>3. ASSUME NEW n \in Names, NEW v \in versions[n], DeleteVersion(n, v)
        PROVE  TableChange
    <2> DEFINE S == versions[n] \ {v}
    <2>1. Changed([versions EXCEPT ![n] = S], parts)
      BY <1>3 DEF DeleteVersion
    <2>2. S \in SUBSET Version /\ IsFiniteSet(S)
      BY <1>1, FS_Subset DEF TableOK
    <2>3. \A w \in S : w.modified <= writes + 1 /\ w.vid \notin (writes + 2)..MaxWrites
      <3>1. ASSUME NEW w \in versions[n]
            PROVE  w.modified <= writes + 1 /\ w.vid \notin (writes + 2)..MaxWrites
        <4>1. /\ w.modified \in Int /\ w.vid \in Int /\ writes \in Nat /\ MaxWrites \in Nat
              /\ w.modified <= writes /\ w.vid \notin (writes + 1)..MaxWrites
          BY <1>1, PageAssumption DEF TableOK, Version
        <4>2. QED
          BY <4>1
      <3>2. QED
        BY <3>1
    <2>4. \A u, w \in S : u.vid = w.vid \/ u.modified = w.modified => u = w
      BY <1>1 DEF TableOK
    <2>5. \A w \in S : Recorded(n, w)
      BY DEF Recorded
    <2>6. renewed' = renewed
      BY <1>3 DEF DeleteVersion
    <2> HIDE DEF S
    <2>7. QED
      BY <1>0, <1>1, <2>1, <2>2, <2>3, <2>4, <2>5, <2>6, KeyChange
  <1>4. ASSUME NEW n \in PartNumbers, PutPart(n)
        PROVE  TableChange
    <2>1. /\ versions' = versions /\ parts' = parts \cup {n}
          /\ writes' = writes + 1 /\ writes < MaxWrites
      BY <1>4 DEF PutPart, Changed
    <2>2. ASSUME NEW m \in Names, NEW v \in versions[m]
          PROVE  v.modified <= writes' /\ v.vid \notin (writes' + 1)..MaxWrites
      <3>1. /\ v.modified \in Int /\ v.vid \in Int /\ writes \in Nat /\ MaxWrites \in Nat
            /\ v.modified <= writes /\ v.vid \notin (writes + 1)..MaxWrites
        BY <1>1, PageAssumption DEF TableOK, Version
      <3>2. QED
        BY <2>1, <3>1
    <2>3. parts' \subseteq PartNumbers /\ writes' \in 0..MaxWrites
      <3>1. parts \subseteq PartNumbers /\ writes \in 0..MaxWrites /\ MaxWrites \in Nat
        BY <1>1, PageAssumption DEF TableOK
      <3>2. QED
        BY <2>1, <3>1
    <2>4. TableOK'
      BY <1>1, <2>1, <2>2, <2>3 DEF TableOK
    <2>5. QED
      BY <1>0, <1>4, <2>1, <2>4 DEF PutPart, Changed, TableChange, Recorded
  <1>5. QED
    BY <1>2, <1>3, <1>4 DEF Others

\* A version that the marker names is not written again, but for "null": its
\* key then counts as renewed, and it is newer than all that stayed.
LEMMA MarkerVersion ==
    ASSUME ListingInv, TableChange, marker \in Names, vidMarker # NoVid,
           NEW v \in versions'[marker], v.vid = vidMarker
    PROVE  v \in versions[marker] \/ (marker \in renewed' /\ v.modified = writes + 1)
  <1>1. vidMarker # writes'
    <2>1. writes \in Nat /\ MaxWrites \in Nat /\ writes + 1 \in (writes + 1)..MaxWrites
      BY PageAssumption DEF ListingInv, TableOK, TableChange
    <2>2. QED
      BY <2>1 DEF ListingInv, MarkerOK, TableChange
  <1>2. QED
    BY <1>1 DEF TableChange, Recorded

LEMMA VersionsMarker ==
    ASSUME ListingInv, marker # Empty, job.kind = "versions"
    PROVE  marker \in Names
  BY DEF ListingInv, MarkerOK

LEMMA OthersKeep ==
    ASSUME ListingInv, Others
    PROVE  ListingInv'
  <1>1. TableChange
    BY OthersChange
  <1>2. TableOK'
    BY <1>1 DEF TableChange
  <1>3. MarkerOK'
    <2>1. vidMarker' \in Int \ ((writes' + 1)..MaxWrites)
      <3>1. writes \in Nat /\ MaxWrites \in Nat /\ vidMarker \in Int \ ((writes + 1)..MaxWrites)
        BY PageAssumption DEF ListingInv, TableOK, MarkerOK
      <3>2. QED
        BY <1>1, <3>1 DEF TableChange
    <2>2. QED
      BY <1>1, <2>1 DEF ListingInv, MarkerOK, TableChange
  <1>4. CallerOK'
    BY <1>1 DEF ListingInv, CallerOK, TableChange
  <1>5. StayersKept'
    <2>1. ASSUME NEW r \in stayed', Asked(r)'
          PROVE  \/ (Shown(r) \in listed)' \/ r.key \in passed'
                 \/ pc' = "page" /\ Ahead(r)'
                 \/ pc' = "fetch" /\ (r.key \in todo' \/ (marker' # Empty /\ r.key > marker'))
      <3>1. r \in stayed /\ Asked(r) /\ pc # "done"
        BY <1>1, <2>1 DEF TableChange, Asked
      <3>2. CASE pc = "page" /\ Ahead(r)
        <4>1. CASE r.key > marker \/ vidMarker = NoVid
          BY <1>1, <3>2, <4>1 DEF Ahead, TableChange
        <4>2. CASE ~(r.key > marker) /\ vidMarker # NoVid
          <5>1. r.key = marker /\ job.kind = "versions" /\ marker # Empty
            BY <3>2, <4>2 DEF Ahead, ListingInv, MarkerOK
          <5>2. \A v \in versions'[marker] : v.vid = vidMarker => r.modified < v.modified
            <6>1. \E v \in versions[marker] : r.modified = v.modified
              BY <3>1, <5>1, PresentFacts, VersionsMarker DEF ListingInv, CallerOK, Row
            <6>2. r.modified \in Int /\ writes \in Int /\ r.modified <= writes
              BY <5>1, <6>1, VersionsMarker DEF ListingInv, TableOK, Version
            <6>3. QED
              BY <1>1, <3>2, <4>2, <5>1, <6>2, MarkerVersion, VersionsMarker DEF Ahead
          <5>3. QED
            BY <1>1, <3>2, <5>1, <5>2 DEF Ahead, TableChange
        <4>3. QED
          BY <4>1, <4>2
      <3>3. CASE Shown(r) \in listed \/ r.key \in passed
        BY <1>1, <3>3 DEF Shown, TableChange
      <3>4. CASE pc = "fetch" /\ (r.key \in todo \/ (marker # Empty /\ r.key > marker))
        BY <1>1, <3>4 DEF TableChange
      <3>5. QED
        BY <3>1, <3>2, <3>3, <3>4 DEF ListingInv, StayersKept
    <2>2. QED
      BY <2>1 DEF StayersKept
  <1>6. ListedBehind'
    <2>1. ASSUME pc' = "page", NEW r \in listed' PROVE Behind(r)'
      <3>1. r \in listed /\ Behind(r)
        BY <1>1, <2>1 DEF ListingInv, ListedBehind, TableChange
      <3>2. CASE r.key < marker \/ (r.key = marker /\ (job.kind # "versions" \/ Repeatable(r)))
        BY <1>1, <3>2 DEF Behind, Repeatable, TableChange
      <3>3. CASE /\ r.key = marker /\ job.kind = "versions" /\ vidMarker # NoVid
                 /\ \A v \in versions[marker] : v.vid = vidMarker => v.modified <= r.modified
        <4>1. marker # Empty
          BY <3>3 DEF ListingInv, MarkerOK
        <4>2. \/ r.key \in renewed'
              \/ \A v \in versions'[marker] : v.vid = vidMarker => v.modified <= r.modified
          BY <1>1, <3>3, <4>1, MarkerVersion, VersionsMarker
        <4>3. QED
          BY <1>1, <3>3, <4>2 DEF Behind, Repeatable, TableChange
      <3>4. QED
        BY <3>1, <3>2, <3>3 DEF Behind
    <2>2. QED
      BY <1>1, <2>1 DEF ListingInv, ListedBehind, TableChange
  <1>7. NoRepeats'
    BY <1>1 DEF ListingInv, NoRepeats, TableChange
  <1>8. QED
    BY <1>2, <1>3, <1>4, <1>5, <1>6, <1>7 DEF ListingInv

-----------------------------------------------------------------------------
(***************************************************************************)
(* The pages that the caller gets.                                         *)
(***************************************************************************)
\* The markers are part of what a page is asked for.
LEMMA MarkerFacts ==
    ASSUME ListingInv, job.kind # "parts"
    PROVE  /\ Marks(marker, job.prefix, job.delimiter)
           /\ Prefixed(job.prefix, job.delimiter)
           /\ PageSize(job.asked) \in Nat \ {0}
           /\ marker = Empty => vidMarker = NoVid
           /\ GoodTable(versions)
  BY JobFacts DEF ListingInv, MarkerOK, CallerOK, TableOK, Marks, GoodTable

LEMMA MarkersKept ==
    ASSUME ListingInv, Marks(marker', job.prefix, job.delimiter), job' = job, writes' = writes,
           job.kind # "parts", vidMarker' \in Int \ ((writes + 1)..MaxWrites),
           marker' = Empty \/ job.kind # "versions" => vidMarker' = NoVid
    PROVE  MarkerOK'
  BY DEF MarkerOK, Marks

\* A page, with the marker of the next, of what shows rows for keys.
LEMMA ObjectsTurn ==
    ASSUME ListingInv, pc = "page", job.kind \in {"ListObjects", "ListObjectsV2", "console"},
           NEW page, page = ListObjects(Objects(versions), job.prefix, job.delimiter, marker,
                                        PageSize(job.asked)),
           Receive(page.rows),
           pc' = IF page.next # Empty THEN "page" ELSE "done", marker' = page.next,
           UNCHANGED <<table, job, stayed, renewed, todo, cut, vidMarker, passed>>
    PROVE  ListingInv'
  <1> DEFINE Sh(k) == ObjectShown(k, job.prefix, job.delimiter)
  <1>1. job.kind \notin {"versions", "parts", "zip"}
    OBVIOUS
  <1>2. /\ Marks(marker, job.prefix, job.delimiter) /\ Prefixed(job.prefix, job.delimiter)
        /\ PageSize(job.asked) \in Nat \ {0}
        /\ Objects(versions) \in SUBSET Names /\ IsFiniteSet(Objects(versions))
    BY <1>1, MarkerFacts DEF GoodTable, Objects
  <1>3. /\ page.rows \subseteq Rows
        /\ \A r \in page.rows : \E k \in Objects(versions) :
            k \in Under(job.prefix) /\ k > marker /\ r = Sh(k)
        /\ \A k \in Objects(versions) : k \in Under(job.prefix) /\ k > marker =>
            Sh(k) \in page.rows \/ (page.next # Empty /\ k > page.next)
        /\ Marks(page.next, job.prefix, job.delimiter)
        /\ page.next # Empty => page.next >= marker /\ \A r \in page.rows : r.key <= page.next
    BY <1>2, ObjectsPage
  <1>4. UNCHANGED <<versions, parts, writes, job, stayed, renewed, todo, cut, vidMarker, passed>>
    BY DEF table
  <1>5. listed' = listed \cup page.rows /\ again' = again \cup (listed \cap page.rows)
    BY DEF Receive
  <1>6. TableOK'
    BY <1>4 DEF ListingInv, TableOK
  <1>7. MarkerOK'
    BY <1>1, <1>3, <1>4, MarkersKept DEF ListingInv, MarkerOK
  <1>8. CallerOK'
    BY <1>1, <1>3, <1>4, <1>5 DEF ListingInv, CallerOK
  <1>9. StayersKept'
    <2>1. ASSUME NEW r \in stayed, Asked(r)
          PROVE  \/ Shown(r) \in listed' \/ r.key \in passed'
                 \/ page.next # Empty /\ r.key > page.next
      <3>1. PICK n \in Objects(versions) : r = ObjectRow(n)
        BY <1>1, PresentFacts DEF ListingInv, CallerOK
      <3>2. r.key = n /\ Shown(r) = Sh(n) /\ n \in Under(job.prefix)
        BY <1>1, <2>1, <3>1 DEF Shown, ObjectShown, ObjectRow, Asked
      <3>3. CASE Shown(r) \in listed \/ r.key \in passed
        BY <1>4, <1>5, <3>3
      <3>4. CASE Ahead(r)
        BY <1>1, <1>3, <1>5, <3>2, <3>4 DEF Ahead
      <3>5. QED
        BY <2>1, <3>3, <3>4 DEF ListingInv, StayersKept
    <2>2. ASSUME NEW r \in stayed', Asked(r)'
          PROVE  (Shown(r) \in listed)' \/ r.key \in passed' \/ (pc' = "page" /\ Ahead(r)')
      <3>1. r \in stayed /\ Asked(r) /\ Shown(r)' = Shown(r)
        BY <1>4, <2>2 DEF Asked, Shown
      <3>2. QED
        BY <2>1, <3>1 DEF Ahead
    <2>3. QED
      BY <2>2 DEF StayersKept
  <1>10. ListedBehind'
    <2>1. ASSUME page.next # Empty, NEW r \in listed'
          PROVE  r.key < page.next \/ r.key = page.next
      <3>1. page.next \in Nat /\ marker \in Nat
        BY <1>2, <1>3, FolderFacts DEF Marks, Empty
      <3>2. r.key \in Nat
        BY <1>3, <1>5 DEF ListingInv, CallerOK, Rows
      <3>3. CASE r \in page.rows
        BY <1>3, <2>1, <3>1, <3>2, <3>3
      <3>4. CASE r \in listed
        <4>1. r.key < marker \/ r.key = marker
          BY <3>4 DEF ListingInv, ListedBehind, Behind
        <4>2. QED
          BY <1>3, <2>1, <3>1, <3>2, <4>1
      <3>5. QED
        BY <1>5, <3>3, <3>4
    <2>2. ASSUME pc' = "page", NEW r \in listed' PROVE Behind(r)'
      <3>1. page.next # Empty /\ job'.kind # "versions"
        BY <1>1, <1>4, <2>2
      <3>2. QED
        BY <2>1, <3>1 DEF Behind
    <2>3. pc' # "fetch"
      OBVIOUS
    <2>4. QED
      BY <2>2, <2>3 DEF ListedBehind
  <1>11. NoRepeats'
    <2>1. ASSUME NEW r \in listed \cap page.rows PROVE r.key \in Folders /\ job.delimiter
      <3>1. PICK k \in Objects(versions) : k > marker /\ r = Sh(k)
        BY <1>3
      <3>2. r.key < marker \/ r.key = marker
        BY DEF ListingInv, ListedBehind, Behind
      <3>3. marker \in Nat /\ k \in Names /\ k \in Nat /\ r.key \in Nat
        BY <1>2, <1>3, FolderFacts DEF Marks, Empty, Rows
      <3>4. r.key # k
        BY <3>1, <3>2, <3>3
      <3>5. QED
        BY <3>1, <3>3, <3>4, ObjectShownFacts
    <2>2. \A r \in again' : (r \in again) \/ (r \in listed \cap page.rows)
      BY <1>5
    <2>3. QED
      BY <1>4, <1>5, <2>1, <2>2 DEF ListingInv, NoRepeats
  <1>12. QED
    BY <1>6, <1>7, <1>8, <1>9, <1>10, <1>11 DEF ListingInv

LEMMA ClientObjectsKeep ==
    ASSUME ListingInv, UNCHANGED <<table, job, stayed, renewed>>,
           ClientListObjects \/ ClientListObjectsV2 \/ ConsoleListObjects
    PROVE  ListingInv'
  <1> DEFINE read == ListObjects(Objects(versions), job.prefix, job.delimiter, marker,
                                 PageSize(job.asked))
  <1>1. /\ pc = "page" /\ job.kind \in {"ListObjects", "ListObjectsV2", "console"}
        /\ Receive(read.rows)
        /\ pc' = IF read.next # Empty THEN "page" ELSE "done"
        /\ marker' = read.next
        /\ UNCHANGED <<todo, cut, vidMarker, passed>>
    <2> HIDE DEF read
    <2>1. S3ListObjects = [rows |-> read.rows, next |-> read.next, truncated |-> read.next # Empty]
      BY DEF S3ListObjects, BackendListObjects, read
    <2>2. S3ListObjectsV2 = [rows |-> read.rows, next |-> read.next, truncated |-> read.next # Empty]
      BY DEF S3ListObjectsV2, BackendListObjectsV2, read
    <2>3. AdminListObjects = [rows |-> read.rows, next |-> read.next, truncated |-> read.next # Empty]
      BY DEF AdminListObjects, read
    <2> DEFINE answer == [rows |-> read.rows, next |-> read.next, truncated |-> read.next # Empty]
    <2>4. /\ answer.rows = read.rows /\ answer.next = read.next
          /\ answer.truncated <=> read.next # Empty
      OBVIOUS
    <2> HIDE DEF answer
    <2>5. Turn(answer) /\ marker' = answer.next /\ UNCHANGED <<vidMarker, passed>>
      BY <2>1, <2>2, <2>3 DEF ClientListObjects, ClientListObjectsV2, ConsoleListObjects, answer
    <2>6. pc = "page" /\ job.kind \in {"ListObjects", "ListObjectsV2", "console"}
      BY DEF ClientListObjects, ClientListObjectsV2, ConsoleListObjects, Asking
    <2>7. QED
      BY <2>4, <2>5, <2>6 DEF Turn
  <1> HIDE DEF read
  <1>2. read = ListObjects(Objects(versions), job.prefix, job.delimiter, marker,
                           PageSize(job.asked))
    BY DEF read
  <1>3. UNCHANGED <<table, job, stayed, renewed, todo, cut, vidMarker, passed>>
    BY <1>1
  <1>4. QED
    BY <1>1, <1>2, <1>3, ObjectsTurn

\* A page of versions.
LEMMA VersionsTurn ==
    ASSUME ListingInv, pc = "page", job.kind = "versions",
           NEW page, page = ListObjectVersions(versions, job.prefix, job.delimiter, marker,
                                               vidMarker, PageSize(job.asked)),
           Receive(page.rows), pc' = "page" \/ pc' = "done", pc' = "page" => page.next # Empty,
           page.next # Empty => pc' = "page",
           marker' = page.next, vidMarker' = page.nextVid,
           passed' = IF MarkerGone THEN passed \cup {marker} ELSE passed,
           UNCHANGED <<table, job, stayed, renewed, todo, cut>>
    PROVE  ListingInv'
  <1> DEFINE R(k) == Rolled(k, job.prefix, job.delimiter)
             Left(k, v) == LeftBy(versions, k, v, marker, vidMarker)
             Sh(k, v) == VersionShown(k, v, job.prefix, job.delimiter)
  <1>1. /\ Marks(marker, job.prefix, job.delimiter) /\ Prefixed(job.prefix, job.delimiter)
        /\ PageSize(job.asked) \in Nat \ {0} /\ GoodTable(versions)
        /\ marker = Empty => vidMarker = NoVid
    BY MarkerFacts
  <1>0. PagesVersions(versions, job.prefix, job.delimiter, marker, vidMarker, page)
    BY <1>1, VersionsPage
  <1>2. /\ page.rows \subseteq Rows
        /\ \A r \in page.rows : \E k \in Names :
            /\ k \in Under(job.prefix) /\ k >= marker /\ versions[k] # {}
            /\ \/ R(k) /\ r = PrefixRow(k)
               \/ ~R(k) /\ \E v \in versions[k] : r = Row(k, v) /\ Left(k, v)
    BY <1>0 DEF PagesVersions
  <1>3. \A k \in Under(job.prefix) : \A v \in versions[k] : Left(k, v) =>
            \/ Sh(k, v) \in page.rows
            \/ /\ page.next # Empty
               /\ \/ k > page.next
                  \/ /\ k = page.next
                     /\ \A w \in versions[k] : w.vid = page.nextVid => v.modified < w.modified
    BY <1>0 DEF PagesVersions
  <1>4. /\ Marks(page.next, job.prefix, job.delimiter)
        /\ page.next = Empty => page.nextVid = NoVid
        /\ page.next # Empty =>
            /\ page.next >= marker
            /\ \E last \in page.rows :
                /\ last.key = page.next /\ last.vid = page.nextVid
                /\ \A r \in page.rows :
                    r.key < last.key \/ (r.key = last.key /\ r.modified >= last.modified)
    BY <1>0 DEF PagesVersions
  <1>5. UNCHANGED <<versions, parts, writes, job, stayed, renewed, todo, cut>>
    BY DEF table
  <1>6. listed' = listed \cup page.rows /\ again' = again \cup (listed \cap page.rows)
    BY DEF Receive
  <1>7. marker \in Nat /\ page.next \in Nat
    BY <1>1, <1>4, FolderFacts DEF Marks, Empty
  \* A row is one of a common prefix, or of a version.
  <1>8. ASSUME NEW r \in page.rows
        PROVE  /\ r.key \in Nat /\ r.modified \in Int
               /\ \/ r.key \in Folders /\ job.delimiter /\ r.vid = NoVid
                  \/ /\ r.key \in Names /\ r.key >= marker
                     /\ \E v \in versions[r.key] : /\ r.vid = v.vid /\ r.modified = v.modified
                                                   /\ Left(r.key, v)
    <2>1. PICK k \in Names :
            /\ k >= marker
            /\ \/ R(k) /\ r = PrefixRow(k)
               \/ ~R(k) /\ \E v \in versions[k] : r = Row(k, v) /\ Left(k, v)
      BY <1>2
    <2>2. CASE R(k) /\ r = PrefixRow(k)
      <3>1. r.key = Folder[k] /\ Folder[k] # 0 /\ job.delimiter /\ r.vid = NoVid
        BY <2>2 DEF Rolled, PrefixRow
      <3>2. QED
        BY <1>2, <3>1, FolderFacts DEF Rows
    <2>3. ASSUME NEW v \in versions[k], r = Row(k, v), Left(k, v)
          PROVE  /\ r.key \in Names /\ r.key >= marker
                 /\ \E w \in versions[r.key] : /\ r.vid = w.vid /\ r.modified = w.modified
                                               /\ Left(r.key, w)
      <3>1. r.key = k /\ r.vid = v.vid /\ r.modified = v.modified
        BY <2>3 DEF Row
      <3>2. QED
        BY <2>1, <2>3, <3>1
    <2>4. r.key \in Nat /\ r.modified \in Int
      BY <1>2 DEF Rows
    <2>5. QED
      BY <2>1, <2>2, <2>3, <2>4
  <1>9. TableOK'
    BY <1>5 DEF ListingInv, TableOK
  <1>10. MarkerOK'
    <2>1. page.nextVid \in Int \ ((writes + 1)..MaxWrites)
      <3>1. NoVid \in Int \ ((writes + 1)..MaxWrites)
        BY TablesAssumption, PageAssumption DEF ListingInv, TableOK
      <3>2. CASE page.next = Empty
        BY <1>4, <3>1, <3>2
      <3>3. CASE page.next # Empty
        <4>1. PICK last \in page.rows : last.vid = page.nextVid
          BY <1>4, <3>3
        <4>2. CASE last.vid = NoVid
          BY <3>1, <4>1, <4>2
        <4>3. CASE last.vid # NoVid
          <5>1. last.key \in Names /\ \E v \in versions[last.key] : last.vid = v.vid
            BY <1>8, <4>3
          <5>2. PICK v \in versions[last.key] : last.vid = v.vid
            BY <5>1
          <5>3. v.vid \in Int /\ v.vid \notin (writes + 1)..MaxWrites
            BY <5>1 DEF ListingInv, TableOK, Version
          <5>4. QED
            BY <4>1, <5>2, <5>3
        <4>4. QED
          BY <4>2, <4>3
      <3>4. QED
        BY <3>2, <3>3
    <2>2. QED
      BY <1>4, <1>5, <2>1, MarkersKept
  <1>11. CallerOK'
    <2>1. MarkerGone => marker \in Names
      BY VersionsMarker, <1>1 DEF MarkerGone
    <2>2. passed' \subseteq Names
      BY <2>1 DEF ListingInv, CallerOK
    <2>3. QED
      BY <1>2, <1>5, <1>6, <2>2 DEF ListingInv, CallerOK
  <1>12. StayersKept'
    <2>1. ASSUME NEW r \in stayed, Asked(r)
          PROVE  \/ Shown(r) \in listed' \/ r.key \in passed'
                 \/ /\ page.next # Empty
                    /\ \/ r.key > page.next
                       \/ /\ r.key = page.next
                          /\ \A w \in versions[page.next] :
                                w.vid = page.nextVid => r.modified < w.modified
      <3>1. PICK n \in Names : \E v \in versions[n] : r = Row(n, v)
        BY PresentFacts DEF ListingInv, CallerOK
      <3>2. PICK v \in versions[n] : r = Row(n, v)
        BY <3>1
      <3>3. r.key = n /\ r.modified = v.modified /\ Shown(r) = Sh(n, v) /\ n \in Under(job.prefix)
        BY <2>1, <3>2 DEF Shown, VersionShown, Row, Asked
      <3>4. CASE Shown(r) \in listed \/ r.key \in passed
        BY <1>6, <3>4
      <3>5. CASE Ahead(r) /\ ~Left(n, v)
        <4>1. /\ n = marker /\ vidMarker # NoVid
              /\ \A w \in versions[marker] : w.vid = vidMarker => v.modified < w.modified
              /\ ~\E m \in versions[n] : m.vid = vidMarker /\ m.modified > v.modified
          BY <3>3, <3>5 DEF Ahead, LeftBy
        <4>2. \A w \in versions[marker] : v.modified \in Int /\ w.modified \in Int
          BY <3>1, <4>1 DEF ListingInv, TableOK, Version
        <4>3. MarkerGone
          BY <4>1, <4>2 DEF MarkerGone
        <4>4. QED
          BY <3>3, <4>1, <4>3
      <3>6. CASE Left(n, v)
        <4>1. \/ Sh(n, v) \in page.rows
              \/ /\ page.next # Empty
                 /\ \/ n > page.next
                    \/ /\ n = page.next
                       /\ \A w \in versions[n] : w.vid = page.nextVid => v.modified < w.modified
          BY <1>3, <3>3, <3>6
        <4>2. QED
          BY <1>6, <3>3, <4>1
      <3>7. QED
        BY <2>1, <3>4, <3>5, <3>6 DEF ListingInv, StayersKept
    <2>2. ASSUME NEW r \in stayed', Asked(r)'
          PROVE  (Shown(r) \in listed)' \/ r.key \in passed' \/ (pc' = "page" /\ Ahead(r)')
      <3>1. r \in stayed /\ Asked(r) /\ Shown(r)' = Shown(r)
        BY <1>5, <2>2 DEF Asked, Shown
      <3>2. QED
        BY <1>5, <2>1, <3>1 DEF Ahead
    <2>3. QED
      BY <2>2 DEF StayersKept
  <1>13. ListedBehind'
    <2>1. ASSUME page.next # Empty, NEW r \in listed'
          PROVE  \/ r.key < page.next
                 \/ r.key = page.next /\ Repeatable(r)'
                 \/ /\ r.key = page.next /\ page.nextVid # NoVid
                    /\ \A v \in versions[page.next] : v.vid = page.nextVid => v.modified <= r.modified
      <3>1. PICK last \in page.rows :
                /\ last.key = page.next /\ last.vid = page.nextVid
                /\ \A s \in page.rows :
                    s.key < last.key \/ (s.key = last.key /\ s.modified >= last.modified)
        BY <1>4, <2>1
      <3>2. r.key \in Nat /\ r.modified \in Int
        BY <1>2, <1>6 DEF ListingInv, CallerOK, Rows
      <3>3. r.key < page.next \/ r.key = page.next
        <4>1. CASE r \in page.rows
          BY <3>1, <4>1
        <4>2. CASE r \in listed
          <5>1. r.key < marker \/ r.key = marker
            BY <4>2 DEF ListingInv, ListedBehind, Behind
          <5>2. QED
            BY <1>4, <1>7, <2>1, <3>2, <5>1
        <4>3. QED
          BY <1>6, <4>1, <4>2
      <3>4. CASE r.key = page.next /\ page.nextVid = NoVid
        BY <1>5, <1>6, <3>1, <3>4 DEF Repeatable
      <3>5. CASE r.key = page.next /\ page.next \in Folders /\ job.delimiter
        BY <1>5, <3>5 DEF Repeatable
      <3>6. CASE /\ r.key = page.next /\ page.nextVid # NoVid
                 /\ ~(page.next \in Folders /\ job.delimiter)
        <4>1. PICK u \in versions[page.next] :
                /\ last.vid = u.vid /\ last.modified = u.modified /\ Left(page.next, u)
          BY <1>8, <3>1, <3>6
        <4>2. page.next \in Names
          BY <1>8, <3>1, <3>6
        <4>3. \A w \in versions[page.next] : w.vid = page.nextVid => w = u
          BY <1>1, <3>1, <4>1, <4>2 DEF GoodTable
        <4>4. u.modified \in Int
          BY <4>1, <4>2 DEF ListingInv, TableOK, Version
        <4>5. CASE r \in page.rows
          <5>1. r.modified >= last.modified
            BY <1>7, <3>1, <3>6, <4>5
          <5>2. u.modified <= r.modified
            BY <3>2, <4>1, <4>4, <5>1
          <5>3. QED
            BY <3>6, <4>3, <5>2
        <4>6. CASE r \in listed
          <5>1. Behind(r)
            BY <4>6 DEF ListingInv, ListedBehind
          <5>2. r.key = marker
            BY <1>4, <1>7, <2>1, <3>2, <3>6, <5>1 DEF Behind
          <5>3. CASE Repeatable(r)
            BY <1>5, <1>6, <3>6, <5>3 DEF Repeatable
          <5>4. CASE /\ vidMarker # NoVid
                     /\ \A v \in versions[marker] : v.vid = vidMarker => v.modified <= r.modified
            <6>1. PICK m \in versions[marker] : m.vid = vidMarker /\ m.modified > u.modified
              BY <1>7, <3>6, <4>1, <5>2, <5>4 DEF LeftBy
            <6>2. m.modified \in Int /\ m.modified <= r.modified
              BY <3>6, <4>2, <5>2, <5>4, <6>1 DEF ListingInv, TableOK, Version
            <6>3. u.modified <= r.modified
              BY <3>2, <4>4, <6>1, <6>2
            <6>4. QED
              BY <3>6, <4>3, <6>3
          <5>5. QED
            BY <1>7, <3>2, <5>1, <5>2, <5>3, <5>4 DEF Behind
        <4>7. QED
          BY <1>6, <4>5, <4>6
      <3>7. QED
        BY <3>3, <3>4, <3>5, <3>6
    <2>2. ASSUME pc' = "page", NEW r \in listed' PROVE Behind(r)'
      BY <1>5, <2>1, <2>2 DEF Behind
    <2>3. pc' # "fetch"
      OBVIOUS
    <2>4. QED
      BY <2>2, <2>3 DEF ListedBehind
  <1>14. NoRepeats'
    <2>1. ASSUME NEW r \in listed \cap page.rows PROVE Repeatable(r)
      <3>1. Behind(r)
        BY DEF ListingInv, ListedBehind
      <3>2. CASE r.key \in Folders /\ job.delimiter
        BY <3>2 DEF Repeatable
      <3>3. CASE ~(r.key \in Folders /\ job.delimiter)
        <4>1. r.key >= marker /\ r.key \in Nat /\ r.key \in Names
          BY <1>8, <3>3
        <4>2. r.key = marker
          BY <1>7, <3>1, <4>1 DEF Behind
        <4>3. PICK v \in versions[r.key] : r.modified = v.modified /\ Left(r.key, v)
          BY <1>8, <3>3
        <4>4. CASE vidMarker # NoVid /\ \A w \in versions[marker] : w.vid = vidMarker => w.modified <= r.modified
          <5>1. PICK m \in versions[marker] : m.vid = vidMarker /\ m.modified > v.modified
            BY <1>7, <4>2, <4>3, <4>4 DEF LeftBy
          <5>2. m.modified \in Int /\ v.modified \in Int
            BY <4>1, <4>2 DEF ListingInv, TableOK, Version
          <5>3. QED
            BY <4>3, <4>4, <5>1, <5>2
        <4>5. QED
          BY <1>7, <3>1, <4>2, <4>4 DEF Behind
      <3>4. QED
        BY <3>2, <3>3
    <2>2. \A r \in again' : (r \in again) \/ (r \in listed \cap page.rows)
      BY <1>6
    <2>3. QED
      BY <1>5, <1>6, <2>1, <2>2 DEF ListingInv, NoRepeats, Repeatable
  <1>15. QED
    BY <1>9, <1>10, <1>11, <1>12, <1>13, <1>14 DEF ListingInv

LEMMA WalkVersionsKeep ==
    ASSUME ListingInv, UNCHANGED <<table, job, stayed, renewed>>, WalkVersions
    PROVE  ListingInv'
  <1> DEFINE read == ListObjectVersions(versions, job.prefix, job.delimiter, marker,
                                        vidMarker, PageSize(job.asked))
             answer == [rows |-> read.rows, next |-> read.next, nextVid |-> read.nextVid,
                        truncated |-> read.next # Empty \/ read.nextVid # NoVid]
  <1>1. pc = "page" /\ job.kind = "versions"
    BY DEF WalkVersions, Asking
  <1>2. S3ListObjectVersions = answer
    BY DEF S3ListObjectVersions, BackendListObjectVersions
  <1>3. /\ answer.rows = read.rows /\ answer.next = read.next /\ answer.nextVid = read.nextVid
        /\ answer.truncated <=> read.next # Empty \/ read.nextVid # NoVid
    OBVIOUS
  <1>4. read.next = Empty => read.nextVid = NoVid
    <2>1. PagesVersions(versions, job.prefix, job.delimiter, marker, vidMarker, read)
      BY <1>1, MarkerFacts, VersionsPage
    <2>2. QED
      BY <2>1 DEF PagesVersions
  <1> HIDE DEF answer
  <1>5. /\ Turn(answer) /\ marker' = answer.next /\ vidMarker' = answer.nextVid
        /\ passed' = IF MarkerGone THEN passed \cup {marker} ELSE passed
    BY <1>2 DEF WalkVersions
  <1> HIDE DEF read
  <1>6. read = ListObjectVersions(versions, job.prefix, job.delimiter, marker,
                                  vidMarker, PageSize(job.asked))
    BY DEF read
  <1>7. /\ Receive(read.rows) /\ (pc' = "page" \/ pc' = "done")
        /\ pc' = "page" => read.next # Empty
        /\ read.next # Empty => pc' = "page"
        /\ UNCHANGED <<table, job, stayed, renewed, todo, cut>>
    BY <1>3, <1>4, <1>5 DEF Turn
  <1>8. QED
    BY <1>1, <1>3, <1>5, <1>6, <1>7, VersionsTurn

\* A page of parts.
LEMMA PartsTurn ==
    ASSUME ListingInv, pc = "page", job.kind = "parts",
           NEW page, page = ListObjectParts(parts, marker, PageSize(job.asked)),
           Receive(page.rows), pc' = IF page.next # Empty THEN "page" ELSE "done",
           marker' = page.next, UNCHANGED <<table, job, stayed, renewed, todo, cut, vidMarker, passed>>
    PROVE  ListingInv'
  <1>1. /\ parts \in SUBSET (Nat \ {0}) /\ IsFiniteSet(parts) /\ parts \subseteq PartNumbers
        /\ marker \in Nat /\ PageSize(job.asked) \in Nat \ {0}
    <2>1. parts \subseteq PartNumbers /\ marker \in {0} \cup PartNumbers
      BY DEF ListingInv, TableOK, MarkerOK, Empty
    <2>2. PartNumbers \subseteq Nat \ {0} /\ IsFiniteSet(PartNumbers)
      BY PageAssumption
    <2>3. IsFiniteSet(parts)
      BY <2>1, <2>2, FS_Subset
    <2>4. PageSize(job.asked) \in Nat \ {0}
      BY JobFacts DEF ListingInv, CallerOK
    <2>5. QED
      BY <2>1, <2>2, <2>3, <2>4
  <1>2. /\ \A r \in page.rows : \E k \in parts :
            r = ObjectRow(k) /\ k > marker /\ (page.next # Empty => k <= page.next)
        /\ \A k \in parts : k > marker => ObjectRow(k) \in page.rows
                                          \/ (page.next # Empty /\ k > page.next)
        /\ page.next # Empty => page.next \in parts /\ page.next > marker
    BY <1>1, PartsPage
  <1>3. UNCHANGED <<versions, parts, writes, job, stayed, renewed, todo, cut, vidMarker, passed>>
    BY DEF table
  <1>4. listed' = listed \cup page.rows /\ again' = again \cup (listed \cap page.rows)
    BY DEF Receive
  <1>5. page.rows \subseteq Rows
    BY <1>1, <1>2, TablesAssumption DEF ObjectRow, Rows
  <1>6. TableOK'
    BY <1>3 DEF ListingInv, TableOK
  <1>7. MarkerOK'
    <2>1. job.prefix = 0 /\ job.delimiter = FALSE
      BY JobFacts DEF ListingInv, CallerOK, Empty
    <2>2. page.next = 0 \/ (page.next \in PartNumbers /\ page.next >= 0)
      <3>1. CASE page.next = Empty
        BY <3>1 DEF Empty
      <3>2. CASE page.next # Empty
        <4>1. page.next \in parts
          BY <1>2, <3>2
        <4>2. page.next \in Nat /\ page.next \in PartNumbers
          BY <1>1, <4>1
        <4>3. QED
          BY <4>2
      <3>3. QED
        BY <3>1, <3>2
    <2>3. QED
      BY <1>3, <2>1, <2>2 DEF ListingInv, MarkerOK, Empty
  <1>8. CallerOK'
    BY <1>3, <1>4, <1>5 DEF ListingInv, CallerOK
  <1>9. StayersKept'
    <2>1. ASSUME NEW r \in stayed, Asked(r)
          PROVE  \/ Shown(r) \in listed' \/ r.key \in passed'
                 \/ page.next # Empty /\ r.key > page.next
      <3>1. PICK n \in parts : r = ObjectRow(n)
        BY PresentFacts DEF ListingInv, CallerOK
      <3>2. r.key = n /\ Shown(r) = ObjectRow(n)
        BY <3>1 DEF Shown, ObjectRow
      <3>3. CASE Shown(r) \in listed \/ r.key \in passed
        BY <1>3, <1>4, <3>3
      <3>4. CASE Ahead(r)
        BY <1>2, <1>4, <3>2, <3>4 DEF Ahead
      <3>5. QED
        BY <2>1, <3>3, <3>4 DEF ListingInv, StayersKept
    <2>2. ASSUME NEW r \in stayed', Asked(r)'
          PROVE  (Shown(r) \in listed)' \/ r.key \in passed' \/ (pc' = "page" /\ Ahead(r)')
      <3>1. r \in stayed /\ Asked(r) /\ Shown(r)' = Shown(r)
        BY <1>3, <2>2 DEF Asked, Shown
      <3>2. QED
        BY <2>1, <3>1 DEF Ahead
    <2>3. QED
      BY <2>2 DEF StayersKept
  <1>10. \A r \in listed : r.key <= marker /\ r.key \in Nat
    BY <1>1 DEF ListingInv, ListedBehind, Behind, CallerOK, Rows
  <1>11. ListedBehind'
    <2>1. ASSUME page.next # Empty, NEW r \in listed'
          PROVE  r.key < page.next \/ r.key = page.next
      <3>1. page.next \in Nat /\ page.next > marker
        BY <1>1, <1>2, <2>1
      <3>2. CASE r \in page.rows
        <4>1. PICK k \in parts : r = ObjectRow(k) /\ k <= page.next
          BY <1>2, <2>1, <3>2
        <4>2. r.key = k /\ k \in Nat
          BY <1>1, <4>1 DEF ObjectRow
        <4>3. QED
          BY <3>1, <4>1, <4>2
      <3>3. CASE r \in listed
        BY <1>1, <1>10, <3>1, <3>3
      <3>4. QED
        BY <1>4, <3>2, <3>3
    <2>2. ASSUME pc' = "page", NEW r \in listed' PROVE Behind(r)'
      <3>1. page.next # Empty /\ job'.kind # "versions"
        BY <1>3, <2>2
      <3>2. QED
        BY <2>1, <3>1 DEF Behind
    <2>3. pc' # "fetch"
      OBVIOUS
    <2>4. QED
      BY <2>2, <2>3 DEF ListedBehind
  <1>12. NoRepeats'
    <2>1. listed \cap page.rows = {}
      BY <1>1, <1>2, <1>10 DEF ObjectRow
    <2>2. again' = again
      BY <1>4, <2>1
    <2>3. QED
      BY <1>3, <1>4, <2>2 DEF ListingInv, NoRepeats
  <1>13. QED
    BY <1>6, <1>7, <1>8, <1>9, <1>11, <1>12 DEF ListingInv

LEMMA WalkPartsKeep ==
    ASSUME ListingInv, UNCHANGED <<table, job, stayed, renewed>>, WalkParts
    PROVE  ListingInv'
  <1> DEFINE read == ListObjectParts(parts, marker, PageSize(job.asked))
             answer == [rows |-> read.rows, next |-> read.next, truncated |-> read.next > 0]
  <1>1. pc = "page" /\ job.kind = "parts"
    BY DEF WalkParts, Asking
  <1>2. S3ListParts = answer
    BY DEF S3ListParts, BackendListParts
  <1>3. /\ answer.rows = read.rows /\ answer.next = read.next
        /\ answer.truncated <=> read.next > 0
    OBVIOUS
  <1>4. /\ parts \in SUBSET (Nat \ {0}) /\ IsFiniteSet(parts)
        /\ marker \in Nat /\ PageSize(job.asked) \in Nat \ {0}
    <2>1. parts \subseteq PartNumbers /\ marker \in {0} \cup PartNumbers
      BY <1>1 DEF ListingInv, TableOK, MarkerOK, Empty
    <2>2. PartNumbers \subseteq Nat \ {0} /\ IsFiniteSet(PartNumbers)
      BY PageAssumption
    <2>3. IsFiniteSet(parts)
      BY <2>1, <2>2, FS_Subset
    <2>4. PageSize(job.asked) \in Nat \ {0}
      BY JobFacts DEF ListingInv, CallerOK
    <2>5. QED
      BY <2>1, <2>2, <2>3, <2>4
  <1>5. read.next # Empty => read.next \in parts
    BY <1>4, PartsPage
  <1>6. read.next > 0 <=> read.next # Empty
    <2> HIDE DEF read
    <2>1. CASE read.next = Empty
      BY <2>1 DEF Empty
    <2>2. CASE read.next # Empty
      <3>1. read.next \in Nat \ {0}
        BY <1>4, <1>5, <2>2
      <3>2. QED
        BY <2>2, <3>1
    <2>3. QED
      BY <2>1, <2>2
  <1> HIDE DEF answer
  <1>7. Turn(answer) /\ marker' = answer.next /\ UNCHANGED <<vidMarker, passed>>
    BY <1>2 DEF WalkParts
  <1> HIDE DEF read
  <1>8. read = ListObjectParts(parts, marker, PageSize(job.asked))
    BY DEF read
  <1>9. /\ Receive(read.rows) /\ pc' = IF read.next # Empty THEN "page" ELSE "done"
        /\ marker' = read.next /\ UNCHANGED <<table, job, stayed, renewed, todo, cut, vidMarker, passed>>
    BY <1>3, <1>6, <1>7 DEF Turn
  <1>10. QED
    BY <1>1, <1>8, <1>9, PartsTurn

-----------------------------------------------------------------------------
(***************************************************************************)
(* The folder download.                                                    *)
(***************************************************************************)
LEMMA ZipPageKeeps ==
    ASSUME ListingInv, UNCHANGED <<table, job, stayed, renewed>>, ZipPage
    PROVE  ListingInv'
  <1> DEFINE read == ListObjects(Objects(versions), job.prefix, FALSE, marker, DefaultPage)
             Sh(k) == ObjectShown(k, job.prefix, FALSE)
  <1>1. /\ pc = "page" /\ job.kind = "zip" /\ pc' = "fetch" /\ marker' = read.next
        /\ todo' = {r.key : r \in read.rows} \ {job.prefix}
        /\ UNCHANGED <<versions, parts, writes, job, stayed, renewed, vidMarker, listed, again, passed, cut>>
    BY DEF ZipPage, Asking, table
  <1>2. job.delimiter = FALSE
    BY <1>1, JobFacts DEF ListingInv, CallerOK
  <1>3. /\ Marks(marker, job.prefix, FALSE) /\ Prefixed(job.prefix, FALSE)
        /\ DefaultPage \in Nat \ {0}
        /\ Objects(versions) \in SUBSET Names /\ IsFiniteSet(Objects(versions))
    BY <1>1, <1>2, MarkerFacts, PageAssumption DEF GoodTable, Objects
  <1>4. /\ read.rows \subseteq Rows
        /\ \A r \in read.rows : \E k \in Objects(versions) :
            k \in Under(job.prefix) /\ k > marker /\ r = Sh(k)
        /\ \A k \in Objects(versions) : k \in Under(job.prefix) /\ k > marker =>
            Sh(k) \in read.rows \/ (read.next # Empty /\ k > read.next)
        /\ Marks(read.next, job.prefix, FALSE)
        /\ read.next # Empty => read.next >= marker /\ \A r \in read.rows : r.key <= read.next
    BY <1>3, ObjectsPage
  <1> HIDE DEF read
  <1>5. \A k \in Names : Sh(k) = ObjectRow(k) /\ Sh(k).key = k
    BY DEF ObjectShown, Rolled, ObjectRow
  <1>6. ASSUME NEW n \in todo'
        PROVE  /\ n \in Objects(versions) /\ n \in Names /\ n > marker
               /\ read.next # Empty => n <= read.next
    <2>1. PICK r \in read.rows : n = r.key
      BY <1>1
    <2>2. PICK k \in Objects(versions) : k > marker /\ r = Sh(k)
      BY <1>4
    <2>3. n = k /\ k \in Names
      BY <1>3, <1>5, <2>1, <2>2
    <2>4. QED
      BY <1>4, <2>1, <2>2, <2>3
  <1>7. marker \in Nat
    BY <1>3, FolderFacts DEF Marks, Empty
  <1>8. TableOK'
    BY <1>1 DEF ListingInv, TableOK
  <1>9. MarkerOK'
    <2>1. Marks(marker', job.prefix, job.delimiter)
      BY <1>1, <1>2, <1>4
    <2>2. QED
      BY <1>1, <2>1, MarkersKept DEF ListingInv, MarkerOK
  <1>10. IsFiniteSet(todo')
    <2>1. todo' \subseteq Objects(versions)
      BY <1>6
    <2>2. QED
      BY <1>3, <2>1, FS_Subset
  <1>11. CallerOK'
    BY <1>1, <1>6, <1>10 DEF ListingInv, CallerOK
  <1>12. StayersKept'
    <2>1. ASSUME NEW r \in stayed, Asked(r)
          PROVE  \/ Shown(r) \in listed \/ r.key \in passed \/ r.key \in todo'
                 \/ read.next # Empty /\ r.key > read.next
      <3>1. PICK n \in Objects(versions) : r = ObjectRow(n)
        BY <1>1, PresentFacts DEF ListingInv, CallerOK
      <3>2. r.key = n /\ n \in Under(job.prefix) /\ n # job.prefix /\ n \in Names
        BY <1>1, <1>3, <2>1, <3>1 DEF ObjectRow, Asked
      <3>3. CASE Ahead(r)
        <4>1. n > marker
          BY <1>1, <3>2, <3>3 DEF Ahead
        <4>2. CASE Sh(n) \in read.rows
          BY <1>1, <1>5, <3>2, <4>2
        <4>3. QED
          BY <1>4, <3>2, <4>1, <4>2
      <3>4. QED
        BY <1>1, <2>1, <3>3 DEF ListingInv, StayersKept
    <2>2. ASSUME NEW r \in stayed', Asked(r)'
          PROVE  \/ (Shown(r) \in listed)' \/ r.key \in passed'
                 \/ pc' = "fetch" /\ (r.key \in todo' \/ (marker' # Empty /\ r.key > marker'))
      <3>1. r \in stayed /\ Asked(r) /\ Shown(r)' = Shown(r)
        BY <1>1, <2>2 DEF Asked, Shown
      <3>2. QED
        BY <1>1, <2>1, <3>1
    <2>3. QED
      BY <2>2 DEF StayersKept
  <1>13. ListedBehind'
    <2>1. \A r \in listed : r.key <= marker /\ r.key \in Nat
      BY <1>1, <1>7 DEF ListingInv, ListedBehind, Behind, CallerOK, Rows
    <2>2. ASSUME NEW r \in listed' PROVE r.key \notin todo' /\ (marker' # Empty => r.key <= marker')
      <3>1. r.key <= marker /\ r.key \in Nat
        BY <1>1, <2>1
      <3>2. read.next \in Nat
        BY <1>4, FolderFacts DEF Marks, Empty
      <3>3. r.key \notin todo'
        BY <1>6, <1>7, <3>1
      <3>4. QED
        BY <1>1, <1>4, <1>7, <3>1, <3>2, <3>3
    <2>3. QED
      BY <1>1, <1>6, <2>2 DEF ListedBehind
  <1>14. NoRepeats'
    BY <1>1 DEF ListingInv, NoRepeats
  <1>15. QED
    BY <1>8, <1>9, <1>11, <1>12, <1>13, <1>14 DEF ListingInv

\* The object fetched is one that is to do.
LEMMA FetchNext ==
    ASSUME ListingInv, todo # {}
    PROVE  Min(todo) \in todo
  <1> DEFINE lt == {p \in todo \X todo : p[1] < p[2]}
  <1>1. \A k, l \in todo : <<k, l>> \in lt <=> k < l
    OBVIOUS
  <1>2. \A k \in todo : k \in Nat
    BY FolderAssumption DEF ListingInv, CallerOK
  <1>3. IsFiniteSet(todo)
    BY DEF ListingInv, CallerOK
  <1> HIDE DEF lt
  <1>4. Strict(lt, todo)
    BY <1>1, <1>2 DEF Strict
  <1>5. PICK k \in todo : \A l \in todo : <<l, k>> \notin lt
    BY <1>3, <1>4, MinimalElement
  <1>6. ASSUME NEW l \in todo PROVE k <= l
    <2>1. k \in Nat /\ l \in Nat /\ ~(l < k)
      BY <1>1, <1>2, <1>5
    <2>2. QED
      BY <2>1
  <1>7. QED
    BY <1>6 DEF Min

LEMMA ZipObjectKeeps ==
    ASSUME ListingInv, UNCHANGED <<table, job, stayed, renewed>>, ZipObject
    PROVE  ListingInv'
  <1>1. /\ pc = "fetch" /\ todo # {} /\ Min(todo) \in todo /\ job.kind = "zip"
        /\ UNCHANGED <<versions, parts, writes, job, stayed, renewed, marker, vidMarker, passed>>
    BY FetchNext DEF ZipObject, table, ListingInv, CallerOK
  <1>2. TableOK' /\ MarkerOK'
    BY <1>1 DEF ListingInv, TableOK, MarkerOK
  <1>3. CASE pc' = "done" /\ cut' = TRUE /\ UNCHANGED <<todo, listed, again>>
    BY <1>1, <1>2, <1>3
       DEF ListingInv, CallerOK, StayersKept, ListedBehind, NoRepeats
  <1>4. CASE /\ Receive({ObjectRow(Min(todo))}) /\ todo' = todo \ {Min(todo)}
             /\ UNCHANGED <<pc, cut>>
    <2> DEFINE n == Min(todo)
    <2>1. n \in todo /\ n \in Names /\ ObjectRow(n).key = n /\ ObjectRow(n) \in Rows
      BY <1>1, FolderFacts, TablesAssumption DEF ListingInv, CallerOK, ObjectRow, Rows
    <2> HIDE DEF n
    <2>2. /\ listed' = listed \cup {ObjectRow(n)}
          /\ again' = again \cup (listed \cap {ObjectRow(n)})
          /\ todo' = todo \ {n}
      BY <1>4 DEF Receive, n
    <2>3. ObjectRow(n) \notin listed
      BY <1>1, <2>1 DEF ListingInv, ListedBehind
    <2>4. CallerOK'
      <3>1. IsFiniteSet(todo')
        BY <2>2, FS_Subset DEF ListingInv, CallerOK
      <3>2. QED
        BY <1>1, <1>4, <2>1, <2>2, <3>1 DEF ListingInv, CallerOK
    <2>5. StayersKept'
      <3>1. ASSUME NEW r \in stayed', Asked(r)'
            PROVE  \/ (Shown(r) \in listed)' \/ r.key \in passed'
                   \/ pc' = "fetch" /\ (r.key \in todo' \/ (marker' # Empty /\ r.key > marker'))
        <4>1. r \in stayed /\ Asked(r) /\ Shown(r)' = Shown(r)
          BY <1>1, <3>1 DEF Asked, Shown
        <4>2. CASE r.key = n
          <5>1. PICK m \in Objects(versions) : r = ObjectRow(m)
            BY <1>1, <4>1, PresentFacts DEF ListingInv, CallerOK
          <5>2. r = ObjectRow(n)
            BY <4>2, <5>1 DEF ObjectRow
          <5>3. job.delimiter = FALSE
            BY <1>1, JobFacts DEF ListingInv, CallerOK
          <5>4. Shown(r) = r
            BY <5>3 DEF Shown, Rolled
          <5>5. QED
            BY <2>2, <4>1, <5>2, <5>4
        <4>3. CASE r.key # n
          BY <1>1, <1>4, <2>2, <4>1, <4>3 DEF ListingInv, StayersKept
        <4>4. QED
          BY <4>2, <4>3
      <3>2. QED
        BY <3>1 DEF StayersKept
    <2>6. ListedBehind'
      BY <1>1, <1>4, <2>1, <2>2 DEF ListingInv, ListedBehind
    <2>7. NoRepeats'
      <3>1. again' = again
        BY <2>2, <2>3
      <3>2. QED
        BY <1>1, <2>2, <3>1 DEF ListingInv, NoRepeats
    <2>8. QED
      BY <1>2, <2>4, <2>5, <2>6, <2>7 DEF ListingInv
  <1>5. QED
    BY <1>3, <1>4 DEF ZipObject

LEMMA ZipOnwardKeeps ==
    ASSUME ListingInv, UNCHANGED <<table, job, stayed, renewed>>, ZipOnward
    PROVE  ListingInv'
  <1>1. /\ pc = "fetch" /\ todo = {} /\ job.kind = "zip"
        /\ pc' = IF marker = Empty THEN "done" ELSE "page"
        /\ UNCHANGED <<versions, parts, writes, job, stayed, renewed, marker, vidMarker, todo, listed,
                       again, passed, cut>>
    BY DEF ZipOnward, table, ListingInv, CallerOK
  <1>2. TableOK' /\ MarkerOK' /\ CallerOK' /\ NoRepeats'
    BY <1>1 DEF ListingInv, TableOK, MarkerOK, CallerOK, NoRepeats
  <1>3. StayersKept'
    <2>1. ASSUME NEW r \in stayed', Asked(r)'
          PROVE  (Shown(r) \in listed)' \/ r.key \in passed' \/ (pc' = "page" /\ Ahead(r)')
      <3>1. r \in stayed /\ Asked(r) /\ Shown(r)' = Shown(r)
        BY <1>1, <2>1 DEF Asked, Shown
      <3>2. QED
        BY <1>1, <3>1 DEF ListingInv, StayersKept, Ahead
    <2>2. QED
      BY <2>1 DEF StayersKept
  <1>4. ListedBehind'
    <2>1. ASSUME pc' = "page", NEW r \in listed' PROVE Behind(r)'
      <3>1. r.key <= marker /\ r.key \in Nat /\ marker \in Nat
        BY <1>1, <2>1, FolderAssumption DEF ListingInv, ListedBehind, CallerOK, MarkerOK, Rows, Empty
      <3>2. QED
        BY <1>1, <3>1 DEF Behind
    <2>2. QED
      BY <1>1, <2>1 DEF ListedBehind
  <1>5. QED
    BY <1>2, <1>3, <1>4 DEF ListingInv

LEMMA BreakKeeps ==
    ASSUME ListingInv, Break
    PROVE  ListingInv'
  <1>1. /\ pc' = "done" /\ cut' = TRUE
        /\ UNCHANGED <<versions, parts, writes, job, marker, vidMarker, todo, listed, again,
                       stayed, passed, renewed>>
    BY DEF Break, table
  <1>2. TableOK' /\ MarkerOK' /\ CallerOK' /\ NoRepeats'
    BY <1>1 DEF ListingInv, TableOK, MarkerOK, CallerOK, NoRepeats
  <1>3. StayersKept' /\ ListedBehind'
    BY <1>1 DEF StayersKept, ListedBehind
  <1>4. QED
    BY <1>2, <1>3 DEF ListingInv

LEMMA StutterKeeps ==
    ASSUME ListingInv, UNCHANGED vars
    PROVE  ListingInv'
  <1>1. /\ TableOK' <=> TableOK
        /\ MarkerOK' <=> MarkerOK
        /\ CallerOK' <=> CallerOK
        /\ NoRepeats' <=> NoRepeats
    BY DEF vars, TableOK, MarkerOK, CallerOK, NoRepeats
  <1>2. StayersKept' <=> StayersKept
    BY DEF vars, StayersKept, Asked, Shown, Ahead
  <1>3. ListedBehind' <=> ListedBehind
    BY DEF vars, ListedBehind, Behind, Repeatable
  <1>4. QED
    BY <1>1, <1>2, <1>3 DEF ListingInv

LEMMA ListingInvStep == ListingInv /\ [Next]_vars => ListingInv'
  <1> SUFFICES ASSUME ListingInv, [Next]_vars PROVE ListingInv'
    OBVIOUS
  <1>1. CASE Others
    BY <1>1, OthersKeep
  <1>2. CASE Caller
    <2>1. UNCHANGED <<table, job, stayed, renewed>>
      BY <1>2 DEF Caller
    <2>2. QED
      BY <1>2, <2>1, ClientObjectsKeep, WalkVersionsKeep, WalkPartsKeep, ZipPageKeeps,
         ZipObjectKeeps, ZipOnwardKeeps DEF Caller
  <1>3. CASE Break
    BY <1>3, BreakKeeps
  <1>4. CASE UNCHANGED vars
    BY <1>4, StutterKeeps
  <1>5. QED
    BY <1>1, <1>2, <1>3, <1>4 DEF Next

LEMMA ListingInvariant == Spec => []ListingInv
  BY ListingInvInit, ListingInvStep, PTL DEF Spec

-----------------------------------------------------------------------------
\* The variables have their types, and of a key no two versions have one id,
\* whatever is written and deleted next to a listing.
THEOREM ListingTypeCorrect == Spec => []TypeOK
  BY ListingInvariant, ListingTypeOK, PTL

\* A listing that ran to its end has shown all that was there the whole time,
\* for every page size, prefix and delimiter: the client library's loops, the
\* walks through versions and parts, the console's listing and its archive.
THEOREM StayersAreListed == Spec => []StayersListed
  BY ListingInvariant, ListingStayers, PTL

\* And it has shown nothing twice but common prefixes, what shares a key with a
\* version without id, and what shares one with a version "null" that was
\* written anew while it was the marker.
THEOREM NothingListedTwice == Spec => []NoRepeats
  <1>1. ListingInv => NoRepeats
    BY DEF ListingInv
  <1>2. QED
    BY <1>1, ListingInvariant, PTL
=============================================================================
