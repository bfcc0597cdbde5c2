----------------------------- MODULE MCListing -----------------------------
\* An instance of Listing for TLC.
EXTENDS Listing

\* "f/", "f/p", "f/q", "f/r", "g"
FiveNames == 1..5
OneFolder == [n \in FiveNames |-> IF n < 5 THEN 1 ELSE 0]

Plain == [vid |-> 0, modified |-> -3]
Newer == [vid |-> -1, modified |-> -1]
Null == [vid |-> NullVid, modified |-> -2]

\* Any keys; for a listing of versions, each written twice, with versioning and
\* once before it was switched on or while it was suspended.
Shapes(kind) == IF kind = "versions" THEN {{Null, Newer}, {Plain, Newer}} ELSE {{Plain}}

StartTables(kind) ==
    {[n \in FiveNames |-> IF n \in S THEN shape ELSE {}] : S \in SUBSET FiveNames, shape \in Shapes(kind)}
=============================================================================
