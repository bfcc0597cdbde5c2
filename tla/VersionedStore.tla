--------------------------- MODULE VersionedStore ---------------------------
(***************************************************************************)
(* What the bucket and object metadata promises to its callers, with no    *)
(* tables in sight: every live bucket maps a key to the set of version ids *)
(* it stores and to the one version id that a plain GET or HEAD resolves   *)
(* to.  VersionIndex, which keeps two bbolt buckets per S3 bucket, is      *)
(* shown to implement it.                                                  *)
(***************************************************************************)
CONSTANTS Buckets,      \* bucket names
          Keys,         \* object keys
          Vids,         \* version ids, the empty one and "null" included
          None          \* "nothing stored here"

VARIABLES live,         \* the buckets that exist
          stored,       \* stored[b][k]: the version ids kept for the key
          current       \* current[b][k]: the one that GET resolves to, or None

vars == <<live, stored, current>>

Init ==
    /\ live = {}
    /\ stored = [b \in Buckets |-> [k \in Keys |-> {}]]
    /\ current = [b \in Buckets |-> [k \in Keys |-> None]]

Create(b) ==
    /\ b \notin live
    /\ live' = live \cup {b}
    /\ UNCHANGED <<stored, current>>

\* A bucket goes away only when it keeps no version at all, so that a bucket
\* created later under the same name starts empty.
Retire(b) ==
    /\ b \in live
    /\ \A k \in Keys : stored[b][k] = {}
    /\ live' = live \ {b}
    /\ UNCHANGED <<stored, current>>

Write(b, k, v) ==
    /\ b \in live
    /\ stored' = [stored EXCEPT ![b][k] = @ \cup {v}]
    /\ current' = [current EXCEPT ![b][k] = v]
    /\ UNCHANGED live

\* Removing a version leaves the key readable exactly when one is left.
Remove(b, k, v) ==
    /\ b \in live
    /\ stored' = [stored EXCEPT ![b][k] = @ \ {v}]
    /\ \/ /\ stored[b][k] \ {v} = {}
          /\ current' = [current EXCEPT ![b][k] = None]
       \/ \E w \in stored[b][k] \ {v} : current' = [current EXCEPT ![b][k] = w]
    /\ UNCHANGED live

RemoveAll(b, k) ==
    /\ b \in live
    /\ stored' = [stored EXCEPT ![b][k] = {}]
    /\ current' = [current EXCEPT ![b][k] = None]
    /\ UNCHANGED live

Next ==
    \E b \in Buckets :
        \/ Create(b)
        \/ Retire(b)
        \/ \E k \in Keys :
            \/ RemoveAll(b, k)
            \/ \E v \in Vids : Write(b, k, v) \/ Remove(b, k, v)

Spec == Init /\ [][Next]_vars
=============================================================================
