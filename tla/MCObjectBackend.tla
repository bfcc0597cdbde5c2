-------------------------- MODULE MCObjectBackend --------------------------
\* Instances of ObjectBackend for TLC: the clients of each run, given by the
\* operations they use, and the names they use, given by the files these lead
\* to.  A file is named by the first bucket, key and version id that lead to it.
EXTENDS ObjectBackend, TLC

CONSTANTS b1, b2, k1, k2, u1, u2, w     \* buckets, keys, version ids

VersionedOps == Operations \ {"copy", "deleteBucket"}
SuspendOps == Operations \ {"copy", "post", "deleteNull", "disable"}
CopyOps == {"put", "copy", "get", "delete", "deleteUuid", "deleteBucket", "enable"}

Files == Buckets \X Keys \X (FileVids \ MadeUp)
FilesOf == [b \in Buckets |-> {f \in Files : f[1] = b}]

\* With the id w ("x/../k1@u2") a client reaches the file of version u2 of k1.
VersionReached ==
    [b \in Buckets |-> [k \in Keys |-> [v \in FileVids |->
        IF v = w THEN <<b, k1, u2>> ELSE <<b, k, v>>]]]

\* With the id w ("x/../k2@null") a client reaches the file of the null version
\* of k2, whatever key it names.
NullReached ==
    [b \in Buckets |-> [k \in Keys |-> [v \in FileVids |->
        IF v = w THEN <<b, k2, "null">> ELSE <<b, k, v>>]]]

\* The key k2 ("../../b1/objects/k1") leads to the files of key k1 in bucket
\* b1, whatever bucket it is used in.
KeyReached ==
    [b \in Buckets |-> [k \in Keys |-> [v \in FileVids |->
        IF k = k2 THEN <<b1, k1, v>> ELSE <<b, k, v>>]]]

UuidSymmetry == Permutations({u1, u2})
ProcSymmetry == Permutations(Procs)
=============================================================================
