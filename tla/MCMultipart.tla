---------------------------- MODULE MCMultipart ----------------------------
\* Instances of Multipart for TLC.
EXTENDS Multipart, TLC

\* No action orders the parts: a client may list them in any order.
MultipartSymmetry == Permutations(Uploads) \cup Permutations(Parts) \cup Permutations(Procs)
=============================================================================
