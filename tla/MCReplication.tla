--------------------------- MODULE MCReplication ---------------------------
\* Instances of Replication for TLC.
EXTENDS Replication, TLC

ReplicationSymmetry == Permutations(Keys) \cup Permutations(Procs) \cup Permutations(Workers)
=============================================================================
