--------------------------- MODULE MCVersionIndex ---------------------------
\* Instances of VersionIndex for TLC.
EXTENDS VersionIndex, TLC

\* Keys and uuids are interchangeable: no action or property orders them.
KeyUuidSymmetry == Permutations(Keys) \cup Permutations(Uuids)
=============================================================================
