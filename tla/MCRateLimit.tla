---------------------------- MODULE MCRateLimit ----------------------------
(***************************************************************************)
(* One address, one user, one bucket.  A tick brings half a request.  The  *)
(* address has a burst that takes longer to come back than Idle; the reads *)
(* of the bucket are not held to more than their rate.                     *)
(***************************************************************************)
EXTENDS RateLimit, TLC

CONSTANTS ip, user, bucket, none

PerLimiter(any, userRead, userWrite, read, write) ==
    [l \in Limiters |-> CASE l[1] = ip -> any
                          [] l = <<user, "read">> -> userRead
                          [] l = <<user, "write">> -> userWrite
                          [] l = <<bucket, "read">> -> read
                          [] l = <<bucket, "write">> -> write]

MCRate == PerLimiter(1, 2, 1, 1, 0)
MCBurst == PerLimiter(2, 1, 1, 1, 1)
MCPace == PerLimiter(4, 2, 2, 2, 2)

ProcSymmetry == Permutations(Procs)
=============================================================================
