----------------------------- MODULE RateLimit -----------------------------
(***************************************************************************)
(* The limits on requests of internal/middleware/ratelimit.go: per address *)
(* before the request is authenticated, then per user and per bucket, the  *)
(* last two apart for reads and writes.  Each limit is a token bucket of   *)
(* golang.org/x/time/rate, made when a client is first met and dropped by  *)
(* a cleanup once the client has been quiet for Idle.                      *)
(*                                                                         *)
(* Tokens are counted in shares: a request takes Cost of them, and a tick  *)
(* of the clock brings Rate of them.                                       *)
(***************************************************************************)
EXTENDS Integers

CONSTANTS Procs,     \* requests at once
          Addresses, Users, BucketNames, \* keys of the three maps
          NoClient,  \* anonymous requests, and paths that name no bucket
          Enabled,   \* the limits that the configuration turns on
          Cost, Rate, Burst, \* Rate[l] and Burst[l]: of limiter l
          Pace,      \* Pace[l]: what a client can keep up at limiter l, see PaceAssumption
          Idle,      \* ticks of three minutes
          MaxTime    \* bound on the clock

Clients == Addresses \cup Users \cup BucketNames
Kinds == {"read", "write"}
\* An address has one limiter, a user and a bucket have two.
Limiters == (Addresses \X {"any"}) \cup ((Users \cup BucketNames) \X Kinds)
NoLimiter == <<>>
Cap(l) == Cost * Burst[l]

ASSUME SetsAssumption ==
    /\ Addresses \cap (Users \cup BucketNames) = {} /\ Users \cap BucketNames = {}
    /\ NoClient \notin Clients
    /\ Enabled \subseteq {"address", "user", "bucket"}
ASSUME NumbersAssumption ==
    /\ Cost \in Nat /\ Idle \in Nat /\ MaxTime \in Nat
    /\ Rate \in [Limiters -> Nat] /\ Burst \in [Limiters -> Nat] /\ Pace \in [Limiters -> Nat]
\* A client keeps up the rate of the limiter or, by keeping quiet until it is
\* forgotten, a burst every Idle; the configuration need not make one the larger.
ASSUME PaceAssumption == \A l \in Limiters : Pace[l] >= Rate[l] /\ Pace[l] * Idle >= Cap(l)

VARIABLES now,
          known,    \* the clients in the maps
          lastSeen, \* lastSeen[c]; 0 when c is not known
          tokens, last, \* of each limiter: its shares at its last grant, and when that was
          at, request,  \* what the request in p does next, and whom it concerns
          watched, start, counted \* History: a limiter, an instant, and the grants of the one since the other

clients == <<known, lastSeen, tokens, last>>
limiterVars == <<now, clients, at, request, watched, start, counted>>

LimitedRequests == [address : Addresses, user : Users \cup {NoClient},
                    bucket : BucketNames \cup {NoClient}, write : BOOLEAN]
NoRequest == [address |-> NoClient, user |-> NoClient, bucket |-> NoClient, write |-> FALSE]

LimiterInit ==
    /\ now = 0
    /\ known = {}
    /\ lastSeen = [c \in Clients |-> 0]
    /\ tokens = [l \in Limiters |-> 0]
    /\ last = [l \in Limiters |-> 0]
    /\ at = [p \in Procs |-> "idle"]
    /\ request = [p \in Procs |-> NoRequest]
    /\ watched = NoLimiter
    /\ start = 0
    /\ counted = 0

-----------------------------------------------------------------------------
AtMost(a, b) == IF a <= b THEN a ELSE b

\* Slip: shares pile up without end.
RefilledFreely(l) == tokens[l] + Rate[l] * (now - last[l])

\* The shares of a limiter: what it had and what came since, up to its burst.
Refilled(l) == AtMost(Cap(l), tokens[l] + Rate[l] * (now - last[l]))

\* A limiter is full when it is made.
Available(l) == IF l[1] \in known THEN Refilled(l) ELSE Cap(l)

\* Limiter l refused: its client is met all the same, and made if need be.
Met(c) ==
    /\ known' = known \cup {c}
    /\ lastSeen' = [lastSeen EXCEPT ![c] = now]

New(l, c) == l[1] = c /\ c \notin known

Granted(l) ==
    /\ Met(l[1])
    /\ tokens' = [m \in Limiters |-> IF m = l THEN Available(l) - Cost
                                     ELSE IF New(m, l[1]) THEN Cap(m) ELSE tokens[m]]
    /\ last' = [m \in Limiters |-> IF m = l \/ New(m, l[1]) THEN now ELSE last[m]]
    /\ counted' = IF l = watched THEN counted + 1 ELSE counted

Refused(l) ==
    /\ Met(l[1])
    /\ tokens' = [m \in Limiters |-> IF New(m, l[1]) THEN Cap(m) ELSE tokens[m]]
    /\ last' = [m \in Limiters |-> IF New(m, l[1]) THEN now ELSE last[m]]
    /\ counted' = counted

-----------------------------------------------------------------------------
(***************************************************************************)
(* A request: one critical section for each limit.                         *)
(***************************************************************************)
Arrive(p) ==
    /\ at[p] = "idle"
    /\ \E r \in LimitedRequests : request' = [request EXCEPT ![p] = r]
    /\ at' = [at EXCEPT ![p] = "address"]
    /\ UNCHANGED <<now, clients, watched, start, counted>>

Finish(p) ==
    /\ at' = [at EXCEPT ![p] = "idle"]
    /\ request' = [request EXCEPT ![p] = NoRequest]

Onward(p, step) ==
    /\ at' = [at EXCEPT ![p] = step]
    /\ request' = request

Allow(p, l, next) ==
    /\ IF Available(l) >= Cost THEN Granted(l) /\ Onward(p, next)
       ELSE Refused(l) /\ Finish(p)
    /\ UNCHANGED <<now, watched, start>>

Skip(p, next) == Onward(p, next) /\ UNCHANGED <<now, clients, watched, start, counted>>

\* RateLimit
LimitAddress(p) ==
    /\ at[p] = "address"
    /\ IF "address" \in Enabled THEN Allow(p, <<request[p].address, "any">>, "auth")
       ELSE Skip(p, "auth")

\* Past the first limit a request may be refused, or be none of the S3 and
\* administration requests that the others are for.
Authenticate(p) ==
    /\ at[p] = "auth"
    /\ Finish(p) \/ Onward(p, "user")
    /\ UNCHANGED <<now, clients, watched, start, counted>>

KindOf(r) == IF r.write THEN "write" ELSE "read"

\* AdvancedRateLimit, per user.
LimitUser(p) ==
    /\ at[p] = "user"
    /\ LET r == request[p]
       IN IF "user" \in Enabled /\ r.user # NoClient
          THEN Allow(p, <<r.user, KindOf(r)>>, "bucket")
          ELSE Skip(p, "bucket")

\* AdvancedRateLimit, per bucket.
LimitBucket(p) ==
    /\ at[p] = "bucket"
    /\ LET r == request[p]
       IN IF "bucket" \in Enabled /\ r.bucket # NoClient
          THEN Allow(p, <<r.bucket, KindOf(r)>>, "serve")
          ELSE Skip(p, "serve")

Serve(p) ==
    /\ at[p] = "serve"
    /\ Finish(p)
    /\ UNCHANGED <<now, clients, watched, start, counted>>

-----------------------------------------------------------------------------
(***************************************************************************)
(* The cleanups, one for the addresses and one for users and buckets, and  *)
(* time.                                                                   *)
(***************************************************************************)
Quiet(c) == c \in known /\ now - lastSeen[c] > Idle

Forget(quiet) ==
    /\ known' = known \ quiet
    /\ lastSeen' = [c \in Clients |-> IF c \in quiet THEN 0 ELSE lastSeen[c]]
    /\ tokens' = [l \in Limiters |-> IF l[1] \in quiet THEN 0 ELSE tokens[l]]
    /\ last' = [l \in Limiters |-> IF l[1] \in quiet THEN 0 ELSE last[l]]
    /\ UNCHANGED <<now, at, request, watched, start, counted>>

\* Slip: a round of the cleanup drops everyone.
CleanupAll == Forget(known \cap Addresses) \/ Forget(known \ Addresses)

Cleanup ==
    \/ Forget({c \in Addresses : Quiet(c)})
    \/ Forget({c \in Users \cup BucketNames : Quiet(c)})

Tick ==
    /\ now < MaxTime
    /\ now' = now + 1
    /\ UNCHANGED <<clients, at, request, watched, start, counted>>

\* Any limiter, at any instant.
OpenWindow ==
    /\ watched = NoLimiter /\ watched' \in Limiters
    /\ start' = now
    /\ UNCHANGED <<now, clients, at, request, counted>>

Handle(p) ==
    Arrive(p) \/ LimitAddress(p) \/ Authenticate(p) \/ LimitUser(p) \/ LimitBucket(p) \/ Serve(p)

LimiterNext == (\E p \in Procs : Handle(p)) \/ Cleanup \/ Tick \/ OpenWindow

LimiterSpec == LimiterInit /\ [][LimiterNext]_limiterVars

-----------------------------------------------------------------------------
Steps == {"idle", "address", "auth", "user", "bucket", "serve"}

\* No limiter holds more than its burst, and none was last used after its
\* client was last met.
LimiterTypeOK ==
    /\ now \in 0..MaxTime
    /\ known \subseteq Clients
    /\ lastSeen \in [Clients -> 0..now]
    /\ tokens \in [Limiters -> Nat] /\ last \in [Limiters -> Nat]
    /\ \A l \in Limiters : tokens[l] <= Cap(l) /\ last[l] <= lastSeen[l[1]]
    /\ at \in [Procs -> Steps]
    /\ request \in [Procs -> LimitedRequests \cup {NoRequest}]
    /\ \A p \in Procs : at[p] # "idle" => request[p] \in LimitedRequests
    /\ watched \in Limiters \cup {NoLimiter} /\ start \in 0..now
    /\ counted \in Nat

\* From any instant on, a limiter grants no more than a burst and what comes
\* in at the pace a client can keep up, whatever the cleanup forgets and
\* however requests interleave.
WindowBounded ==
    watched # NoLimiter => Cost * counted <= Cap(watched) + Pace[watched] * (now - start)

=============================================================================
