------------------------- MODULE Middleware_proofs -------------------------
(***************************************************************************)
(* What a request passes on its way: theorems about the limiters and about *)
(* the answers to visits, each for any instance of its module.  The two    *)
(* share no variable and no constant.                                      *)
(*                                                                         *)
(* RateLimit, for any clients, limits and number of requests at once:      *)
(* types (LimiterTypeCorrect) and the bound on what a limiter grants from  *)
(* any instant on (GrantsBounded).                                         *)
(*                                                                         *)
(* BucketConfig, for any buckets, domains, keys, configurations and number *)
(* of visitors and writers: answers rest on what was configured and stored *)
(* during the visit (AnswersAreJustified).                                 *)
(***************************************************************************)
EXTENDS RateLimit, BucketConfig, TLAPS

-----------------------------------------------------------------------------
(***************************************************************************)
(* Products of natural numbers.                                            *)
(***************************************************************************)

\* The product of two natural numbers is one.
LEMMA ProductNat ==
    ASSUME NEW a \in Nat, NEW b \in Nat
    PROVE  a * b \in Nat
  OBVIOUS

\* A pace over two spans of time.
LEMMA ProductSum ==
    ASSUME NEW a \in Nat, NEW b \in Nat, NEW c \in Nat
    PROVE  a * (b + c) = a * b + a * c
  OBVIOUS

\* The larger pace brings more.
LEMMA ProductGrows ==
    ASSUME NEW a \in Nat, NEW b \in Nat, NEW c \in Nat, a <= b
    PROVE  a * c <= b * c /\ c * a <= c * b
  <1>1. PICK d \in Nat : b = a + d
    <2>1. b - a \in Nat /\ b = a + (b - a)
      OBVIOUS
    <2> QED BY <2>1
  <1>2. b * c = a * c + d * c /\ c * b = c * a + c * d
    BY <1>1
  <1>3. d * c \in Nat /\ c * d \in Nat /\ a * c \in Nat /\ c * a \in Nat
    BY <1>1, ProductNat
  <1> QED BY <1>2, <1>3

-----------------------------------------------------------------------------
(***************************************************************************)
(* The parts of the type invariant.                                        *)
(***************************************************************************)
ClientsOK ==
    /\ now \in 0..MaxTime
    /\ known \subseteq Clients
    /\ lastSeen \in [Clients -> 0..now]
    /\ tokens \in [Limiters -> Nat] /\ last \in [Limiters -> Nat]
    /\ \A l \in Limiters : tokens[l] <= Cap(l) /\ last[l] <= lastSeen[l[1]]

RequestsOK ==
    /\ at \in [Procs -> Steps]
    /\ request \in [Procs -> LimitedRequests \cup {NoRequest}]
    /\ \A p \in Procs : at[p] # "idle" => request[p] \in LimitedRequests

HistoryOK == watched \in Limiters \cup {NoLimiter} /\ start \in 0..now /\ counted \in Nat

\* The type invariant is the conjunction of its parts.
LEMMA TypeParts == LimiterTypeOK <=> ClientsOK /\ RequestsOK /\ HistoryOK
  BY DEF LimiterTypeOK, ClientsOK, RequestsOK, HistoryOK

\* A limiter has a client and a capacity, and is not the marker for none.
LEMMA LimiterFacts ==
    ASSUME NEW l \in Limiters
    PROVE  /\ l[1] \in Clients /\ l # NoLimiter
           /\ Cap(l) \in Nat /\ Rate[l] \in Nat /\ Burst[l] \in Nat /\ Pace[l] \in Nat
  <1>1. l[1] \in Clients /\ l # NoLimiter
    BY DEF Limiters, Clients, NoLimiter
  <1>2. Cost \in Nat /\ Rate[l] \in Nat /\ Burst[l] \in Nat /\ Pace[l] \in Nat
    BY NumbersAssumption
  <1>3. Cap(l) \in Nat
    BY <1>2, ProductNat DEF Cap
  <1> QED BY <1>1, <1>2, <1>3

\* What a limiter has to give is between nothing and its burst.
LEMMA AvailableBounded ==
    ASSUME ClientsOK, NEW l \in Limiters
    PROVE  Available(l) \in Nat /\ Available(l) <= Cap(l)
  <1>1. Cap(l) \in Nat /\ Rate[l] \in Nat /\ l[1] \in Clients
    BY LimiterFacts
  <1>2. tokens[l] \in Nat /\ last[l] \in Nat /\ last[l] <= lastSeen[l[1]] /\ lastSeen[l[1]] \in 0..now
    BY <1>1 DEF ClientsOK
  <1>3. now \in Nat /\ now - last[l] \in Nat
    BY <1>2, NumbersAssumption DEF ClientsOK
  <1>4. Rate[l] * (now - last[l]) \in Nat
    BY <1>1, <1>3, ProductNat
  <1>5. CASE l[1] \in known
    BY <1>1, <1>2, <1>4, <1>5 DEF Available, Refilled, AtMost
  <1>6. CASE l[1] \notin known
    BY <1>1, <1>6 DEF Available
  <1> QED BY <1>5, <1>6

-----------------------------------------------------------------------------
(***************************************************************************)
(* The shapes of a step.  A request goes on or ends, and at most one       *)
(* limiter grants or refuses.                                              *)
(***************************************************************************)
Moves(p) ==
    \/ /\ at' = [at EXCEPT ![p] = "address"]
       /\ \E r \in LimitedRequests : request' = [request EXCEPT ![p] = r]
    \/ Finish(p)
    \/ at[p] # "idle" /\ \E s \in Steps : Onward(p, s)

Decides(l) == (Available(l) >= Cost /\ Granted(l)) \/ Refused(l)

Limited == UNCHANGED <<clients, counted>> \/ \E l \in Limiters : Decides(l)

\* One limit is passed.
LEMMA AllowShape ==
    ASSUME ClientsOK, NEW p \in Procs, at[p] # "idle", NEW l \in Limiters, NEW s \in Steps,
           Allow(p, l, s)
    PROVE  Moves(p) /\ Limited /\ UNCHANGED <<now, watched, start>>
  <1>1. CASE Available(l) >= Cost
    BY <1>1 DEF Allow, Moves, Limited, Decides
  <1>2. CASE ~(Available(l) >= Cost)
    BY <1>2 DEF Allow, Moves, Limited, Decides
  <1> QED BY <1>1, <1>2

\* One limit is passed over.
LEMMA SkipShape ==
    ASSUME NEW p \in Procs, at[p] # "idle", NEW s \in Steps, Skip(p, s)
    PROVE  Moves(p) /\ Limited /\ UNCHANGED <<now, watched, start>>
  BY DEF Skip, Moves, Limited

\* Every step of a request has the shape.
LEMMA HandleShape ==
    ASSUME ClientsOK, RequestsOK, NEW p \in Procs, Handle(p)
    PROVE  Moves(p) /\ Limited /\ UNCHANGED <<now, watched, start>>
  <1>1. CASE Arrive(p)
    BY <1>1 DEF Arrive, Moves, Limited
  <1>2. CASE LimitAddress(p)
    <2>1. at[p] # "idle" /\ "auth" \in Steps
      BY <1>2 DEF LimitAddress, Steps
    <2>2. <<request[p].address, "any">> \in Limiters
      BY <2>1 DEF RequestsOK, LimitedRequests, Limiters
    <2>3. CASE "address" \in Enabled
      BY <1>2, <2>1, <2>2, <2>3, AllowShape DEF LimitAddress
    <2>4. CASE "address" \notin Enabled
      BY <1>2, <2>1, <2>4, SkipShape DEF LimitAddress
    <2> QED BY <2>3, <2>4
  <1>3. CASE Authenticate(p)
    BY <1>3 DEF Authenticate, Moves, Limited, Steps
  <1>4. CASE LimitUser(p)
    <2>1. at[p] # "idle" /\ "bucket" \in Steps
      BY <1>4 DEF LimitUser, Steps
    <2>2. request[p] \in LimitedRequests
      BY <2>1 DEF RequestsOK
    <2>3. CASE "user" \in Enabled /\ request[p].user # NoClient
      <3>1. <<request[p].user, KindOf(request[p])>> \in Limiters
        BY <2>2, <2>3 DEF LimitedRequests, Limiters, KindOf, Kinds
      <3> QED BY <1>4, <2>1, <2>3, <3>1, AllowShape DEF LimitUser
    <2>4. CASE ~("user" \in Enabled /\ request[p].user # NoClient)
      BY <1>4, <2>1, <2>4, SkipShape DEF LimitUser
    <2> QED BY <2>3, <2>4
  <1>5. CASE LimitBucket(p)
    <2>1. at[p] # "idle" /\ "serve" \in Steps
      BY <1>5 DEF LimitBucket, Steps
    <2>2. request[p] \in LimitedRequests
      BY <2>1 DEF RequestsOK
    <2>3. CASE "bucket" \in Enabled /\ request[p].bucket # NoClient
      <3>1. <<request[p].bucket, KindOf(request[p])>> \in Limiters
        BY <2>2, <2>3 DEF LimitedRequests, Limiters, KindOf, Kinds
      <3> QED BY <1>5, <2>1, <2>3, <3>1, AllowShape DEF LimitBucket
    <2>4. CASE ~("bucket" \in Enabled /\ request[p].bucket # NoClient)
      BY <1>5, <2>1, <2>4, SkipShape DEF LimitBucket
    <2> QED BY <2>3, <2>4
  <1>6. CASE Serve(p)
    BY <1>6 DEF Serve, Moves, Limited
  <1> QED BY <1>1, <1>2, <1>3, <1>4, <1>5, <1>6 DEF Handle

\* A request that goes on or ends keeps its types.
LEMMA MovesKeep ==
    ASSUME RequestsOK, NEW p \in Procs, Moves(p)
    PROVE  RequestsOK'
  <1>1. CASE Finish(p)
    BY <1>1 DEF Finish, RequestsOK, Steps
  <1>2. CASE at[p] # "idle" /\ \E s \in Steps : Onward(p, s)
    BY <1>2 DEF Onward, RequestsOK
  <1>3. CASE /\ at' = [at EXCEPT ![p] = "address"]
             /\ \E r \in LimitedRequests : request' = [request EXCEPT ![p] = r]
    BY <1>3 DEF RequestsOK, Steps
  <1> QED BY <1>1, <1>2, <1>3 DEF Moves

-----------------------------------------------------------------------------
(***************************************************************************)
(* Types.                                                                  *)
(***************************************************************************)

\* Deciding at limiter l only fills the limiters of its client.
LEMMA DecidesTypes ==
    ASSUME ClientsOK, now' = now, NEW l \in Limiters, Decides(l)
    PROVE  /\ tokens' \in [Limiters -> Nat] /\ last' \in [Limiters -> Nat]
           /\ \A m \in Limiters :
                 /\ tokens'[m] <= Cap(m)
                 /\ (last'[m] = now /\ m[1] = l[1]) \/ last'[m] = last[m]
  <1>1. now \in Nat /\ Cost \in Nat
    BY NumbersAssumption DEF ClientsOK
  <1>2. \A m \in Limiters : tokens[m] \in Nat /\ tokens[m] <= Cap(m) /\ last[m] \in Nat /\ Cap(m) \in Nat
    BY LimiterFacts DEF ClientsOK
  <1>3. CASE Available(l) >= Cost /\ Granted(l)
    <2>1. Available(l) - Cost \in Nat /\ Available(l) - Cost <= Cap(l)
      BY <1>1, <1>2, <1>3, AvailableBounded
    <2>2. /\ tokens' = [m \in Limiters |-> IF m = l THEN Available(l) - Cost
                                           ELSE IF New(m, l[1]) THEN Cap(m) ELSE tokens[m]]
          /\ last' = [m \in Limiters |-> IF m = l \/ New(m, l[1]) THEN now ELSE last[m]]
      BY <1>3 DEF Granted
    <2> QED BY <1>1, <1>2, <2>1, <2>2 DEF New
  <1>4. CASE Refused(l)
    <2>1. /\ tokens' = [m \in Limiters |-> IF New(m, l[1]) THEN Cap(m) ELSE tokens[m]]
          /\ last' = [m \in Limiters |-> IF New(m, l[1]) THEN now ELSE last[m]]
      BY <1>4 DEF Refused
    <2> QED BY <1>1, <1>2, <2>1 DEF New
  <1> QED BY <1>3, <1>4 DEF Decides

\* Deciding keeps the types of clients and limiters, and counts a grant at most.
LEMMA DecidesKeeps ==
    ASSUME ClientsOK, counted \in Nat, now' = now, NEW l \in Limiters, Decides(l)
    PROVE  ClientsOK' /\ counted' \in Nat
  <1>1. known' = known \cup {l[1]} /\ lastSeen' = [lastSeen EXCEPT ![l[1]] = now] /\ l[1] \in Clients
    BY LimiterFacts DEF Decides, Granted, Refused, Met
  <1>2. now \in 0..MaxTime /\ now \in Nat /\ now \in 0..now
    BY NumbersAssumption DEF ClientsOK
  <1>3. known' \subseteq Clients
    BY <1>1 DEF ClientsOK
  <1>4. lastSeen' \in [Clients -> 0..now] /\ lastSeen'[l[1]] = now
        /\ \A c \in Clients \ {l[1]} : lastSeen'[c] = lastSeen[c]
    BY <1>1, <1>2 DEF ClientsOK
  <1>5. \A m \in Limiters : last'[m] <= lastSeen'[m[1]]
    <2> SUFFICES ASSUME NEW m \in Limiters PROVE last'[m] <= lastSeen'[m[1]]
      OBVIOUS
    <2>1. m[1] \in Clients /\ last[m] \in Nat /\ last[m] <= lastSeen[m[1]] /\ lastSeen[m[1]] \in 0..now
      BY LimiterFacts DEF ClientsOK
    <2>2. (last'[m] = now /\ m[1] = l[1]) \/ last'[m] = last[m]
      BY DecidesTypes
    <2>3. CASE m[1] = l[1]
      BY <1>2, <1>4, <2>1, <2>2, <2>3
    <2>4. CASE m[1] # l[1]
      BY <1>4, <2>1, <2>2, <2>4
    <2> QED BY <2>3, <2>4
  <1>6. counted' \in Nat
    BY DEF Decides, Granted, Refused
  <1> QED BY <1>2, <1>3, <1>4, <1>5, <1>6, DecidesTypes DEF ClientsOK, Cap

\* Forgetting clients keeps the types.
LEMMA ForgetKeeps ==
    ASSUME ClientsOK, NEW quiet, Forget(quiet)
    PROVE  ClientsOK'
  <1>1. now' = now /\ now \in 0..MaxTime /\ now \in Nat /\ 0 \in 0..now
    BY NumbersAssumption DEF ClientsOK, Forget
  <1>2. known' \subseteq Clients
    BY DEF Forget, ClientsOK
  <1>3. /\ lastSeen' = [c \in Clients |-> IF c \in quiet THEN 0 ELSE lastSeen[c]]
        /\ tokens' = [l \in Limiters |-> IF l[1] \in quiet THEN 0 ELSE tokens[l]]
        /\ last' = [l \in Limiters |-> IF l[1] \in quiet THEN 0 ELSE last[l]]
    BY DEF Forget
  <1>4. lastSeen' \in [Clients -> 0..now] /\ tokens' \in [Limiters -> Nat] /\ last' \in [Limiters -> Nat]
    BY <1>1, <1>3 DEF ClientsOK
  <1>5. \A l \in Limiters : tokens'[l] <= Cap(l) /\ last'[l] <= lastSeen'[l[1]]
    BY <1>3, LimiterFacts DEF ClientsOK
  <1> QED BY <1>1, <1>2, <1>4, <1>5 DEF ClientsOK, Cap

\* Every step keeps the types.
LEMMA TypeStep ==
    ASSUME LimiterTypeOK, [LimiterNext]_limiterVars
    PROVE  LimiterTypeOK'
  <1> USE TypeParts
  <1>0. now \in Nat /\ start \in 0..now
    BY NumbersAssumption DEF ClientsOK, HistoryOK
  <1>1. ASSUME NEW p \in Procs, Handle(p) PROVE LimiterTypeOK'
    <2>1. Moves(p) /\ Limited /\ UNCHANGED <<now, watched, start>>
      BY <1>1, HandleShape
    <2>2. RequestsOK'
      BY <2>1, MovesKeep
    <2>3. ClientsOK' /\ counted' \in Nat
      <3>1. CASE UNCHANGED <<clients, counted>>
        BY <2>1, <3>1 DEF ClientsOK, HistoryOK, clients, Cap
      <3>2. CASE \E l \in Limiters : Decides(l)
        BY <2>1, <3>2, DecidesKeeps DEF HistoryOK
      <3> QED BY <2>1, <3>1, <3>2 DEF Limited
    <2>4. HistoryOK'
      BY <2>1, <2>3 DEF HistoryOK
    <2>5. (ClientsOK /\ RequestsOK /\ HistoryOK)'
      BY <2>2, <2>3, <2>4
    <2> QED BY <2>5 DEF LimiterTypeOK, ClientsOK, RequestsOK, HistoryOK
  <1>2. CASE Cleanup
    <2>1. PICK quiet : Forget(quiet)
      BY <1>2 DEF Cleanup
    <2>2. ClientsOK'
      BY <2>1, ForgetKeeps
    <2>3. UNCHANGED <<now, at, request, watched, start, counted>>
      BY <2>1 DEF Forget
    <2>4. RequestsOK' /\ HistoryOK'
      BY <2>3 DEF RequestsOK, HistoryOK
    <2> QED BY <2>2, <2>4 DEF LimiterTypeOK, ClientsOK, RequestsOK, HistoryOK
  <1>3. CASE Tick
    <2>1. now' = now + 1 /\ now' \in 0..MaxTime /\ UNCHANGED <<clients, at, request, watched, start, counted>>
      BY <1>0, <1>3, NumbersAssumption DEF Tick
    <2>2. 0..now \subseteq 0..now'
      BY <1>0, <2>1
    <2>3. ClientsOK'
      BY <2>1, <2>2 DEF ClientsOK, clients, Cap
    <2>4. RequestsOK' /\ HistoryOK'
      BY <2>1, <2>2 DEF RequestsOK, HistoryOK
    <2> QED BY <2>3, <2>4 DEF LimiterTypeOK, ClientsOK, RequestsOK, HistoryOK
  <1>4. CASE OpenWindow
    <2>1. UNCHANGED <<now, clients, at, request, counted>> /\ watched' \in Limiters /\ start' = now
      BY <1>4 DEF OpenWindow
    <2>2. ClientsOK' /\ RequestsOK'
      BY <2>1 DEF ClientsOK, RequestsOK, clients, Cap
    <2>3. HistoryOK'
      BY <1>0, <2>1 DEF HistoryOK
    <2> QED BY <2>2, <2>3 DEF LimiterTypeOK, ClientsOK, RequestsOK, HistoryOK
  <1>5. CASE UNCHANGED limiterVars
    BY <1>5 DEF limiterVars, clients, LimiterTypeOK, Cap
  <1> QED BY <1>1, <1>2, <1>3, <1>4, <1>5 DEF LimiterNext

\* The types hold at the start.
LEMMA TypeInit == LimiterInit => LimiterTypeOK
  <1> SUFFICES ASSUME LimiterInit PROVE LimiterTypeOK
    OBVIOUS
  <1>1. \A l \in Limiters : l[1] \in Clients /\ Cap(l) \in Nat
    BY LimiterFacts
  <1>2. ClientsOK
    BY <1>1, NumbersAssumption DEF LimiterInit, ClientsOK
  <1>3. RequestsOK /\ HistoryOK
    BY NumbersAssumption DEF LimiterInit, RequestsOK, HistoryOK, Steps
  <1> QED BY <1>2, <1>3, TypeParts

\* No limiter ever holds more than its burst, nor was used after its client was
\* met, for any clients, limits and requests at once.
THEOREM LimiterTypeCorrect == LimiterSpec => []LimiterTypeOK
  BY TypeInit, TypeStep, PTL DEF LimiterSpec

-----------------------------------------------------------------------------
(***************************************************************************)
(* The bound on grants.  What the watched limiter has granted and could    *)
(* still grant stays below a burst and the pace (WithinPace): a refill     *)
(* brings no more than the pace does.  The cleanup makes the limiter full  *)
(* again; that this fits too takes what was granted up to the client's     *)
(* last request (SinceMet), since more than Idle has passed from there.    *)
(***************************************************************************)
Allowance(span) == Cap(watched) + Pace[watched] * span

WithinPace == Cost * counted + Available(watched) <= Allowance(now - start)

SinceMet ==
    watched[1] \in known =>
        \/ lastSeen[watched[1]] < start /\ counted = 0
        \/ lastSeen[watched[1]] >= start /\ Cost * counted <= Allowance(lastSeen[watched[1]] - start)

WindowInv ==
    /\ watched = NoLimiter => counted = 0
    /\ watched # NoLimiter => WithinPace /\ SinceMet

\* What is needed about the watched limiter's numbers.
LEMMA WatchedFacts ==
    ASSUME LimiterTypeOK, watched # NoLimiter
    PROVE  /\ watched \in Limiters /\ watched[1] \in Clients
           /\ now \in Nat /\ start \in Nat /\ start <= now /\ now - start \in Nat
           /\ lastSeen[watched[1]] \in Nat /\ lastSeen[watched[1]] <= now
           /\ Cost \in Nat /\ counted \in Nat /\ Cost * counted \in Nat
           /\ Cap(watched) \in Nat /\ Pace[watched] \in Nat
           /\ Available(watched) \in Nat /\ Available(watched) <= Cap(watched)
           /\ \A span \in Nat : Pace[watched] * span \in Nat
  <1>1. ClientsOK /\ HistoryOK
    BY TypeParts
  <1>2. watched \in Limiters /\ start \in 0..now /\ counted \in Nat
    BY <1>1 DEF HistoryOK
  <1>3. /\ watched[1] \in Clients /\ Cap(watched) \in Nat /\ Pace[watched] \in Nat
        /\ Available(watched) \in Nat /\ Available(watched) <= Cap(watched)
    BY <1>1, <1>2, LimiterFacts, AvailableBounded
  <1>4. now \in Nat /\ lastSeen[watched[1]] \in 0..now
    BY <1>1, <1>3, NumbersAssumption DEF ClientsOK
  <1>5. Cost \in Nat /\ Cost * counted \in Nat /\ \A span \in Nat : Pace[watched] * span \in Nat
    BY <1>2, <1>3, ProductNat, NumbersAssumption
  <1>6. start \in Nat /\ start <= now /\ now - start \in Nat
    BY <1>2, <1>4
  <1> QED BY <1>2, <1>3, <1>4, <1>5, <1>6

\* A step that leaves the limiter's client, the clock and the window alone.
LEMMA WindowFrame ==
    ASSUME WindowInv, UNCHANGED <<now, watched, start, counted>>,
           watched # NoLimiter =>
              /\ watched[1] \in known' <=> watched[1] \in known
              /\ lastSeen'[watched[1]] = lastSeen[watched[1]]
              /\ tokens'[watched] = tokens[watched] /\ last'[watched] = last[watched]
    PROVE  WindowInv'
  BY DEF WindowInv, WithinPace, SinceMet, Allowance, Available, Refilled, Cap

\* The limiter has been met now: what it granted and has left decides.
LEMMA WindowMet ==
    ASSUME LimiterTypeOK, watched # NoLimiter, UNCHANGED <<now, watched, start>>,
           counted' \in Nat, lastSeen'[watched[1]] = now,
           (Available(watched))' \in Nat,
           Cost * counted' + (Available(watched))' <= Allowance(now - start)
    PROVE  WindowInv'
  <1>1. Cost * counted' \in Nat /\ Allowance(now - start) \in Nat
    BY WatchedFacts, ProductNat DEF Allowance
  <1>2. Allowance(now - start)' = Allowance(now - start)
    BY DEF Allowance, Cap
  <1>3. Cost * counted' <= Allowance(now - start)
    BY <1>1
  <1>4. WithinPace' /\ SinceMet'
    BY <1>2, <1>3, WatchedFacts DEF WithinPace, SinceMet, Allowance, Cap
  <1> QED BY <1>4 DEF WindowInv

\* Deciding at a limiter.
LEMMA WindowDecides ==
    ASSUME LimiterTypeOK, WindowInv, UNCHANGED <<now, watched, start>>, NEW l \in Limiters, Decides(l)
    PROVE  WindowInv'
  <1> USE TypeParts
  <1>1. /\ ClientsOK' /\ counted' \in Nat
        /\ known' = known \cup {l[1]} /\ lastSeen' = [lastSeen EXCEPT ![l[1]] = now]
    BY DecidesKeeps DEF Decides, Granted, Refused, Met, HistoryOK
  <1>2. CASE watched = NoLimiter
    BY <1>2, LimiterFacts DEF Decides, Granted, Refused, WindowInv
  <1>3. CASE watched # NoLimiter /\ watched[1] # l[1]
    <2>1. watched \in Limiters /\ watched[1] \in Clients /\ watched # l
      BY <1>3, WatchedFacts
    <2>2. tokens'[watched] = tokens[watched] /\ last'[watched] = last[watched] /\ counted' = counted
      BY <1>3, <2>1 DEF Decides, Granted, Refused, New
    <2>3. lastSeen'[watched[1]] = lastSeen[watched[1]]
      BY <1>1, <1>3, <2>1 DEF ClientsOK
    <2> QED BY <1>1, <1>3, <2>2, <2>3, WindowFrame
  <1>4. CASE watched # NoLimiter /\ watched[1] = l[1]
    <2>1. watched \in Limiters /\ watched[1] \in Clients /\ WithinPace
      BY <1>4, WatchedFacts DEF WindowInv
    <2>2. lastSeen'[watched[1]] = now /\ watched[1] \in known'
      BY <1>1, <1>4, <2>1 DEF ClientsOK
    <2>3. now \in Nat /\ Cost \in Nat /\ counted \in Nat /\ Rate[watched] \in Nat /\ Cap(watched) \in Nat
          /\ Available(watched) \in Nat /\ Available(watched) <= Cap(watched)
      BY <1>4, <2>1, WatchedFacts, LimiterFacts
    <2>4. (Available(watched))' = AtMost(Cap(watched), tokens'[watched] + Rate[watched] * (now - last'[watched]))
      BY <2>2 DEF Available, Refilled, Cap
    <2>5. CASE watched = l /\ Available(l) >= Cost /\ Granted(l)
      <3>1. tokens'[watched] = Available(watched) - Cost /\ last'[watched] = now /\ counted' = counted + 1
        BY <2>1, <2>5 DEF Granted
      <3>2. now - last'[watched] = 0 /\ Rate[watched] * 0 = 0
        BY <2>3, <3>1
      <3>3. (Available(watched))' = Available(watched) - Cost
        <4>1. tokens'[watched] + Rate[watched] * (now - last'[watched]) = Available(watched) - Cost
          BY <2>3, <3>1, <3>2
        <4>2. Available(watched) - Cost <= Cap(watched)
          BY <2>3
        <4>3. (Available(watched))' = AtMost(Cap(watched), Available(watched) - Cost)
          BY <2>4, <4>1
        <4>4. AtMost(Cap(watched), Available(watched) - Cost) = Available(watched) - Cost
          BY <2>3, <4>2 DEF AtMost
        <4> QED BY <4>3, <4>4
      <3>4. Cost * counted' = Cost * counted + Cost * 1 /\ Cost * 1 = Cost
        <4>1. Cost * (counted + 1) = Cost * counted + Cost * 1 /\ Cost * 1 = Cost
          BY <2>3, ProductSum
        <4> QED BY <3>1, <4>1
      <3>5. Cost * counted' + (Available(watched))' <= Allowance(now - start) /\ (Available(watched))' \in Nat
        BY <1>4, <2>1, <2>3, <2>5, <3>3, <3>4, WatchedFacts DEF WithinPace
      <3> QED BY <1>1, <1>4, <2>2, <3>5, WindowMet
    <2>6. CASE ~(watched = l /\ Available(l) >= Cost /\ Granted(l))
      <3>1. counted' = counted
        BY <2>6 DEF Decides, Granted, Refused
      <3>2. CASE watched[1] \in known
        <4>1. tokens'[watched] = tokens[watched] /\ last'[watched] = last[watched]
          BY <1>4, <2>1, <2>6, <3>2 DEF Decides, Granted, Refused, New
        <4>2. (Available(watched))' = Available(watched)
          BY <2>4, <3>2, <4>1 DEF Available, Refilled
        <4>3. Cost * counted' + (Available(watched))' <= Allowance(now - start) /\ (Available(watched))' \in Nat
          BY <2>1, <2>3, <3>1, <4>2 DEF WithinPace
        <4> QED BY <1>1, <1>4, <2>2, <4>3, WindowMet
      <3>3. CASE watched[1] \notin known
        <4>1. tokens'[watched] = Cap(watched) /\ last'[watched] = now
          BY <1>4, <2>1, <2>6, <3>3 DEF Decides, Granted, Refused, New
        <4>2. now - last'[watched] = 0 /\ Rate[watched] * 0 = 0
          BY <2>3, <4>1
        <4>3. (Available(watched))' = Cap(watched) /\ Available(watched) = Cap(watched)
          BY <2>3, <2>4, <3>3, <4>1, <4>2 DEF AtMost, Available
        <4>4. Cost * counted' + (Available(watched))' <= Allowance(now - start) /\ (Available(watched))' \in Nat
          BY <2>1, <2>3, <3>1, <4>3 DEF WithinPace
        <4> QED BY <1>1, <1>4, <2>2, <4>4, WindowMet
      <3> QED BY <3>2, <3>3
    <2> QED BY <2>5, <2>6
  <1> QED BY <1>2, <1>3, <1>4

\* The cleanup forgets clients that have been quiet for more than Idle.
LEMMA WindowForgets ==
    ASSUME LimiterTypeOK, WindowInv, NEW quiet, Forget(quiet), \A c \in quiet : Quiet(c)
    PROVE  WindowInv'
  <1>1. /\ UNCHANGED <<now, watched, start, counted>> /\ known' = known \ quiet
        /\ lastSeen' = [c \in Clients |-> IF c \in quiet THEN 0 ELSE lastSeen[c]]
        /\ tokens' = [l \in Limiters |-> IF l[1] \in quiet THEN 0 ELSE tokens[l]]
        /\ last' = [l \in Limiters |-> IF l[1] \in quiet THEN 0 ELSE last[l]]
    BY DEF Forget
  <1>2. CASE watched = NoLimiter
    BY <1>1, <1>2 DEF WindowInv
  <1>3. CASE watched # NoLimiter /\ watched[1] \notin quiet
    BY <1>1, <1>3, WatchedFacts, WindowFrame
  <1>4. CASE watched # NoLimiter /\ watched[1] \in quiet
    <2> DEFINE met == lastSeen[watched[1]]
    <2>1. watched[1] \in known /\ now - met > Idle /\ SinceMet /\ Idle \in Nat
      BY <1>4, NumbersAssumption DEF Quiet, WindowInv
    <2>2. now \in Nat /\ start \in Nat /\ met \in Nat /\ start <= now /\ Cost \in Nat /\ counted \in Nat
          /\ Cost * counted \in Nat /\ Cap(watched) \in Nat /\ Pace[watched] \in Nat
      BY <1>4, WatchedFacts
    <2>3. Cap(watched) <= Pace[watched] * (now - met)
      <3>1. Cap(watched) <= Pace[watched] * Idle
        BY <1>4, WatchedFacts, PaceAssumption
      <3>2. now - met \in Nat /\ Idle <= now - met
        BY <2>1, <2>2
      <3>3. Pace[watched] * Idle <= Pace[watched] * (now - met)
        BY <2>1, <2>2, <3>2, ProductGrows
      <3>4. Pace[watched] * Idle \in Nat /\ Pace[watched] * (now - met) \in Nat
        BY <2>1, <2>2, <3>2, ProductNat
      <3> QED BY <2>2, <3>1, <3>3, <3>4
    <2>4. Cost * counted + Cap(watched) <= Allowance(now - start)
      <3>1. CASE met < start /\ counted = 0
        <4>1. Cost * counted = 0 /\ Pace[watched] * (now - start) \in Nat
          BY <1>4, <2>2, <3>1, WatchedFacts
        <4> QED BY <2>2, <4>1 DEF Allowance
      <3>2. CASE met >= start /\ Cost * counted <= Allowance(met - start)
        <4>1. met - start \in Nat /\ now - met \in Nat /\ now - start = (met - start) + (now - met)
          BY <2>1, <2>2, <3>2
        <4>2. Pace[watched] * (now - start) = Pace[watched] * (met - start) + Pace[watched] * (now - met)
          BY <2>2, <4>1, ProductSum
        <4>3. Pace[watched] * (met - start) \in Nat /\ Pace[watched] * (now - met) \in Nat
          BY <2>2, <4>1, ProductNat
        <4> QED BY <2>2, <2>3, <3>2, <4>2, <4>3 DEF Allowance
      <3> QED BY <2>1, <3>1, <3>2 DEF SinceMet
    <2>5. watched[1] \notin known'
      BY <1>1, <1>4
    <2>6. (Available(watched))' = Cap(watched)
      BY <1>1, <2>5 DEF Available, Cap
    <2>7. WithinPace' /\ SinceMet'
      BY <1>1, <2>4, <2>5, <2>6 DEF WithinPace, SinceMet, Allowance, Cap
    <2> QED BY <1>1, <1>4, <2>7 DEF WindowInv
  <1> QED BY <1>2, <1>3, <1>4

\* A tick brings the limiter no more than the pace.
LEMMA WindowTicks ==
    ASSUME LimiterTypeOK, WindowInv, Tick
    PROVE  WindowInv'
  <1>1. now' = now + 1 /\ UNCHANGED <<known, lastSeen, tokens, last, watched, start, counted>>
    BY DEF Tick, clients
  <1>2. CASE watched = NoLimiter
    BY <1>1, <1>2 DEF WindowInv
  <1>3. CASE watched # NoLimiter
    <2>1. watched \in Limiters /\ WithinPace /\ SinceMet
      BY <1>3, WatchedFacts DEF WindowInv
    <2>2. /\ now \in Nat /\ now - start \in Nat /\ start \in Nat /\ Cost * counted \in Nat
          /\ Cap(watched) \in Nat /\ Pace[watched] \in Nat /\ Rate[watched] \in Nat
          /\ Pace[watched] >= Rate[watched] /\ Available(watched) \in Nat
      BY <1>3, <2>1, WatchedFacts, LimiterFacts, PaceAssumption
    <2>3. (Available(watched))' <= Available(watched) + Rate[watched] /\ (Available(watched))' \in Int
      <3>1. CASE watched[1] \notin known
        BY <1>1, <2>2, <3>1 DEF Available, Cap
      <3>2. CASE watched[1] \in known
        <4>1. tokens[watched] \in Nat /\ last[watched] \in Nat /\ last[watched] <= now
          BY <1>3, <2>1, WatchedFacts, TypeParts DEF ClientsOK
        <4>2. now - last[watched] \in Nat /\ now' - last[watched] = (now - last[watched]) + 1
          BY <1>1, <2>2, <4>1
        <4>3. Rate[watched] * (now' - last[watched]) = Rate[watched] * (now - last[watched]) + Rate[watched] * 1
          BY <2>2, <4>2, ProductSum
        <4>4. Rate[watched] * (now - last[watched]) \in Nat /\ Rate[watched] * 1 = Rate[watched]
          BY <2>2, <4>2, ProductNat
        <4>5. (Refilled(watched))' =
                 AtMost(Cap(watched), tokens[watched] + Rate[watched] * (now' - last[watched]))
          BY <1>1 DEF Refilled, Cap
        <4> QED BY <1>1, <2>2, <3>2, <4>1, <4>3, <4>4, <4>5 DEF Available, Refilled, AtMost
      <3> QED BY <3>1, <3>2
    <2>4. (Allowance(now - start))' = Allowance(now - start) + Pace[watched] /\ Allowance(now - start) \in Nat
      <3>1. now' - start = (now - start) + 1
        BY <1>1, <2>2
      <3>2. Pace[watched] * (now' - start) = Pace[watched] * (now - start) + Pace[watched] * 1
        BY <2>2, <3>1, ProductSum
      <3>3. Pace[watched] * (now - start) \in Nat /\ Pace[watched] * 1 = Pace[watched]
        BY <2>2, ProductNat
      <3> QED BY <1>1, <2>2, <3>2, <3>3 DEF Allowance, Cap
    <2>5. WithinPace'
      BY <1>1, <2>1, <2>2, <2>3, <2>4 DEF WithinPace
    <2>6. SinceMet'
      BY <1>1, <2>1 DEF SinceMet, Allowance, Cap
    <2> QED BY <1>1, <1>3, <2>5, <2>6 DEF WindowInv
  <1> QED BY <1>2, <1>3

\* A window opens on a limiter that holds a burst at most.
LEMMA WindowOpens ==
    ASSUME LimiterTypeOK, WindowInv, OpenWindow
    PROVE  WindowInv'
  <1>1. /\ UNCHANGED <<now, known, lastSeen, tokens, last, counted>> /\ counted = 0
        /\ watched' \in Limiters /\ start' = now
    BY DEF OpenWindow, WindowInv, clients
  <1> DEFINE l == watched'
  <1>2. now \in Nat /\ Cost \in Nat /\ Cap(l) \in Nat /\ Pace[l] \in Nat /\ Available(l) <= Cap(l)
        /\ Available(l) \in Nat /\ l[1] \in Clients /\ l # NoLimiter
    BY <1>1, LimiterFacts, AvailableBounded, TypeParts, NumbersAssumption DEF ClientsOK
  <1>3. lastSeen[l[1]] \in Nat /\ lastSeen[l[1]] <= now
    BY <1>2, TypeParts DEF ClientsOK
  <1>4. Cost * counted' = 0 /\ now' - start' = 0 /\ Pace[l] * 0 = 0
    BY <1>1, <1>2
  <1>5. (Available(watched))' = Available(l) /\ (Allowance(0))' = Cap(l)
    BY <1>1, <1>2, <1>4 DEF Available, Refilled, Cap, Allowance
  <1>6. WithinPace'
    BY <1>1, <1>2, <1>4, <1>5 DEF WithinPace
  <1>7. SinceMet'
    BY <1>1, <1>2, <1>3, <1>4, <1>5 DEF SinceMet
  <1> QED BY <1>1, <1>2, <1>6, <1>7 DEF WindowInv

\* Every step keeps the bound.
LEMMA WindowStep ==
    ASSUME LimiterTypeOK, WindowInv, [LimiterNext]_limiterVars
    PROVE  WindowInv'
  <1>1. ASSUME NEW p \in Procs, Handle(p) PROVE WindowInv'
    <2>1. Limited /\ UNCHANGED <<now, watched, start>>
      BY <1>1, HandleShape, TypeParts
    <2>2. CASE UNCHANGED <<clients, counted>>
      BY <2>1, <2>2, WindowFrame DEF clients
    <2>3. CASE \E l \in Limiters : Decides(l)
      BY <2>1, <2>3, WindowDecides
    <2> QED BY <2>1, <2>2, <2>3 DEF Limited
  <1>2. CASE Cleanup
    BY <1>2, WindowForgets DEF Cleanup
  <1>3. CASE Tick
    BY <1>3, WindowTicks
  <1>4. CASE OpenWindow
    BY <1>4, WindowOpens
  <1>5. CASE UNCHANGED limiterVars
    BY <1>5, WindowFrame DEF limiterVars, clients
  <1> QED BY <1>1, <1>2, <1>3, <1>4, <1>5 DEF LimiterNext

\* From any instant on, no limiter grants more than a burst and the pace a
\* client can keep up, for any clients, limits and requests at once
\* (ratelimit.go:43, 73): being forgotten by the cleanup wins a client nothing.
THEOREM GrantsBounded == LimiterSpec => []WindowBounded
  <1>1. LimiterInit => WindowInv
    BY DEF LimiterInit, WindowInv
  <1>2. LimiterTypeOK /\ WindowInv => WindowBounded
    <2> SUFFICES ASSUME LimiterTypeOK, WindowInv, watched # NoLimiter
                 PROVE  Cost * counted <= Cap(watched) + Pace[watched] * (now - start)
      BY DEF WindowBounded
    <2>1. WithinPace
      BY DEF WindowInv
    <2>2. Pace[watched] * (now - start) \in Nat /\ Available(watched) \in Nat
          /\ Cost * counted \in Nat /\ Cap(watched) \in Nat
      BY WatchedFacts
    <2> QED BY <2>1, <2>2 DEF WithinPace, Allowance
  <1>3. LimiterTypeOK /\ WindowInv /\ [LimiterNext]_limiterVars => WindowInv'
    BY WindowStep
  <1> QED BY <1>1, <1>2, <1>3, LimiterTypeCorrect, PTL DEF LimiterSpec

-----------------------------------------------------------------------------
(***************************************************************************)
(* BucketConfig: what a visit x has found out, where S is what has held at *)
(* some instant since it began.                                            *)
(***************************************************************************)
Told(S, kind, b) == {f[3] : f \in {y \in S : y[1] = kind /\ y[2] = b}}
LacksIn(S, b, k) == b \in Buckets /\ k \in Keys => <<"lacks", b, k>> \in S
HoldsIn(S, b, k) == <<"has", b, k>> \in S
RulesOf(S, b) == IF b \in Buckets THEN Told(S, "cors", b) ELSE {None}
WantedIn(x, S) ==
    IF KeyOf(x.path) # <<>> THEN {KeyOf(x.path)}
    ELSE {getObjectKey(x.path, site.suffix) :
          site \in Told(S, "site", BucketOf(x.path)) \ {None}}
NoIndexIn(S, b, key, site) ==
    EndsInSlash(key) /\ site.suffix # <<>> => LacksIn(S, b, key \o site.suffix)
ForSite(x) == x.asked.browser \/ x.site

\* The bucket is the one that the custom domain had.
Rooted(x, S) ==
    x.asked.host \in Hosts =>
        (IF x.site THEN BucketOf(x.path) ELSE None) \in Told(S, "to", x.asked.host)

\* Who may read the answer is as some rules of the bucket had it.
Shared(x, S) ==
    x.asked.origin # None =>
        x.allow \in {allowedOrigin(rules, x.asked.origin) : rules \in RulesOf(S, BucketOf(x.path))}

\* The key was looked for in a bucket that there was, in vain.
Missed(x, S) ==
    /\ BucketOf(x.path) \in Buckets
    /\ x.key \in WantedIn(x, S) /\ LacksIn(S, BucketOf(x.path), x.key)

Configured(x, S) == x.row \in Told(S, "site", BucketOf(x.path)) \ {None}

\* What the answer rests on.
PageFound(x, S) == x.key \in WantedIn(x, S) /\ HoldsIn(S, BucketOf(x.path), x.key)
IndexFound(x, S) ==
    LET b == BucketOf(x.path) IN
    \E site \in Told(S, "site", b) \ {None}, key \in WantedIn(x, S) :
        /\ x.key = key \o site.suffix /\ EndsInSlash(key)
        /\ HoldsIn(S, b, x.key) /\ LacksIn(S, b, key)
ErrorFound(x, S) ==
    LET b == BucketOf(x.path) IN
    \E site \in Told(S, "site", b) \ {None} :
        /\ x.row = site /\ HoldsIn(S, b, site.error)
        /\ x.key \in WantedIn(x, S) /\ LacksIn(S, b, x.key) /\ NoIndexIn(S, b, x.key, site)
NothingFound(x, S) ==
    LET b == BucketOf(x.path)
        sites == Told(S, "site", b)
    IN /\ x.key \in WantedIn(x, S) /\ LacksIn(S, b, x.key)
       /\ ForSite(x) /\ None \notin sites => \E site \in sites :
             NoIndexIn(S, b, x.key, site) /\ (site.error # <<>> => LacksIn(S, b, site.error))
NoBucketFound(x, S) ==
    BucketOf(x.path) \in Buckets => <<"gone", BucketOf(x.path), BucketOf(x.path)>> \in S

Answered(x, S) ==
    \/ x.answer = "listing"
    \/ x.answer = "page" /\ PageFound(x, S)
    \/ x.answer = "index" /\ IndexFound(x, S)
    \/ x.answer = "error page" /\ ErrorFound(x, S)
    \/ x.answer = "not found" /\ NothingFound(x, S)
    \/ x.answer = "no bucket" /\ NoBucketFound(x, S)

\* What a visit at each step has found out.
FoundOut(x, S) ==
    \/ x.at = "host" /\ x.answer = "not found"
    \/ x.at = "done" /\ x.answer = "buckets"
    \/ /\ x.at = "cors"
       /\ Rooted(x, S) /\ x.key = KeyOf(x.path) /\ x.answer = "not found"
    \/ /\ x.at \in {"list", "get", "site", "index", "error"} /\ x.answer = "not found"
       /\ Rooted(x, S) /\ Shared(x, S)
       /\ x.at = "list" => x.key = KeyOf(x.path) /\ KeyOf(x.path) = <<>>
       /\ x.at = "get" => x.key \in WantedIn(x, S)
       /\ x.at \in {"site", "index", "error"} => Missed(x, S) /\ ForSite(x)
       /\ x.at \in {"index", "error"} => Configured(x, S)
       /\ x.at = "index" => EndsInSlash(x.key)
       /\ x.at = "error" => /\ x.row.error # <<>>
                            /\ NoIndexIn(S, BucketOf(x.path), x.key, x.row)
    \/ x.at = "done" /\ Rooted(x, S) /\ Shared(x, S) /\ Answered(x, S)

\* A visit under way has all its fields.
VisitsOf(V) == [at : V, asked : V, path : V, key : V, site : V, allow : V, row : V, answer : V]
IsVisit(x) == \E V : x \in VisitsOf(V)

TablesOK ==
    /\ \A b \in Buckets : objects[b] # None => objects[b] \subseteq Keys
    /\ objects = [b \in Buckets |-> objects[b]]

\* A visit x that is under way and has found out what its step says, by S.
Underway(x, S) ==
    /\ IsVisit(x) /\ x.asked \in Requests
    /\ FoundOut(x, S)

VisitsFindOut ==
    /\ visit = [v \in Visitors |-> visit[v]]
    /\ \A v \in Visitors : visit[v].at # "idle" =>
          Facts \subseteq seen[v] /\ Underway(visit[v], seen[v])

-----------------------------------------------------------------------------
\* What is seen has been told.
LEMMA ToldIs ==
  ASSUME NEW S, NEW kind, NEW b, NEW c, <<kind, b, c>> \in S
  PROVE  c \in Told(S, kind, b)
  <1> DEFINE f == <<kind, b, c>>
  <1>1. f[1] = kind /\ f[2] = b /\ f[3] = c
    OBVIOUS
  <1>2. f \in {y \in S : y[1] = kind /\ y[2] = b}
    BY <1>1
  <1> HIDE DEF f
  <1>3. QED
    BY <1>1, <1>2 DEF Told

\* What is seen stays seen.
LEMMA ToldGrows ==
  ASSUME NEW S, NEW T, S \subseteq T, NEW kind, NEW b
  PROVE  Told(S, kind, b) \subseteq Told(T, kind, b)
  BY DEF Told

\* So do the keys that may be meant.
LEMMA WantedGrows ==
  ASSUME NEW S, NEW T, S \subseteq T, NEW x
  PROVE  WantedIn(x, S) \subseteq WantedIn(x, T)
  <1>1. Told(S, "site", BucketOf(x.path)) \subseteq Told(T, "site", BucketOf(x.path))
    BY ToldGrows
  <1>2. QED
    BY <1>1 DEF WantedIn

\* Each part of what is found out lasts.
LEMMA RestGrows ==
  ASSUME NEW S, NEW T, S \subseteq T, NEW x
  PROVE  /\ \A b, k : LacksIn(S, b, k) => LacksIn(T, b, k)
         /\ \A b, k : HoldsIn(S, b, k) => HoldsIn(T, b, k)
         /\ \A b, k, site : NoIndexIn(S, b, k, site) => NoIndexIn(T, b, k, site)
         /\ Rooted(x, S) => Rooted(x, T)
         /\ Shared(x, S) => Shared(x, T)
         /\ Missed(x, S) => Missed(x, T)
         /\ Configured(x, S) => Configured(x, T)
  <1>1. /\ \A b, k : LacksIn(S, b, k) => LacksIn(T, b, k)
        /\ \A b, k : HoldsIn(S, b, k) => HoldsIn(T, b, k)
    BY DEF LacksIn, HoldsIn
  <1>2. \A b, k, site : NoIndexIn(S, b, k, site) => NoIndexIn(T, b, k, site)
    BY <1>1 DEF NoIndexIn
  <1>3. Rooted(x, S) => Rooted(x, T)
    BY ToldGrows DEF Rooted
  <1>4. Shared(x, S) => Shared(x, T)
    <2>1. RulesOf(S, BucketOf(x.path)) \subseteq RulesOf(T, BucketOf(x.path))
      BY ToldGrows DEF RulesOf
    <2>2. QED
      BY <2>1 DEF Shared
  <1>5. Missed(x, S) => Missed(x, T)
    BY <1>1, WantedGrows DEF Missed
  <1>6. Configured(x, S) => Configured(x, T)
    BY ToldGrows DEF Configured
  <1>7. QED
    BY <1>1, <1>2, <1>3, <1>4, <1>5, <1>6

\* So does what an answer rests on.
LEMMA AnsweredGrows ==
  ASSUME NEW S, NEW T, S \subseteq T, NEW x, Answered(x, S)
  PROVE  Answered(x, T)
  <1> DEFINE b == BucketOf(x.path)
  <1>1. Told(S, "site", b) \subseteq Told(T, "site", b) /\ WantedIn(x, S) \subseteq WantedIn(x, T)
    BY ToldGrows, WantedGrows
  <1>2. PageFound(x, S) => PageFound(x, T)
    BY <1>1, RestGrows DEF PageFound
  <1>3. IndexFound(x, S) => IndexFound(x, T)
    BY <1>1, RestGrows DEF IndexFound
  <1>4. ErrorFound(x, S) => ErrorFound(x, T)
    BY <1>1, RestGrows DEF ErrorFound
  <1>5. NothingFound(x, S) => NothingFound(x, T)
    BY <1>1, RestGrows DEF NothingFound
  <1>6. NoBucketFound(x, S) => NoBucketFound(x, T)
    BY DEF NoBucketFound
  <1>7. QED
    BY <1>2, <1>3, <1>4, <1>5, <1>6 DEF Answered

\* Nothing that is seen later takes away what was found out.
LEMMA UnderwayGrows ==
  ASSUME NEW S, NEW T, S \subseteq T, NEW x, Underway(x, S)
  PROVE  Underway(x, T)
  <1>1. FoundOut(x, T)
    <2>1. WantedIn(x, S) \subseteq WantedIn(x, T) /\ (Answered(x, S) => Answered(x, T))
      BY WantedGrows, AnsweredGrows
    <2>2. QED
      BY <2>1, RestGrows DEF Underway, FoundOut
  <1>2. QED
    BY <1>1 DEF Underway

\* What the tables say is a fact.
LEMMA FactsSay ==
  /\ \A h \in Hosts : <<"to", h, domain[h]>> \in Facts
  /\ \A b \in Buckets : <<"site", b, website[b]>> \in Facts /\ <<"cors", b, cors[b]>> \in Facts
  /\ \A b \in Buckets : ~Exists(b) => <<"gone", b, b>> \in Facts
  /\ \A b \in Buckets, k \in Keys :
        IF Has(b, k) THEN <<"has", b, k>> \in Facts ELSE <<"lacks", b, k>> \in Facts
  <1>1. \A h \in Hosts : <<"to", h, domain[h]>> \in Facts
    BY DEF Facts
  <1>2. \A b \in Buckets : <<"site", b, website[b]>> \in Facts /\ <<"cors", b, cors[b]>> \in Facts
    BY DEF Facts
  <1>3. \A b \in Buckets : ~Exists(b) => <<"gone", b, b>> \in Facts
    BY DEF Facts
  <1>4. ASSUME NEW b \in Buckets, NEW k \in Keys
        PROVE  IF Has(b, k) THEN <<"has", b, k>> \in Facts ELSE <<"lacks", b, k>> \in Facts
    <2> DEFINE y == <<b, k>>
    <2>1. y \in Buckets \X Keys /\ y[1] = b /\ y[2] = k
      OBVIOUS
    <2> HIDE DEF y
    <2>2. CASE Has(b, k)
      <3>1. <<"has", y[1], y[2]>> \in
              {<<"has", x[1], x[2]>> : x \in {z \in Buckets \X Keys : Has(z[1], z[2])}}
        BY <2>1, <2>2
      <3>2. QED
        BY <2>1, <2>2, <3>1 DEF Facts
    <2>3. CASE ~Has(b, k)
      <3>1. <<"lacks", y[1], y[2]>> \in
              {<<"lacks", x[1], x[2]>> : x \in {z \in Buckets \X Keys : ~Has(z[1], z[2])}}
        BY <2>1, <2>3
      <3>2. QED
        BY <2>1, <2>3, <3>1 DEF Facts
    <2>4. QED
      BY <2>2, <2>3
  <1>5. QED
    BY <1>1, <1>2, <1>3, <1>4

-----------------------------------------------------------------------------
(***************************************************************************)
(* The steps of a visit.                                                   *)
(***************************************************************************)
\* Before a visit nothing has been seen.
Since(v) == IF visit[v].at = "idle" THEN {} ELSE seen[v]

\* A visit x at a step after the first, S being what it has seen.
Looks(v, x, S) ==
    /\ x = visit[v] /\ S = seen[v]
    /\ Underway(x, S) /\ Facts \subseteq S

Proceeds(v) == \E y : Go(v, y) /\ (y.at = "idle" \/ Underway(y, Since(v)))

\* A visit under way has found out what its step says.
LEMMA VisitLooks ==
  ASSUME VisitsFindOut, NEW v \in Visitors, visit[v].at # "idle"
  PROVE  Since(v) = seen[v] /\ \E x, S : Looks(v, x, S)
  BY DEF VisitsFindOut, Looks, Since

\* What x sees now.
LEMMA Sees ==
  ASSUME TablesOK, NEW S, Facts \subseteq S
  PROVE  /\ \A h \in Hosts : domain[h] \in Told(S, "to", h)
         /\ \A b \in Buckets : website[b] \in Told(S, "site", b) /\ cors[b] \in Told(S, "cors", b)
         /\ \A b \in Buckets : ~Exists(b) => <<"gone", b, b>> \in S
         /\ \A b, k : Has(b, k) => b \in Buckets /\ HoldsIn(S, b, k)
         /\ \A b, k : ~Has(b, k) => LacksIn(S, b, k)
  <1>1. \A b, k : Has(b, k) => b \in Buckets /\ k \in Keys
    BY DEF Has, Exists, Row, TablesOK
  <1>2. QED
    BY <1>1, FactsSay, ToldIs DEF HoldsIn, LacksIn

\* A step sets some of the fields.
LEMMA StillVisit ==
  ASSUME NEW x, IsVisit(x)
  PROVE  /\ \A step, answer, key : IsVisit([x EXCEPT !.at = step, !.answer = answer, !.key = key])
         /\ \A step, path, key, site :
               IsVisit([x EXCEPT !.at = step, !.path = path, !.key = key, !.site = site])
         /\ \A step, allow : IsVisit([x EXCEPT !.at = step, !.allow = allow])
         /\ \A step, key : IsVisit([x EXCEPT !.at = step, !.key = key])
         /\ \A step : IsVisit([x EXCEPT !.at = step])
         /\ \A row, step : IsVisit([x EXCEPT !.row = row, !.at = step])
         /\ \A step, answer : IsVisit([x EXCEPT !.at = step, !.answer = answer])
  <1>1. PICK V : x \in VisitsOf(V)
    BY DEF IsVisit
  <1>2. ASSUME NEW step, NEW answer, NEW key
        PROVE  IsVisit([x EXCEPT !.at = step, !.answer = answer, !.key = key])
    <2> DEFINE W == V \cup {step, answer, key}
    <2>1. [x EXCEPT !.at = step, !.answer = answer, !.key = key] \in VisitsOf(W)
      BY <1>1 DEF VisitsOf
    <2> HIDE DEF W
    <2>2. QED
      BY <2>1 DEF IsVisit
  <1>3. ASSUME NEW step, NEW path, NEW key, NEW site
        PROVE  IsVisit([x EXCEPT !.at = step, !.path = path, !.key = key, !.site = site])
    <2> DEFINE W == V \cup {step, path, key, site}
    <2>1. [x EXCEPT !.at = step, !.path = path, !.key = key, !.site = site] \in VisitsOf(W)
      BY <1>1 DEF VisitsOf
    <2> HIDE DEF W
    <2>2. QED
      BY <2>1 DEF IsVisit
  <1>4. ASSUME NEW step, NEW allow PROVE IsVisit([x EXCEPT !.at = step, !.allow = allow])
    <2> DEFINE W == V \cup {step, allow}
    <2>1. [x EXCEPT !.at = step, !.allow = allow] \in VisitsOf(W)
      BY <1>1 DEF VisitsOf
    <2> HIDE DEF W
    <2>2. QED
      BY <2>1 DEF IsVisit
  <1>5. ASSUME NEW step, NEW key PROVE IsVisit([x EXCEPT !.at = step, !.key = key])
    <2> DEFINE W == V \cup {step, key}
    <2>1. [x EXCEPT !.at = step, !.key = key] \in VisitsOf(W)
      BY <1>1 DEF VisitsOf
    <2> HIDE DEF W
    <2>2. QED
      BY <2>1 DEF IsVisit
  <1>6. ASSUME NEW step PROVE IsVisit([x EXCEPT !.at = step])
    <2> DEFINE W == V \cup {step}
    <2>1. [x EXCEPT !.at = step] \in VisitsOf(W)
      BY <1>1 DEF VisitsOf
    <2> HIDE DEF W
    <2>2. QED
      BY <2>1 DEF IsVisit
  <1>7. ASSUME NEW row, NEW step PROVE IsVisit([x EXCEPT !.row = row, !.at = step])
    <2> DEFINE W == V \cup {row, step}
    <2>1. [x EXCEPT !.row = row, !.at = step] \in VisitsOf(W)
      BY <1>1 DEF VisitsOf
    <2> HIDE DEF W
    <2>2. QED
      BY <2>1 DEF IsVisit
  <1>8. ASSUME NEW step, NEW answer PROVE IsVisit([x EXCEPT !.at = step, !.answer = answer])
    <2> DEFINE W == V \cup {step, answer}
    <2>1. [x EXCEPT !.at = step, !.answer = answer] \in VisitsOf(W)
      BY <1>1 DEF VisitsOf
    <2> HIDE DEF W
    <2>2. QED
      BY <2>1 DEF IsVisit
  <1>9. QED
    BY <1>2, <1>3, <1>4, <1>5, <1>6, <1>7, <1>8

\* A visit begins with nothing found out.
LEMMA VisitProceeds ==
  ASSUME NEW v \in Visitors, Visit(v)
  PROVE  Proceeds(v)
  <1>1. PICK asked \in Requests :
            Go(v, [at |-> "host", asked |-> asked, path |-> asked.path, key |-> <<>>,
                   site |-> FALSE, allow |-> None, row |-> None, answer |-> "not found"])
    BY DEF Visit
  <1> DEFINE y == [at |-> "host", asked |-> asked, path |-> asked.path, key |-> <<>>,
                   site |-> FALSE, allow |-> None, row |-> None, answer |-> "not found"]
             V == {"host", asked, asked.path, <<>>, FALSE, None, "not found"}
  <1>2. y \in VisitsOf(V) /\ y.asked \in Requests /\ y.at = "host" /\ y.answer = "not found"
    BY DEF VisitsOf
  <1>3. Go(v, y)
    BY <1>1
  <1> HIDE DEF y, V
  <1>4. QED
    BY <1>2, <1>3 DEF Proceeds, Underway, FoundOut, IsVisit

\* The bucket is the one that the domain has now.
LEMMA CustomDomainProceeds ==
  ASSUME TablesOK, VisitsFindOut, NEW v \in Visitors, CustomDomain(v)
  PROVE  Proceeds(v)
  <1>1. visit[v].at = "host"
    BY DEF CustomDomain
  <1>2. PICK x, S : Looks(v, x, S)
    BY <1>1, VisitLooks
  <1>3. /\ IsVisit(x) /\ x.asked \in Requests /\ x.answer = "not found" /\ x.at = "host"
        /\ x = visit[v] /\ Since(v) = S
    BY <1>1, <1>2, VisitLooks DEF Looks, Underway, FoundOut
  <1> DEFINE b == IF x.asked.host \in Hosts THEN domain[x.asked.host] ELSE None
             path == IF b = None THEN x.asked.path ELSE <<b, Slash>> \o x.asked.path
             done == [x EXCEPT !.at = "done", !.answer = "buckets", !.key = <<>>]
  <1>4. IF path = <<>> THEN Go(v, done)
        ELSE Go(v, [x EXCEPT !.at = "cors", !.path = path, !.key = KeyOf(path),
                             !.site = (b # None)])
    BY <1>3 DEF CustomDomain, Answer
  <1>5. CASE path = <<>>
    <2>1. IsVisit(done)
      BY <1>3, StillVisit
    <2>2. done.at = "done" /\ done.answer = "buckets" /\ done.asked = x.asked
      BY <1>3 DEF IsVisit, VisitsOf
    <2>3. Underway(done, S)
      BY <1>3, <2>1, <2>2 DEF Underway, FoundOut
    <2>4. QED
      BY <1>3, <1>4, <1>5, <2>3 DEF Proceeds
  <1>6. CASE path # <<>>
    <2> DEFINE site == b # None
               y == [x EXCEPT !.at = "cors", !.path = path, !.key = KeyOf(path), !.site = site]
    <2>1. Go(v, y)
      BY <1>4, <1>6
    <2> HIDE DEF path, b, site
    <2>2. IsVisit(y)
      BY <1>3, StillVisit
    <2>3. /\ y.at = "cors" /\ y.answer = "not found" /\ y.asked = x.asked
          /\ y.path = path /\ y.key = KeyOf(path) /\ y.site = site
      BY <1>3 DEF IsVisit, VisitsOf
    <2> HIDE DEF y
    <2>4. Rooted(y, S)
      <3> SUFFICES ASSUME x.asked.host \in Hosts
                   PROVE  (IF b # None THEN BucketOf(path) ELSE None) \in Told(S, "to", x.asked.host)
        BY <2>3 DEF Rooted, site
      <3>1. b \in Told(S, "to", x.asked.host)
        BY <1>2, Sees DEF Looks, b
      <3>2. x.asked.path \in Seq(STRING)
        BY <1>3, PathsAssumption
      <3>3. b # None => path[1] = b
        BY <3>2 DEF path
      <3>4. QED
        BY <3>1, <3>3 DEF BucketOf
    <2>5. Underway(y, S)
      BY <1>3, <2>2, <2>3, <2>4 DEF Underway, FoundOut
    <2>6. QED
      BY <1>3, <2>1, <2>5 DEF Proceeds
  <1>7. QED
    BY <1>5, <1>6

\* What all steps on the way have.
\* After the custom domain and CORS.
LEMMA OnTheWay ==
  ASSUME VisitsFindOut, NEW v \in Visitors,
         visit[v].at \in {"cors", "list", "get", "site", "index", "error"}
  PROVE  \E x, S : /\ x = visit[v] /\ S = Since(v) /\ Facts \subseteq S
                   /\ IsVisit(x) /\ x.asked \in Requests /\ x.answer = "not found"
                   /\ FoundOut(x, S) /\ Rooted(x, S)
                   /\ x.at # "cors" => Shared(x, S)
  BY DEF VisitsFindOut, Since, Underway, FoundOut

\* Neither who asked nor what is asked has changed.
Beside(x, y) == y.asked = x.asked /\ y.path = x.path /\ y.site = x.site

\* What a change of other fields keeps.
LEMMA BesideFinds ==
  ASSUME NEW x, NEW y, Beside(x, y), NEW S
  PROVE  /\ Rooted(x, S) => Rooted(y, S)
         /\ y.allow = x.allow /\ Shared(x, S) => Shared(y, S)
         /\ WantedIn(y, S) = WantedIn(x, S)
         /\ ForSite(y) <=> ForSite(x)
         /\ y.key = x.key /\ Missed(x, S) => Missed(y, S)
         /\ y.row = x.row /\ Configured(x, S) => Configured(y, S)
  <1>1. WantedIn(y, S) = WantedIn(x, S)
    BY DEF Beside, WantedIn
  <1>2. QED
    BY <1>1 DEF Beside, Rooted, Shared, ForSite, Missed, Configured

\* The rules are the ones that the bucket has now.
LEMMA CORSProceeds ==
  ASSUME TablesOK, VisitsFindOut, NEW v \in Visitors, CORS(v)
  PROVE  Proceeds(v)
  <1>1. visit[v].at = "cors"
    BY DEF CORS
  <1>2. PICK x, S : /\ x = visit[v] /\ S = Since(v) /\ Facts \subseteq S
                    /\ IsVisit(x) /\ x.asked \in Requests /\ x.answer = "not found"
                    /\ FoundOut(x, S) /\ Rooted(x, S)
    BY <1>1, OnTheWay
  <1>3. x.at = "cors" /\ x.key = KeyOf(x.path)
    BY <1>1, <1>2 DEF FoundOut
  <1> DEFINE b == BucketOf(x.path)
             step == Routed(x.path)
             allow == IF x.asked.origin = None THEN None
                      ELSE allowedOrigin(Row(cors, b), x.asked.origin)
             y == [x EXCEPT !.at = step, !.allow = allow]
  <1>4. Go(v, y)
    BY <1>2 DEF CORS
  <1>5. Row(cors, b) \in RulesOf(S, b)
    BY <1>2, Sees DEF Row, RulesOf
  <1>6. step = (IF x.key = <<>> THEN "list" ELSE "get")
    BY <1>3 DEF Routed
  <1>7. x.asked.origin # None =>
           allow \in {allowedOrigin(rules, x.asked.origin) : rules \in RulesOf(S, b)}
    BY <1>5
  <1> HIDE DEF step, allow
  <1>8. IsVisit(y)
    BY <1>2, StillVisit
  <1>9. y.at = step /\ y.allow = allow /\ y.key = x.key /\ y.answer = x.answer /\ Beside(x, y)
    BY <1>2 DEF IsVisit, VisitsOf, Beside
  <1> HIDE DEF y
  <1>10. Shared(y, S)
    BY <1>7, <1>9 DEF Shared, Beside
  <1>11. step = "get" => y.key \in WantedIn(y, S)
    BY <1>3, <1>6, <1>9 DEF WantedIn, Beside
  <1>12. FoundOut(y, S)
    BY <1>2, <1>3, <1>6, <1>9, <1>10, <1>11, BesideFinds DEF FoundOut, Beside
  <1>13. QED
    BY <1>2, <1>4, <1>8, <1>9, <1>12 DEF Proceeds, Underway, Beside

\* y is x with that answer.
Becomes(x, y, kind, key) == y.answer = kind /\ y.key = key /\ y.row = x.row /\ Beside(x, y)

\* An answer that rests on what has been seen ends a visit.
LEMMA Answers ==
  ASSUME VisitsFindOut, NEW v \in Visitors, NEW x, NEW S, x = visit[v], S = Since(v),
         IsVisit(x), x.asked \in Requests, Rooted(x, S), Shared(x, S),
         NEW kind, NEW key, Answer(v, kind, key),
         \A y : Becomes(x, y, kind, key) => Answered(y, S)
  PROVE  Proceeds(v)
  <1> DEFINE y == [x EXCEPT !.at = "done", !.answer = kind, !.key = key]
  <1>1. Go(v, y)
    BY DEF Answer
  <1>2. IsVisit(y)
    BY StillVisit
  <1>3. y.at = "done" /\ y.allow = x.allow /\ Becomes(x, y, kind, key)
    BY DEF IsVisit, VisitsOf, Beside, Becomes
  <1> HIDE DEF y
  <1>4. Rooted(y, S) /\ Shared(y, S) /\ Answered(y, S)
    BY <1>3, BesideFinds DEF Becomes
  <1>5. FoundOut(y, S)
    BY <1>3, <1>4 DEF FoundOut
  <1>6. QED
    BY <1>1, <1>2, <1>3, <1>5 DEF Proceeds, Underway, Beside, Becomes

\* A listing, the index page of the site or no bucket.
LEMMA ListObjectsProceeds ==
  ASSUME TablesOK, VisitsFindOut, NEW v \in Visitors, ListObjects(v)
  PROVE  Proceeds(v)
  <1>1. visit[v].at = "list"
    BY DEF ListObjects
  <1>2. PICK x, S : /\ x = visit[v] /\ S = Since(v) /\ Facts \subseteq S
                    /\ IsVisit(x) /\ x.asked \in Requests /\ x.answer = "not found"
                    /\ FoundOut(x, S) /\ Rooted(x, S) /\ Shared(x, S)
    BY <1>1, OnTheWay
  <1>3. x.at = "list" /\ KeyOf(x.path) = <<>>
    BY <1>1, <1>2 DEF FoundOut
  <1> DEFINE b == BucketOf(x.path)
             site == Row(website, b)
             key == getObjectKey(x.path, site.suffix)
             y == [x EXCEPT !.at = "get", !.key = key]
  <1>4. CASE Answer(v, "listing", <<>>)
    BY <1>2, <1>4, Answers DEF Becomes, Answered
  <1>5. CASE site # None /\ Go(v, y)
    <2>1. site \in Told(S, "site", b) \ {None}
      BY <1>2, <1>5, Sees DEF Row
    <2> HIDE DEF site
    <2>2. key \in WantedIn(x, S)
      BY <1>3, <2>1 DEF WantedIn
    <2> HIDE DEF key
    <2>3. IsVisit(y)
      BY <1>2, StillVisit
    <2>4. y.at = "get" /\ y.allow = x.allow /\ y.key = key /\ y.answer = x.answer /\ Beside(x, y)
      BY <1>2 DEF IsVisit, VisitsOf, Beside
    <2> HIDE DEF y
    <2>5. Rooted(y, S) /\ Shared(y, S) /\ y.key \in WantedIn(y, S)
      BY <1>2, <2>2, <2>4, BesideFinds
    <2>6. FoundOut(y, S)
      BY <1>2, <2>4, <2>5 DEF FoundOut
    <2>7. QED
      BY <1>2, <1>5, <2>3, <2>4, <2>6 DEF Proceeds, Underway, Beside
  <1>6. QED
    BY <1>2, <1>4, <1>5 DEF ListObjects

\* The key is there, or is found missing.
LEMMA GetObjectProceeds ==
  ASSUME TablesOK, VisitsFindOut, NEW v \in Visitors, GetObject(v)
  PROVE  Proceeds(v)
  <1>1. visit[v].at = "get"
    BY DEF GetObject
  <1>2. PICK x, S : /\ x = visit[v] /\ S = Since(v) /\ Facts \subseteq S
                    /\ IsVisit(x) /\ x.asked \in Requests /\ x.answer = "not found"
                    /\ FoundOut(x, S) /\ Rooted(x, S) /\ Shared(x, S)
    BY <1>1, OnTheWay
  <1>3. x.at = "get" /\ x.key \in WantedIn(x, S)
    BY <1>1, <1>2 DEF FoundOut
  <1> DEFINE b == BucketOf(x.path)
  <1>4. CASE Has(b, x.key) /\ Answer(v, "page", x.key)
    <2>1. HoldsIn(S, b, x.key)
      BY <1>2, <1>4, Sees
    <2>2. \A y : Becomes(x, y, "page", x.key) => Answered(y, S)
      BY <1>3, <2>1, BesideFinds DEF Becomes, Beside, Answered, PageFound
    <2>3. QED
      BY <1>2, <1>4, <2>2, Answers
  <1>5. CASE ~Exists(b) /\ Answer(v, "no bucket", x.key)
    <2>1. b \in Buckets => <<"gone", b, b>> \in S
      BY <1>2, <1>5, Sees
    <2>2. \A y : Becomes(x, y, "no bucket", x.key) => Answered(y, S)
      BY <2>1 DEF Becomes, Beside, Answered, NoBucketFound
    <2>3. QED
      BY <1>2, <1>5, <2>2, Answers
  <1>6. CASE ~Has(b, x.key) /\ Exists(b) /\ ForSite(x) /\ Go(v, [x EXCEPT !.at = "site"])
    <2> DEFINE y == [x EXCEPT !.at = "site"]
    <2>1. IsVisit(y)
      BY <1>2, StillVisit
    <2>2. y.at = "site" /\ y.allow = x.allow /\ y.key = x.key /\ y.answer = x.answer /\ Beside(x, y)
      BY <1>2 DEF IsVisit, VisitsOf, Beside
    <2> HIDE DEF y
    <2>3. b \in Buckets /\ LacksIn(S, b, x.key)
      BY <1>2, <1>6, Sees DEF Exists, Row
    <2>4. Rooted(y, S) /\ Shared(y, S) /\ Missed(y, S) /\ ForSite(y)
      <3>1. Missed(x, S)
        BY <1>3, <2>3 DEF Missed
      <3>2. QED
        BY <1>2, <1>6, <2>2, <3>1, BesideFinds
    <2>5. FoundOut(y, S)
      BY <1>2, <2>2, <2>4 DEF FoundOut
    <2>6. QED
      BY <1>2, <1>6, <2>1, <2>2, <2>5 DEF Proceeds, Underway, Beside, y
  <1>7. CASE ~Has(b, x.key) /\ ~ForSite(x) /\ Answer(v, "not found", x.key)
    <2>1. LacksIn(S, b, x.key)
      BY <1>2, <1>7, Sees
    <2>2. \A y : Becomes(x, y, "not found", x.key) => Answered(y, S)
      BY <1>3, <1>7, <2>1, BesideFinds DEF Becomes, Beside, Answered, NothingFound
    <2>3. QED
      BY <1>2, <1>7, <2>2, Answers
  <1>8. QED
    BY <1>2, <1>4, <1>5, <1>6, <1>7 DEF GetObject, IsWebsiteReq, ForSite

\* The site is as it is configured now; the key was missing before.
LEMMA GetBucketWebsiteProceeds ==
  ASSUME TablesOK, VisitsFindOut, NEW v \in Visitors, GetBucketWebsite(v)
  PROVE  Proceeds(v)
  <1>1. visit[v].at = "site"
    BY DEF GetBucketWebsite
  <1>2. PICK x, S : /\ x = visit[v] /\ S = Since(v) /\ Facts \subseteq S
                    /\ IsVisit(x) /\ x.asked \in Requests /\ x.answer = "not found"
                    /\ FoundOut(x, S) /\ Rooted(x, S) /\ Shared(x, S)
    BY <1>1, OnTheWay
  <1>3. x.at = "site" /\ Missed(x, S) /\ ForSite(x)
    BY <1>1, <1>2 DEF FoundOut
  <1> DEFINE b == BucketOf(x.path)
             site == website[b]
             index == EndsInSlash(x.key) /\ site.suffix # <<>>
             step == IF index THEN "index" ELSE AfterIndex(site)
             y == [x EXCEPT !.row = site, !.at = step]
  <1>4. site \in Told(S, "site", b)
    BY <1>2, <1>3, Sees DEF Missed
  <1>5. CASE site = None /\ Answer(v, "not found", x.key)
    <2> HIDE DEF site
    <2>1. \A z : Becomes(x, z, "not found", x.key) => Answered(z, S)
      BY <1>3, <1>4, <1>5, BesideFinds DEF Becomes, Beside, Answered, NothingFound, Missed
    <2>2. QED
      BY <1>2, <1>5, <2>1, Answers
  <1>6. CASE site # None /\ Go(v, y)
    <2>1. step = "index" => index
      BY DEF AfterIndex
    <2>2. ~index => /\ NoIndexIn(S, b, x.key, site)
                    /\ step = (IF site.error # <<>> THEN "error" ELSE "done")
      BY DEF NoIndexIn, AfterIndex
    <2>3. step = "index" \/ ~index
      OBVIOUS
    <2> HIDE DEF step, site
    <2>4. IsVisit(y)
      BY <1>2, StillVisit
    <2>5. /\ y.at = step /\ y.row = site /\ y.allow = x.allow /\ y.key = x.key
          /\ y.answer = x.answer /\ Beside(x, y)
      BY <1>2 DEF IsVisit, VisitsOf, Beside
    <2> HIDE DEF y
    <2>6. Rooted(y, S) /\ Shared(y, S) /\ Missed(y, S) /\ ForSite(y) /\ Configured(y, S)
      BY <1>2, <1>3, <1>4, <1>6, <2>5, BesideFinds DEF Missed, Beside, Configured
    <2>7. CASE index
      <3>1. step = "index"
        BY <2>2, <2>3, <2>7 DEF step
      <3>2. FoundOut(y, S)
        BY <1>2, <2>5, <2>6, <2>7, <3>1 DEF FoundOut
      <3>3. QED
        BY <1>2, <1>6, <2>4, <2>5, <3>2 DEF Proceeds, Underway, Beside
    <2>8. CASE ~index /\ site.error # <<>>
      <3>1. step = "error" /\ NoIndexIn(S, BucketOf(y.path), y.key, y.row) /\ y.row.error # <<>>
        BY <2>2, <2>5, <2>8 DEF Beside
      <3>2. FoundOut(y, S)
        BY <1>2, <2>5, <2>6, <3>1 DEF FoundOut
      <3>3. QED
        BY <1>2, <1>6, <2>4, <2>5, <3>2 DEF Proceeds, Underway, Beside
    <2>9. CASE ~index /\ site.error = <<>>
      <3>1. step = "done" /\ NoIndexIn(S, BucketOf(y.path), y.key, y.row) /\ y.row.error = <<>>
        BY <2>2, <2>5, <2>9 DEF Beside
      <3>2. NothingFound(y, S)
        BY <2>6, <3>1 DEF NothingFound, Missed, Configured
      <3>3. FoundOut(y, S)
        BY <1>2, <2>5, <2>6, <3>1, <3>2 DEF FoundOut, Answered
      <3>4. QED
        BY <1>2, <1>6, <2>4, <2>5, <3>3 DEF Proceeds, Underway, Beside
    <2>10. QED
      BY <2>7, <2>8, <2>9
  <1>7. QED
    BY <1>2, <1>5, <1>6 DEF GetBucketWebsite

\* The index page is there, or is found missing too.
LEMMA GetIndexProceeds ==
  ASSUME TablesOK, VisitsFindOut, NEW v \in Visitors, GetIndex(v)
  PROVE  Proceeds(v)
  <1>1. visit[v].at = "index"
    BY DEF GetIndex
  <1>2. PICK x, S : /\ x = visit[v] /\ S = Since(v) /\ Facts \subseteq S
                    /\ IsVisit(x) /\ x.asked \in Requests /\ x.answer = "not found"
                    /\ FoundOut(x, S) /\ Rooted(x, S) /\ Shared(x, S)
    BY <1>1, OnTheWay
  <1>3. /\ x.at = "index" /\ Missed(x, S) /\ ForSite(x) /\ Configured(x, S)
        /\ EndsInSlash(x.key)
    BY <1>1, <1>2 DEF FoundOut
  <1> DEFINE b == BucketOf(x.path)
             idxKey == x.key \o x.row.suffix
             y == [x EXCEPT !.at = AfterIndex(x.row)]
  <1>4. CASE Has(b, idxKey) /\ Answer(v, "index", idxKey)
    <2>1. HoldsIn(S, b, idxKey)
      BY <1>2, <1>4, Sees
    <2>2. ASSUME NEW z, Becomes(x, z, "index", idxKey) PROVE Answered(z, S)
      <3>1. z.answer = "index" /\ z.key = x.key \o x.row.suffix /\ BucketOf(z.path) = b
        BY <2>2 DEF Becomes, Beside
      <3>2. /\ x.row \in Told(S, "site", b) \ {None}
            /\ x.key \in WantedIn(z, S) /\ LacksIn(S, b, x.key)
        BY <1>3, <2>2, BesideFinds DEF Configured, Missed, Becomes
      <3>3. IndexFound(z, S)
        BY <1>3, <2>1, <3>1, <3>2 DEF IndexFound
      <3>4. QED
        BY <3>1, <3>3 DEF Answered
    <2> HIDE DEF idxKey
    <2>3. QED
      BY <1>2, <1>4, <2>2, Answers
  <1>5. CASE ~Has(b, idxKey) /\ Go(v, y)
    <2>1. LacksIn(S, b, idxKey)
      BY <1>2, <1>5, Sees
    <2>2. NoIndexIn(S, b, x.key, x.row)
      BY <2>1 DEF NoIndexIn
    <2> DEFINE step == AfterIndex(x.row)
    <2>3. step = (IF x.row.error # <<>> THEN "error" ELSE "done")
      BY DEF AfterIndex
    <2> HIDE DEF step
    <2>4. IsVisit(y)
      BY <1>2, StillVisit
    <2>5. /\ y.at = step /\ y.row = x.row /\ y.allow = x.allow /\ y.key = x.key
          /\ y.answer = x.answer /\ Beside(x, y)
      BY <1>2 DEF IsVisit, VisitsOf, Beside, step
    <2> HIDE DEF y
    <2>6. Rooted(y, S) /\ Shared(y, S) /\ Missed(y, S) /\ ForSite(y) /\ Configured(y, S)
      BY <1>2, <1>3, <2>5, BesideFinds
    <2>7. NoIndexIn(S, BucketOf(y.path), y.key, y.row)
      BY <2>2, <2>5 DEF Beside
    <2>8. CASE x.row.error # <<>>
      <3>1. FoundOut(y, S)
        BY <1>2, <2>3, <2>5, <2>6, <2>7, <2>8 DEF FoundOut
      <3>2. QED
        BY <1>2, <1>5, <2>4, <2>5, <3>1 DEF Proceeds, Underway, Beside
    <2>9. CASE x.row.error = <<>>
      <3>1. NothingFound(y, S)
        BY <2>5, <2>6, <2>7, <2>9 DEF NothingFound, Missed, Configured
      <3>2. FoundOut(y, S)
        BY <1>2, <2>3, <2>5, <2>6, <2>9, <3>1 DEF FoundOut, Answered
      <3>3. QED
        BY <1>2, <1>5, <2>4, <2>5, <3>2 DEF Proceeds, Underway, Beside
    <2>10. QED
      BY <2>8, <2>9
  <1>6. QED
    BY <1>2, <1>4, <1>5 DEF GetIndex

\* The error page is there, or is found missing too.
LEMMA GetErrorProceeds ==
  ASSUME TablesOK, VisitsFindOut, NEW v \in Visitors, GetError(v)
  PROVE  Proceeds(v)
  <1>1. visit[v].at = "error"
    BY DEF GetError
  <1>2. PICK x, S : /\ x = visit[v] /\ S = Since(v) /\ Facts \subseteq S
                    /\ IsVisit(x) /\ x.asked \in Requests /\ x.answer = "not found"
                    /\ FoundOut(x, S) /\ Rooted(x, S) /\ Shared(x, S)
    BY <1>1, OnTheWay
  <1>3. /\ x.at = "error" /\ Missed(x, S) /\ ForSite(x) /\ Configured(x, S)
        /\ NoIndexIn(S, BucketOf(x.path), x.key, x.row)
    BY <1>1, <1>2 DEF FoundOut
  <1> DEFINE b == BucketOf(x.path)
             answer == IF Has(b, x.row.error) THEN "error page" ELSE "not found"
             y == [x EXCEPT !.at = "done", !.answer = answer]
  <1>4. Go(v, y)
    BY <1>2 DEF GetError
  <1>5. \/ answer = "error page" /\ HoldsIn(S, b, x.row.error)
        \/ answer = "not found" /\ LacksIn(S, b, x.row.error)
    BY <1>2, Sees
  <1> HIDE DEF answer
  <1>6. IsVisit(y)
    BY <1>2, StillVisit
  <1>7. /\ y.at = "done" /\ y.answer = answer /\ y.row = x.row /\ y.allow = x.allow
        /\ y.key = x.key /\ Beside(x, y)
    BY <1>2 DEF IsVisit, VisitsOf, Beside
  <1> HIDE DEF y
  <1>8. Rooted(y, S) /\ Shared(y, S) /\ Missed(y, S) /\ ForSite(y) /\ Configured(y, S)
    BY <1>2, <1>3, <1>7, BesideFinds
  <1>9. NoIndexIn(S, BucketOf(y.path), y.key, y.row)
    BY <1>3, <1>7 DEF Beside
  <1>10. Answered(y, S)
    <2>1. CASE answer = "error page" /\ HoldsIn(S, b, x.row.error)
      <3>1. ErrorFound(y, S)
        BY <1>7, <1>8, <1>9, <2>1 DEF ErrorFound, Missed, Configured, Beside
      <3>2. QED
        BY <1>7, <2>1, <3>1 DEF Answered
    <2>2. CASE answer = "not found" /\ LacksIn(S, b, x.row.error)
      <3>1. NothingFound(y, S)
        BY <1>7, <1>8, <1>9, <2>2 DEF NothingFound, Missed, Configured, Beside
      <3>2. QED
        BY <1>7, <2>2, <3>1 DEF Answered
    <2>3. QED
      BY <1>5, <2>1, <2>2
  <1>11. FoundOut(y, S)
    BY <1>7, <1>8, <1>10 DEF FoundOut
  <1>12. QED
    BY <1>2, <1>4, <1>6, <1>7, <1>11 DEF Proceeds, Underway, Beside

\* Every step of a visit.
LEMMA StepProceeds ==
  ASSUME TablesOK, VisitsFindOut, NEW v \in Visitors, VisitStep(v)
  PROVE  Proceeds(v) /\ UNCHANGED tables /\ Watch
  <1>1. UNCHANGED tables /\ Watch
    BY DEF VisitStep, Visit, CustomDomain, CORS, ListObjects, GetObject, GetBucketWebsite,
           GetIndex, GetError, Leave, Keep, visiting
  <1>2. CASE Leave(v)
    <2>1. PICK y : y = NoVisit
      OBVIOUS
    <2>2. Go(v, y) /\ y.at = "idle"
      BY <1>2, <2>1 DEF Leave, NoVisit
    <2>3. QED
      BY <1>1, <2>2 DEF Proceeds
  <1>3. QED
    BY <1>1, <1>2, VisitProceeds, CustomDomainProceeds, CORSProceeds, ListObjectsProceeds,
       GetObjectProceeds, GetBucketWebsiteProceeds, GetIndexProceeds, GetErrorProceeds DEF VisitStep

-----------------------------------------------------------------------------
(***************************************************************************)
(* Any step.                                                               *)
(***************************************************************************)
\* A visit is left alone, ends or is begun or carried on.
LEMMA FindOutKept ==
  ASSUME VisitsFindOut, Watch, visit' = [v \in Visitors |-> visit'[v]],
         \A v \in Visitors : \/ visit'[v] = visit[v]
                             \/ visit'[v].at = "idle"
                             \/ Underway(visit'[v], Since(v))
  PROVE  VisitsFindOut'
  <1> SUFFICES ASSUME NEW v \in Visitors, visit'[v].at # "idle"
               PROVE  Facts' \subseteq seen'[v] /\ Underway(visit'[v], seen'[v])
    BY DEF VisitsFindOut, Underway, FoundOut
  <1>1. Facts' \subseteq seen'[v] /\ Since(v) \subseteq seen'[v]
    BY DEF Watch, Since
  <1>2. Underway(visit'[v], Since(v))
    BY DEF VisitsFindOut, Since
  <1>3. QED
    BY <1>1, <1>2, UnderwayGrows

\* A bucket's objects keep their keys.
LEMMA TablesKept ==
  ASSUME TablesOK, VisitsFindOut, [Next]_vars
  PROVE  TablesOK'
  <1>1. CASE UNCHANGED objects
    BY <1>1 DEF TablesOK
  <1>2. ASSUME NEW b \in Buckets, NEW row, objects' = [objects EXCEPT ![b] = row],
               row # None => row \subseteq Keys
        PROVE  TablesOK'
    BY <1>2 DEF TablesOK
  <1>3. ASSUME NEW b \in Buckets, CreateBucket(b) \/ DeleteBucket(b) PROVE TablesOK'
    BY <1>2, <1>3 DEF CreateBucket, DeleteBucket
  <1>4. ASSUME NEW w, NEW b \in Buckets, NEW k \in Keys, PutObject(w, b, k) PROVE TablesOK'
    <2>1. objects[b] \cup {k} \subseteq Keys
      BY <1>4 DEF PutObject, Exists, Row, TablesOK
    <2>2. QED
      BY <1>2, <1>4, <2>1 DEF PutObject
  <1>5. ASSUME NEW w, NEW b \in Buckets, NEW ks, DeleteObjects(w, b, ks) PROVE TablesOK'
    <2>1. CASE Exists(b)
      <3>1. objects[b] \ ks \subseteq Keys
        BY <2>1 DEF Exists, Row, TablesOK
      <3>2. QED
        BY <1>2, <1>5, <2>1, <3>1 DEF DeleteObjects
    <2>2. CASE ~Exists(b)
      BY <1>1, <1>5, <2>2 DEF DeleteObjects
    <2>3. QED
      BY <2>1, <2>2
  <1>6. ASSUME NEW b \in Buckets, NEW k \in Keys, WriteQuietly(b, k) PROVE TablesOK'
    <2>1. objects[b] \cup {k} \subseteq Keys /\ objects[b] \ {k} \subseteq Keys
      BY <1>6 DEF WriteQuietly, Exists, Row, TablesOK
    <2>2. QED
      BY <1>2, <1>6, <2>1 DEF WriteQuietly
  <1>7. ASSUME NEW v \in Visitors, VisitStep(v) PROVE TablesOK'
    BY <1>1, <1>7, StepProceeds DEF tables
  <1>8. CASE UNCHANGED vars
    BY <1>1, <1>8 DEF vars, tables
  <1>9. CASE \/ \E h \in Hosts : DeleteDomain(h) \/ \E b \in Buckets : PutDomain(h, b)
             \/ \E b \in Buckets : \/ PutBucketWebsite(b) \/ DeleteBucketWebsite(b)
                                   \/ PutBucketCors(b) \/ DeleteBucketCors(b)
                                   \/ PutBucketNotification(b) \/ DeleteBucketNotification(b)
             \/ \E w \in Writers : FireWebhooks(w)
             \/ \E e \in 1..MaxEvents : Call(e)
             \/ Stop
    BY <1>1, <1>9 DEF DeleteDomain, PutDomain, PutBucketWebsite, DeleteBucketWebsite,
       PutBucketCors, DeleteBucketCors, PutBucketNotification, DeleteBucketNotification,
       FireWebhooks, Call, Stop, Keep, tables
  <1>10. QED
    BY <1>3, <1>4, <1>5, <1>6, <1>7, <1>8, <1>9 DEF Next, ConfigStep, WriterStep

\* Everything but a visit's own steps leaves visits alone or ends them all.
LEMMA VisitsKept ==
  ASSUME TablesOK, VisitsFindOut, [Next]_vars
  PROVE  VisitsFindOut'
  <1>1. CASE UNCHANGED vars
    <2>1. UNCHANGED <<visit, seen, Facts>>
      BY <1>1 DEF vars, tables, Facts, Has, Exists, Row
    <2>2. QED
      BY <2>1 DEF VisitsFindOut, Underway, FoundOut
  <1>2. ASSUME UNCHANGED visit, Watch PROVE VisitsFindOut'
    BY <1>2, FindOutKept DEF VisitsFindOut
  <1>3. CASE Stop
    <2>1. \A v \in Visitors : visit'[v].at = "idle"
      BY <1>3 DEF Stop, NoVisit
    <2>2. Watch /\ visit' = [v \in Visitors |-> visit'[v]]
      BY <1>3 DEF Stop, Keep
    <2>3. QED
      BY <2>1, <2>2, FindOutKept
  <1>4. ASSUME NEW v \in Visitors, VisitStep(v) PROVE VisitsFindOut'
    <2>1. Watch /\ Proceeds(v)
      BY <1>4, StepProceeds
    <2>2. PICK y : Go(v, y) /\ (y.at = "idle" \/ Underway(y, Since(v)))
      BY <2>1 DEF Proceeds
    <2>3. /\ visit' = [w \in Visitors |-> visit'[w]]
          /\ \A w \in Visitors : visit'[w] = (IF w = v THEN y ELSE visit[w])
      BY <2>2 DEF Go, VisitsFindOut
    <2>4. QED
      BY <2>1, <2>2, <2>3, FindOutKept
  <1>5. ASSUME NEW b \in Buckets, ConfigStep(b) PROVE UNCHANGED visit /\ Watch
    BY <1>5 DEF ConfigStep, PutBucketWebsite, DeleteBucketWebsite, PutBucketCors, DeleteBucketCors,
       PutBucketNotification, DeleteBucketNotification, CreateBucket, DeleteBucket, Keep, busy
  <1>6. ASSUME NEW w \in Writers, WriterStep(w) PROVE UNCHANGED visit /\ Watch
    BY <1>6 DEF WriterStep, PutObject, DeleteObjects, FireWebhooks, Keep, busy
  <1>7. ASSUME NEW h, DeleteDomain(h) \/ \E b \in Buckets : PutDomain(h, b)
        PROVE  UNCHANGED visit /\ Watch
    BY <1>7 DEF DeleteDomain, PutDomain, Keep, busy
  <1>8. ASSUME NEW b, NEW k, WriteQuietly(b, k) PROVE UNCHANGED visit /\ Watch
    BY <1>8 DEF WriteQuietly, Keep, busy
  <1>9. ASSUME NEW e, Call(e) PROVE UNCHANGED visit /\ Watch
    BY <1>9 DEF Call, Keep
  <1>10. QED
    BY <1>1, <1>2, <1>3, <1>4, <1>5, <1>6, <1>7, <1>8, <1>9 DEF Next

\* Initially nobody visits.
LEMMA ConfigInit == Init => TablesOK /\ VisitsFindOut
  <1> SUFFICES ASSUME Init PROVE TablesOK /\ VisitsFindOut
    OBVIOUS
  <1>1. TablesOK
    BY DEF Init, TablesOK
  <1>2. visit = [v \in Visitors |-> visit[v]] /\ \A v \in Visitors : visit[v].at = "idle"
    BY DEF Init, NoVisit
  <1>3. QED
    BY <1>1, <1>2 DEF VisitsFindOut

\* What a visit that is done has found out justifies its answer.
LEMMA Justified ==
  VisitsFindOut => AnswersJustified
  <1> SUFFICES ASSUME VisitsFindOut, NEW v \in Visitors,
                      visit[v].at = "done", visit[v].answer # "buckets"
               PROVE
        LET x == visit[v]
            b == BucketOf(x.path)
            sites == Stood(v, "site", b)
            rules == IF b \in Buckets THEN Stood(v, "cors", b) ELSE {None}
        IN /\ x.asked.host \in Hosts => (IF x.site THEN b ELSE None) \in Stood(v, "to", x.asked.host)
           /\ x.asked.origin # None => x.allow \in {allowedOrigin(r, x.asked.origin) : r \in rules}
           /\ x.answer = "page" => x.key \in Wanted(v) /\ Held(v, b, x.key)
           /\ x.answer = "index" => \E site \in sites \ {None}, key \in Wanted(v) :
                 /\ x.key = key \o site.suffix /\ EndsInSlash(key)
                 /\ Held(v, b, x.key) /\ Lacked(v, b, key)
           /\ x.answer = "error page" => \E site \in sites \ {None} :
                 /\ x.row = site /\ Held(v, b, site.error)
                 /\ x.key \in Wanted(v) /\ Lacked(v, b, x.key) /\ NoIndex(v, b, x.key, site)
           /\ x.answer = "not found" => x.key \in Wanted(v) /\ Lacked(v, b, x.key)
           /\ x.answer = "not found" /\ IsWebsiteReq(v) /\ None \notin sites => \E site \in sites :
                 NoIndex(v, b, x.key, site) /\ (site.error # <<>> => Lacked(v, b, site.error))
           /\ x.answer = "no bucket" /\ b \in Buckets => <<"gone", b, b>> \in seen[v]
    BY DEF AnswersJustified
  <1> DEFINE x == visit[v]
             S == seen[v]
             b == BucketOf(x.path)
  <1>1. Rooted(x, S) /\ Shared(x, S) /\ Answered(x, S)
    BY DEF VisitsFindOut, Underway, FoundOut
  <1>2. \A kind, c : Stood(v, kind, c) = Told(S, kind, c)
    BY DEF Stood, Told
  <1>3. \A k : (Held(v, b, k) <=> HoldsIn(S, b, k)) /\ (Lacked(v, b, k) <=> LacksIn(S, b, k))
    BY DEF Held, HoldsIn, Lacked, LacksIn
  <1>4. Wanted(v) = WantedIn(x, S)
    BY <1>2 DEF Wanted, WantedIn
  <1>5. \A k, site : NoIndex(v, b, k, site) <=> NoIndexIn(S, b, k, site)
    BY <1>3 DEF NoIndex, NoIndexIn
  <1>6. x.asked.host \in Hosts => (IF x.site THEN b ELSE None) \in Stood(v, "to", x.asked.host)
    BY <1>1, <1>2 DEF Rooted
  <1>7. x.asked.origin # None =>
           x.allow \in {allowedOrigin(r, x.asked.origin) :
                        r \in IF b \in Buckets THEN Stood(v, "cors", b) ELSE {None}}
    BY <1>1, <1>2 DEF Shared, RulesOf
  <1>8. x.answer = "page" => x.key \in Wanted(v) /\ Held(v, b, x.key)
    BY <1>1, <1>3, <1>4 DEF Answered, PageFound
  <1>9. x.answer = "index" => \E site \in Stood(v, "site", b) \ {None}, key \in Wanted(v) :
           /\ x.key = key \o site.suffix /\ EndsInSlash(key)
           /\ Held(v, b, x.key) /\ Lacked(v, b, key)
    BY <1>1, <1>2, <1>3, <1>4 DEF Answered, IndexFound
  <1>10. x.answer = "error page" => \E site \in Stood(v, "site", b) \ {None} :
           /\ x.row = site /\ Held(v, b, site.error)
           /\ x.key \in Wanted(v) /\ Lacked(v, b, x.key) /\ NoIndex(v, b, x.key, site)
    BY <1>1, <1>2, <1>3, <1>4, <1>5 DEF Answered, ErrorFound
  <1>11. x.answer = "not found" => NothingFound(x, S)
    BY <1>1 DEF Answered
  <1>12. x.answer = "no bucket" /\ b \in Buckets => <<"gone", b, b>> \in seen[v]
    BY <1>1 DEF Answered, NoBucketFound
  <1>13. IsWebsiteReq(v) <=> ForSite(x)
    BY DEF IsWebsiteReq, ForSite
  <1>14. QED
    BY <1>2, <1>3, <1>4, <1>5, <1>6, <1>7, <1>8, <1>9, <1>10, <1>11, <1>12, <1>13 DEF NothingFound

\* The inductive invariant.
LEMMA ConfigInvariant == Spec => [](TablesOK /\ VisitsFindOut)
  <1>1. TablesOK /\ VisitsFindOut /\ [Next]_vars => (TablesOK /\ VisitsFindOut)'
    BY TablesKept, VisitsKept
  <1>2. QED
    BY <1>1, ConfigInit, PTL DEF Spec

\* Whatever a visitor is answered, and by whom the answer may be read, rests on
\* what was configured and stored during the visit, though its reads are
\* transactions of their own and everything may change between them.
THEOREM AnswersAreJustified == Spec => []AnswersJustified
  BY ConfigInvariant, Justified, PTL
=============================================================================
