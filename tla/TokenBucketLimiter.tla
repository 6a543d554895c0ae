------------------------- MODULE TokenBucketLimiter -------------------------
(***************************************************************************)
(* TokenBucketLimiter.  A token is the smallest amount a tick refills.     *)
(***************************************************************************)
EXTENDS Integers, FiniteSetsExt, Functions

CONSTANTS
  capacity,    \* size of the bucket
  refillRate,  \* tokens refilled per tick
  Costs,       \* how many tokens a call may want
  MaxClock     \* bound: where the modelled clock stops

VARIABLES
  clock,       \* Date.now()
  tokens,      \* what the bucket holds
  lastRefill,  \* when it was last brought up to date
  consumed     \* history: tokens consumed at each tick

vars == <<clock, tokens, lastRefill, consumed>>

Times == 0 .. MaxClock

Init ==
  /\ clock = 0
  /\ tokens = capacity
  /\ lastRefill = 0
  /\ consumed = [t \in Times |-> 0]

(* _refill *)
refilled == Min({capacity, tokens + (clock - lastRefill) * refillRate})

\* Mutant: a refused call refills and does not move lastRefill.
tryConsume_Twice(n) ==
  /\ tokens' = IF refilled >= n THEN refilled - n ELSE refilled
  /\ lastRefill' = IF refilled >= n THEN clock ELSE lastRefill
  /\ consumed' = [consumed EXCEPT ![clock] = @ + IF refilled >= n THEN n ELSE 0]
  /\ UNCHANGED clock

tryConsume(n) ==
  /\ tokens' = IF refilled >= n THEN refilled - n ELSE refilled
  /\ lastRefill' = clock
  /\ consumed' = [consumed EXCEPT ![clock] = @ + IF refilled >= n THEN n ELSE 0]
  /\ UNCHANGED clock

(* Looking at the bucket refills it.                                       *)
getAvailableTokens ==
  /\ tokens' = refilled
  /\ lastRefill' = clock
  /\ UNCHANGED <<clock, consumed>>

Tick ==
  /\ clock < MaxClock
  /\ clock' = clock + 1
  /\ UNCHANGED <<tokens, lastRefill, consumed>>

Next ==
  \/ \E n \in Costs : tryConsume(n)
  \/ getAvailableTokens
  \/ Tick

Spec == Init /\ [][Next]_vars

-----------------------------------------------------------------------------
(* Over any stretch of time no more is consumed than a full bucket and     *)
(* what it was refilled with, looks and refused calls included.            *)
BurstIsBounded ==
  \A s, t \in Times : s <= t =>
    SumFunctionOnSet(consumed, s .. t) <= capacity + (t - s) * refillRate
=============================================================================
