---------------------------- MODULE RateLimiter -----------------------------
(***************************************************************************)
(* RateLimiter: a sliding window of the timestamps of allowed requests,    *)
(* here for one key.  The list of timestamps is a bag: their order only    *)
(* matters for the resetTimeMs of an answer.                               *)
(***************************************************************************)
EXTENDS Integers, Functions

CONSTANTS
  windowMs,     \* length of the window, in ticks
  maxRequests,  \* requests allowed in it
  MaxClock      \* bound: where the modelled clock stops

VARIABLES
  clock,   \* Date.now()
  hits,    \* how often each timestamp is kept for the key
  allowed  \* history: requests allowed at each tick since a reset

vars == <<clock, hits, allowed>>

Times == 0 .. MaxClock

Init ==
  /\ clock = 0
  /\ hits = [t \in Times |-> 0]
  /\ allowed = [t \in Times |-> 0]

\* Mutant: the window is a tick short.
InWindow_Short ==
  [t \in Times |-> IF t > clock - windowMs + 1 THEN hits[t] ELSE 0]

InWindow == [t \in Times |-> IF t > clock - windowMs THEN hits[t] ELSE 0]

check ==
  /\ \/ /\ SumFunction(InWindow) >= maxRequests
        /\ hits' = InWindow
        /\ UNCHANGED allowed
     \/ /\ SumFunction(InWindow) < maxRequests
        /\ hits' = [InWindow EXCEPT ![clock] = @ + 1]
        /\ allowed' = [allowed EXCEPT ![clock] = @ + 1]
  /\ UNCHANGED clock

(* reset of the key, or clear.                                             *)
reset ==
  /\ hits' = [t \in Times |-> 0]
  /\ allowed' = [t \in Times |-> 0]
  /\ UNCHANGED clock

Tick ==
  /\ clock < MaxClock
  /\ clock' = clock + 1
  /\ UNCHANGED <<hits, allowed>>

Next == check \/ reset \/ Tick

Spec == Init /\ [][Next]_vars

-----------------------------------------------------------------------------
(* In no stretch of windowMs ticks are more than maxRequests allowed,      *)
(* wherever it begins and however often refused calls trim the list.       *)
WindowIsBounded ==
  \A s \in Times :
    SumFunctionOnSet(allowed, Times \cap (s .. s + windowMs - 1)) <= maxRequests
=============================================================================
