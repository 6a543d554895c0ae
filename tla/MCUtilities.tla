---------------------------- MODULE MCUtilities -----------------------------
(***************************************************************************)
(* The in-memory utilities for TLC.  They share nothing but the clock, so  *)
(* a behaviour is one of one utility; which, is chosen at the start.       *)
(***************************************************************************)
EXTENDS Integers, TLC

CONSTANTS None, Callers, Keys, Ttls, Tasks, Payloads, Ttl,
          windowMs, maxRequests, capacity, refillRate, Costs, MaxClock

ASSUME UtilitiesAssumption ==
  /\ None \notin Keys \cup Tasks \cup Payloads
  /\ None \notin [token : Callers, expiresAt : Nat]
  /\ None \notin [task : Tasks, expiresAt : Nat]
  /\ None \notin [state : {"IN_FLIGHT", "COMPLETED"}, fingerprint : Payloads,
                  response : Payloads \cup {None}, expiresAt : Nat]
  /\ Ttls \subseteq Nat /\ Costs \subseteq Nat
  /\ {windowMs, maxRequests, capacity} \subseteq Nat \ {0}
  /\ {Ttl, refillRate, MaxClock} \subseteq Nat

VARIABLES part, clock, _locks, section, lease,
          _cache, state, deadline, awaits, evicted,
          _store, handling, due, disturbed,
          hits, allowed, tokens, lastRefill, consumed

Locks == INSTANCE LockManager
Tasking == INSTANCE RequestDeduplicator WITH Users <- Callers
Stored == INSTANCE IdempotencyManager WITH Handlers <- Callers
Window == INSTANCE RateLimiter
Bucket == INSTANCE TokenBucketLimiter

locksVars == <<_locks, section, lease>>
taskingVars == <<_cache, state, deadline, awaits, evicted>>
storedVars == <<_store, handling, due, disturbed>>
windowVars == <<hits, allowed>>
bucketVars == <<tokens, lastRefill, consumed>>
vars == <<part, clock, locksVars, taskingVars, storedVars,
          windowVars, bucketVars>>

Init ==
  /\ part \in {"locks", "tasking", "stored", "window", "bucket"}
  /\ Locks!Init /\ Tasking!Init /\ Stored!Init /\ Window!Init /\ Bucket!Init

Next ==
  \/ /\ part = "locks" /\ Locks!Next
     /\ UNCHANGED <<part, taskingVars, storedVars, windowVars, bucketVars>>
  \/ /\ part = "tasking" /\ Tasking!Next
     /\ UNCHANGED <<part, locksVars, storedVars, windowVars, bucketVars>>
  \/ /\ part = "stored" /\ Stored!Next
     /\ UNCHANGED <<part, locksVars, taskingVars, windowVars, bucketVars>>
  \/ /\ part = "window" /\ Window!Next
     /\ UNCHANGED <<part, locksVars, taskingVars, storedVars, bucketVars>>
  \/ /\ part = "bucket" /\ Bucket!Next
     /\ UNCHANGED <<part, locksVars, taskingVars, storedVars, windowVars>>

Spec == Init /\ [][Next]_vars

Symmetry == Permutations(Callers) \cup Permutations(Keys)
              \cup Permutations(Tasks) \cup Permutations(Payloads)

(* Two live locks never protect one key at once (LockManager).             *)
LeaseIsExclusive == Locks!LeaseIsExclusive

(* A failure is never served from the cache (RequestDeduplicator).         *)
FailureIsNotCached == Tasking!FailureIsNotCached

(* Callers join the fresh task that runs (RequestDeduplicator).            *)
FreshTaskIsShared == Tasking!FreshTaskIsShared

(* A request in hand keeps its key in flight (IdempotencyManager).         *)
InFlightIsKept == Stored!InFlightIsKept

(* Neither limiter lets more through than it promises: in no window more   *)
(* than allowed (RateLimiter), in no burst more than the bucket and what   *)
(* refilled it (TokenBucketLimiter).                                       *)
RateIsBounded == Window!WindowIsBounded /\ Bucket!BurstIsBounded
=============================================================================
