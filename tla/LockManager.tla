---------------------------- MODULE LockManager -----------------------------
(***************************************************************************)
(* LockManager: in-memory locks that expire.  withLock runs a section      *)
(* under a lock; the lock may expire and be taken over while the section   *)
(* still runs, and its release then must leave the successor's lock alone. *)
(* The token of an acquisition is the caller that made it: a caller has    *)
(* one acquisition at a time.  A refused withLock (RESOURCE_LOCKED)        *)
(* changes nothing and has no action.                                      *)
(***************************************************************************)
EXTENDS Naturals

CONSTANTS
  Callers,   \* concurrent users of withLock
  Keys,      \* resource keys
  Ttls,      \* lifetimes asked for, in ticks
  None,      \* no lock, no section
  MaxClock   \* bound: where the modelled clock stops

VARIABLES
  clock,    \* Date.now()
  _locks,   \* the map from keys to tokens and expiry times
  section,  \* the key whose section a caller runs, or None
  lease     \* history: until when a caller's lock was promised to it

vars == <<clock, _locks, section, lease>>

Init ==
  /\ clock = 0
  /\ _locks = [k \in Keys |-> None]
  /\ section = [c \in Callers |-> None]
  /\ lease = [c \in Callers |-> 0]

acquireLock(c, k, ttl) ==
  /\ section[c] = None
  /\ _locks[k] # None => _locks[k].expiresAt <= clock
  /\ _locks' = [_locks EXCEPT ![k] = [token |-> c, expiresAt |-> clock + ttl]]
  /\ section' = [section EXCEPT ![c] = k]
  /\ lease' = [lease EXCEPT ![c] = clock + ttl]
  /\ UNCHANGED clock

\* Mutant: the token is not compared.
releaseLock_AnyToken(k, c) == _locks' = [_locks EXCEPT ![k] = None]

releaseLock(k, c) ==
  _locks' = IF _locks[k] # None /\ _locks[k].token = c
              THEN [_locks EXCEPT ![k] = None] ELSE _locks

(* The section returns or throws; the finally block releases.              *)
LeaveSection(c) ==
  /\ section[c] # None
  /\ releaseLock(section[c], c)
  /\ section' = [section EXCEPT ![c] = None]
  /\ lease' = [lease EXCEPT ![c] = 0]
  /\ UNCHANGED clock

(* isLocked drops a lock it finds expired.                                 *)
isLocked(k) ==
  /\ _locks[k] # None /\ _locks[k].expiresAt <= clock
  /\ _locks' = [_locks EXCEPT ![k] = None]
  /\ UNCHANGED <<clock, section, lease>>

(* reset withdraws every promise made so far.                              *)
reset ==
  /\ _locks' = [k \in Keys |-> None]
  /\ lease' = [c \in Callers |-> 0]
  /\ UNCHANGED <<clock, section>>

Tick ==
  /\ clock < MaxClock
  /\ clock' = clock + 1
  /\ UNCHANGED <<_locks, section, lease>>

Next ==
  \/ \E c \in Callers, k \in Keys, ttl \in Ttls : acquireLock(c, k, ttl)
  \/ \E c \in Callers : LeaveSection(c)
  \/ \E k \in Keys : isLocked(k)
  \/ reset
  \/ Tick

Spec == Init /\ [][Next]_vars

-----------------------------------------------------------------------------
(* Of two callers running sections under one key, at most one is within    *)
(* the lifetime of its lock: overrunning, late releases and isLocked's     *)
(* clean-up take no lock from a caller before its time.                    *)
LeaseIsExclusive ==
  \A c, d \in Callers :
    c # d /\ section[c] # None /\ section[c] = section[d] =>
      lease[c] <= clock \/ lease[d] <= clock
=============================================================================
