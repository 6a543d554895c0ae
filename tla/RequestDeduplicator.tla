------------------------- MODULE RequestDeduplicator ------------------------
(***************************************************************************)
(* RequestDeduplicator.execute for one key: callers that come while a      *)
(* task's entry is fresh share its promise.  The caller that started a     *)
(* task deletes the key's entry when the task fails, whoever's entry it is *)
(* by then; that continuation runs in the same turn as the failure.        *)
(***************************************************************************)
EXTENDS Naturals

CONSTANTS
  Users,     \* concurrent callers of execute
  Tasks,     \* tasks that may run or be remembered at once
  None,      \* no entry, nothing awaited
  Ttl,       \* ttlMs in ticks
  MaxClock   \* bound: where the modelled clock stops

VARIABLES
  clock,     \* Date.now()
  _cache,    \* the key's entry: the task and its expiry, or None
  state,     \* "idle", "running", "done" or "failed"
  deadline,  \* history: until when each task's entry was to serve
  awaits,    \* the task each caller awaits, or None
  evicted    \* history: tasks whose entry another task or clear has removed

vars == <<clock, _cache, state, deadline, awaits, evicted>>

Init ==
  /\ clock = 0
  /\ _cache = None
  /\ state = [t \in Tasks |-> "idle"]
  /\ deadline = [t \in Tasks |-> 0]
  /\ awaits = [u \in Users |-> None]
  /\ evicted = {}

\* Mutant: the last tick of an entry's life is not used.
Fresh_Early(entry) == entry # None /\ clock + 1 < entry.expiresAt

Fresh(entry) == entry # None /\ clock < entry.expiresAt

(* The task whose promise the key's entry holds, if any.                   *)
Remembered == IF _cache = None THEN {} ELSE {_cache.task}

Unused(t) ==
  /\ state[t] # "running"
  /\ t \notin Remembered
  /\ \A u \in Users : awaits[u] # t

execute(u) ==
  /\ awaits[u] = None
  /\ \/ /\ Fresh(_cache)
        /\ awaits' = [awaits EXCEPT ![u] = _cache.task]
        /\ UNCHANGED <<_cache, state, deadline, evicted>>
     \/ /\ ~ Fresh(_cache)
        /\ \E t \in Tasks :
             /\ Unused(t)
             /\ awaits' = [awaits EXCEPT ![u] = t]
             /\ state' = [state EXCEPT ![t] = "running"]
             /\ _cache' = [task |-> t, expiresAt |-> clock + Ttl]
             /\ deadline' = [deadline EXCEPT ![t] = clock + Ttl]
             /\ evicted' = evicted \ {t}
  /\ UNCHANGED clock

Fulfil(t) ==
  /\ state[t] = "running"
  /\ state' = [state EXCEPT ![t] = "done"]
  /\ deadline' = [deadline EXCEPT ![t] = 0]
  /\ evicted' = evicted \ {t}
  /\ UNCHANGED <<clock, _cache, awaits>>

\* Mutant: the entry of a task that failed stays.
Reject_Kept(t) ==
  /\ state[t] = "running"
  /\ state' = [state EXCEPT ![t] = "failed"]
  /\ deadline' = [deadline EXCEPT ![t] = 0]
  /\ evicted' = evicted \ {t}
  /\ UNCHANGED <<clock, _cache, awaits>>

Reject(t) ==
  /\ state[t] = "running"
  /\ state' = [state EXCEPT ![t] = "failed"]
  /\ deadline' = [deadline EXCEPT ![t] = 0]
  /\ _cache' = None
  /\ evicted' = (evicted \cup {u \in Remembered : state[u] = "running"}) \ {t}
  /\ UNCHANGED <<clock, awaits>>

(* A caller gets the outcome of the task it awaits.                        *)
Resume(u) ==
  /\ awaits[u] # None
  /\ state[awaits[u]] \in {"done", "failed"}
  /\ awaits' = [awaits EXCEPT ![u] = None]
  /\ UNCHANGED <<clock, _cache, state, deadline, evicted>>

clear ==
  /\ _cache' = None
  /\ evicted' = evicted \cup {t \in Remembered : state[t] = "running"}
  /\ UNCHANGED <<clock, state, deadline, awaits>>

Tick ==
  /\ clock < MaxClock
  /\ clock' = clock + 1
  /\ UNCHANGED <<_cache, state, deadline, awaits, evicted>>

Next ==
  \/ \E u \in Users : execute(u) \/ Resume(u)
  \/ \E t \in Tasks : Fulfil(t) \/ Reject(t)
  \/ clear
  \/ Tick

Spec == Init /\ [][Next]_vars

-----------------------------------------------------------------------------
(* A failure is never served from the cache: whoever comes after it starts *)
(* a task of its own, late failures of expired tasks included.             *)
FailureIsNotCached == _cache # None => state[_cache.task] # "failed"

(* A task that runs and is not older than the ttl is the one later callers *)
(* join, so no two such tasks run at once; only the failure of an expired  *)
(* task, which deletes its successor's entry, and clear undo this.         *)
FreshTaskIsShared ==
  \A t \in Tasks :
    state[t] = "running" /\ clock < deadline[t] /\ t \notin evicted =>
      _cache # None /\ _cache.task = t
=============================================================================
