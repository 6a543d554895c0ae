--------------------------- MODULE Utilities_proofs ---------------------------
(***************************************************************************)
(* Proofs about the in-memory utilities, for any callers, keys, lifetimes, *)
(* rates and clock bound.  Each invariant is of one utility; that only one *)
(* utility moves in a behaviour is not used, only that the clock does not  *)
(* run backwards while the others move.                                    *)
(***************************************************************************)
EXTENDS MCUtilities, FunctionSums

(* The lock of a caller within its time is there, is the caller's and ends *)
(* when it was promised to.                                                *)
Holds(c) == section[c] # None /\ clock < lease[c]

Lock == [token : Callers, expiresAt : Nat]

LocksInv ==
  /\ _locks \in [Keys -> {None} \cup Lock]
  /\ section \in [Callers -> {None} \cup Keys]
  /\ lease \in [Callers -> Nat]
  /\ \A c \in Callers : Holds(c) =>
       /\ _locks[section[c]] # None
       /\ _locks[section[c]].token = c
       /\ _locks[section[c]].expiresAt = lease[c]

(* The task that later callers are to join is the entry's, for as long.    *)
Serves(t) == state[t] = "running" /\ clock < deadline[t] /\ t \notin evicted

Entry == [task : Tasks, expiresAt : Nat]

TaskingInv ==
  /\ _cache \in {None} \cup Entry
  /\ state \in [Tasks -> {"idle", "running", "done", "failed"}]
  /\ deadline \in [Tasks -> Nat]
  /\ awaits \in [Callers -> {None} \cup Tasks]
  /\ FailureIsNotCached
  /\ \A t \in Tasks : Serves(t) =>
       _cache # None /\ _cache.task = t /\ _cache.expiresAt = deadline[t]

(* A handler in time that nobody disturbed is the only one, and the key's  *)
(* entry is the one made for it.                                           *)
InTime(h) == handling[h] # None /\ clock < due[h] /\ h \notin disturbed

StoreEntry == [state : {"IN_FLIGHT", "COMPLETED"}, fingerprint : Payloads,
               response : Payloads \cup {None}, expiresAt : Nat]

StoredInv ==
  /\ _store \in {None} \cup StoreEntry
  /\ handling \in [Callers -> {None} \cup Payloads]
  /\ due \in [Callers -> Nat]
  /\ \A h \in Callers : InTime(h) =>
       /\ _store # None /\ _store.state = "IN_FLIGHT"
       /\ _store.fingerprint = handling[h] /\ _store.expiresAt = due[h]
  /\ \A g, h \in Callers : InTime(g) /\ InTime(h) => g = h

-----------------------------------------------------------------------------
(* LockManager.                                                            *)

LEMMA LocksStep ==
  ASSUME clock \in Nat, LocksInv, Locks!Next
  PROVE  LocksInv'
<1>1. ASSUME NEW c \in Callers, NEW k \in Keys, NEW ttl \in Ttls,
             Locks!acquireLock(c, k, ttl)
      PROVE  LocksInv'
  <2> DEFINE until == clock + ttl
  <2>1. ttl \in Nat /\ until \in Nat /\ k # None
    BY UtilitiesAssumption
  <2>2. /\ section[c] = None /\ clock' = clock
        /\ _locks[k] # None => _locks[k].expiresAt <= clock
        /\ _locks' = [_locks EXCEPT ![k] = [token |-> c, expiresAt |-> until]]
        /\ section' = [section EXCEPT ![c] = k]
        /\ lease' = [lease EXCEPT ![c] = until]
    BY <1>1 DEF Locks!acquireLock
  <2>3. [token |-> c, expiresAt |-> until] \in Lock /\ None \notin Lock
    BY <2>1, UtilitiesAssumption DEF Lock
  <2> HIDE DEF until
  <2>4. /\ _locks' \in [Keys -> {None} \cup Lock]
        /\ section' \in [Callers -> {None} \cup Keys] /\ lease' \in [Callers -> Nat]
    BY <2>1, <2>2, <2>3 DEF LocksInv
  <2>5. ASSUME NEW d \in Callers, Holds(d)'
        PROVE  /\ _locks'[section'[d]] # None
               /\ _locks'[section'[d]].token = d
               /\ _locks'[section'[d]].expiresAt = lease'[d]
    <3>1. CASE d = c
      <4>1. section'[c] = k /\ lease'[c] = until
            /\ _locks'[k] = [token |-> c, expiresAt |-> until]
        BY <2>2 DEF LocksInv
      <4>2. QED
        BY <2>3, <3>1, <4>1
    <3>2. CASE d # c
      <4>1. section'[d] = section[d] /\ lease'[d] = lease[d] /\ Holds(d)
        BY <2>2, <2>5, <3>2 DEF LocksInv, Holds
      <4>2. section[d] \in Keys /\ lease[d] \in Nat
        BY <4>1 DEF LocksInv, Holds
      <4>3. section[d] # k
        BY <2>2, <4>1, <4>2 DEF LocksInv, Holds
      <4>4. _locks'[section[d]] = _locks[section[d]]
        BY <2>2, <4>2, <4>3 DEF LocksInv
      <4>5. QED
        BY <4>1, <4>4 DEF LocksInv
    <3>3. QED
      BY <3>1, <3>2
  <2>6. QED
    BY <2>4, <2>5 DEF LocksInv
<1>2. ASSUME NEW c \in Callers, Locks!LeaveSection(c)
      PROVE  LocksInv'
  <2> DEFINE k == section[c]
  <2>1. /\ k # None /\ k \in Keys /\ clock' = clock
        /\ _locks' = IF _locks[k] # None /\ _locks[k].token = c
                       THEN [_locks EXCEPT ![k] = None] ELSE _locks
        /\ section' = [section EXCEPT ![c] = None]
        /\ lease' = [lease EXCEPT ![c] = 0]
    BY <1>2 DEF Locks!LeaveSection, Locks!releaseLock, LocksInv
  <2> HIDE DEF k
  <2>2. /\ _locks' \in [Keys -> {None} \cup Lock]
        /\ section' \in [Callers -> {None} \cup Keys] /\ lease' \in [Callers -> Nat]
    BY <2>1 DEF LocksInv
  <2>3. ASSUME NEW d \in Callers, Holds(d)'
        PROVE  /\ _locks'[section'[d]] # None
               /\ _locks'[section'[d]].token = d
               /\ _locks'[section'[d]].expiresAt = lease'[d]
    <3>1. d # c
      BY <2>1, <2>3 DEF LocksInv, Holds
    <3>2. section'[d] = section[d] /\ lease'[d] = lease[d] /\ Holds(d)
      BY <2>1, <2>3, <3>1 DEF LocksInv, Holds
    <3>3. section[d] \in Keys /\ _locks[section[d]] # None /\ _locks[section[d]].token = d
      BY <3>2 DEF LocksInv, Holds
    <3>4. _locks'[section[d]] = _locks[section[d]]
      BY <2>1, <3>1, <3>3 DEF LocksInv
    <3>5. QED
      BY <3>2, <3>3, <3>4 DEF LocksInv
  <2>4. QED
    BY <2>2, <2>3 DEF LocksInv
<1>3. ASSUME NEW k \in Keys, Locks!isLocked(k)
      PROVE  LocksInv'
  <2>1. /\ _locks[k] # None /\ _locks[k].expiresAt <= clock
        /\ _locks' = [_locks EXCEPT ![k] = None]
        /\ UNCHANGED <<clock, section, lease>>
    BY <1>3 DEF Locks!isLocked
  <2>2. _locks' \in [Keys -> {None} \cup Lock]
    BY <2>1 DEF LocksInv
  <2>3. ASSUME NEW d \in Callers, Holds(d)
        PROVE  _locks'[section[d]] = _locks[section[d]]
    <3>1. section[d] \in Keys /\ lease[d] \in Nat /\ clock < lease[d]
          /\ _locks[section[d]].expiresAt = lease[d]
      BY <2>3 DEF LocksInv, Holds
    <3>2. section[d] # k
      BY <2>1, <3>1
    <3>3. QED
      BY <2>1, <3>1, <3>2 DEF LocksInv
  <2>4. \A d \in Callers : Holds(d)' => Holds(d)
    BY <2>1 DEF Holds
  <2>5. QED
    BY <2>1, <2>2, <2>3, <2>4 DEF LocksInv
<1>4. CASE Locks!reset
  <2>1. /\ _locks' = [k \in Keys |-> None] /\ lease' = [c \in Callers |-> 0]
        /\ UNCHANGED <<clock, section>>
    BY <1>4 DEF Locks!reset
  <2>2. \A c \in Callers : ~ Holds(c)'
    BY <2>1 DEF Holds
  <2>3. QED
    BY <2>1, <2>2 DEF LocksInv
<1>5. CASE Locks!Tick
  <2>1. clock' = clock + 1 /\ UNCHANGED <<_locks, section, lease>>
    BY <1>5 DEF Locks!Tick
  <2>2. \A c \in Callers : Holds(c)' => Holds(c)
    BY <2>1 DEF LocksInv, Holds
  <2>3. QED
    BY <2>1, <2>2 DEF LocksInv
<1>6. QED
  BY <1>1, <1>2, <1>3, <1>4, <1>5 DEF Locks!Next

LEMMA LocksStill ==
  ASSUME clock \in Nat, clock' \in Nat, clock <= clock', LocksInv, UNCHANGED locksVars
  PROVE  LocksInv'
<1>1. UNCHANGED <<_locks, section, lease>>
  BY DEF locksVars
<1>2. \A c \in Callers : Holds(c)' => Holds(c)
  BY <1>1 DEF LocksInv, Holds
<1>3. QED
  BY <1>1, <1>2 DEF LocksInv

-----------------------------------------------------------------------------
(* RequestDeduplicator.                                                    *)

LEMMA TaskingStep ==
  ASSUME clock \in Nat, TaskingInv, Tasking!Next
  PROVE  TaskingInv'
<1>1. ASSUME NEW u \in Callers, Tasking!execute(u)
      PROVE  TaskingInv'
  <2>1. CASE /\ Tasking!Fresh(_cache)
             /\ awaits' = [awaits EXCEPT ![u] = _cache.task]
             /\ UNCHANGED <<_cache, state, deadline, evicted>>
    <3>1. clock' = clock /\ _cache \in Entry
      BY <1>1, <2>1 DEF Tasking!execute, Tasking!Fresh, TaskingInv
    <3>2. awaits' \in [Callers -> {None} \cup Tasks]
      BY <2>1, <3>1 DEF TaskingInv, Entry
    <3>3. \A t \in Tasks : Serves(t)' <=> Serves(t)
      BY <2>1, <3>1 DEF Serves
    <3>4. FailureIsNotCached'
      BY <2>1 DEF TaskingInv, FailureIsNotCached, Tasking!FailureIsNotCached
    <3>5. QED
      BY <2>1, <3>1, <3>2, <3>3, <3>4 DEF TaskingInv
  <2>2. ASSUME ~ Tasking!Fresh(_cache), NEW t \in Tasks,
               awaits' = [awaits EXCEPT ![u] = t],
               state' = [state EXCEPT ![t] = "running"],
               _cache' = [task |-> t, expiresAt |-> clock + Ttl],
               deadline' = [deadline EXCEPT ![t] = clock + Ttl],
               evicted' = evicted \ {t}
        PROVE  TaskingInv'
    <3> DEFINE until == clock + Ttl
    <3>1. until \in Nat /\ clock' = clock
      BY <1>1, UtilitiesAssumption DEF Tasking!execute
    <3>2. /\ _cache' = [task |-> t, expiresAt |-> until]
          /\ deadline' = [deadline EXCEPT ![t] = until]
      BY <2>2
    <3> HIDE DEF until
    <3>3. _cache' \in Entry /\ _cache' # None
      BY <3>1, <3>2, UtilitiesAssumption DEF Entry
    <3>4. _cache'.task = t /\ _cache'.expiresAt = until
      BY <3>2
    <3>5. /\ awaits' \in [Callers -> {None} \cup Tasks]
          /\ state' \in [Tasks -> {"idle", "running", "done", "failed"}]
          /\ deadline' \in [Tasks -> Nat]
          /\ state'[t] = "running" /\ deadline'[t] = until
      BY <2>2, <3>1, <3>2 DEF TaskingInv
    <3>6. FailureIsNotCached'
      BY <3>4, <3>5 DEF FailureIsNotCached, Tasking!FailureIsNotCached
    <3>7. ASSUME NEW u1 \in Tasks, Serves(u1)'
          PROVE  u1 = t
      <4> SUFFICES ASSUME u1 # t PROVE FALSE
        OBVIOUS
      <4>1. Serves(u1)
        BY <2>2, <3>1, <3>2, <3>7 DEF Serves, TaskingInv
      <4>2. _cache # None /\ _cache.expiresAt = deadline[u1] /\ clock < deadline[u1]
        BY <4>1 DEF Serves, TaskingInv
      <4>3. QED
        BY <2>2, <4>2 DEF Tasking!Fresh
    <3>8. QED
      BY <3>3, <3>4, <3>5, <3>6, <3>7 DEF TaskingInv
  <2>3. QED
    BY <1>1, <2>1, <2>2 DEF Tasking!execute
<1>2. ASSUME NEW u \in Callers, Tasking!Resume(u)
      PROVE  TaskingInv'
  <2>1. /\ awaits' = [awaits EXCEPT ![u] = None]
        /\ UNCHANGED <<clock, _cache, state, deadline, evicted>>
    BY <1>2 DEF Tasking!Resume
  <2>2. FailureIsNotCached' /\ \A t \in Tasks : Serves(t)' <=> Serves(t)
    BY <2>1 DEF TaskingInv, FailureIsNotCached, Tasking!FailureIsNotCached, Serves
  <2>3. QED
    BY <2>1, <2>2 DEF TaskingInv
<1>3. ASSUME NEW t \in Tasks, Tasking!Fulfil(t)
      PROVE  TaskingInv'
  <2>1. /\ state' = [state EXCEPT ![t] = "done"]
        /\ deadline' = [deadline EXCEPT ![t] = 0]
        /\ evicted' = evicted \ {t}
        /\ UNCHANGED <<clock, _cache, awaits>>
    BY <1>3 DEF Tasking!Fulfil
  <2>2. /\ state' \in [Tasks -> {"idle", "running", "done", "failed"}]
        /\ deadline' \in [Tasks -> Nat]
    BY <2>1 DEF TaskingInv
  <2>3. FailureIsNotCached'
    BY <2>1 DEF TaskingInv, FailureIsNotCached, Tasking!FailureIsNotCached, Entry
  <2>4. \A u \in Tasks : Serves(u)' => Serves(u) /\ deadline'[u] = deadline[u]
    BY <2>1 DEF TaskingInv, Serves
  <2>5. QED
    BY <2>1, <2>2, <2>3, <2>4 DEF TaskingInv
<1>4. ASSUME NEW t \in Tasks, Tasking!Reject(t)
      PROVE  TaskingInv'
  <2>1. /\ state' = [state EXCEPT ![t] = "failed"]
        /\ deadline' = [deadline EXCEPT ![t] = 0]
        /\ _cache' = None
        /\ evicted' = (evicted \cup {u \in Tasking!Remembered : state[u] = "running"}) \ {t}
        /\ UNCHANGED <<clock, awaits>>
    BY <1>4 DEF Tasking!Reject
  <2>2. /\ state' \in [Tasks -> {"idle", "running", "done", "failed"}]
        /\ deadline' \in [Tasks -> Nat]
    BY <2>1 DEF TaskingInv
  <2>3. FailureIsNotCached'
    BY <2>1 DEF FailureIsNotCached, Tasking!FailureIsNotCached
  <2>4. ASSUME NEW u \in Tasks, Serves(u)'
        PROVE  FALSE
    <3>1. u # t
      BY <2>1, <2>4 DEF TaskingInv, Serves
    <3>2. Serves(u)
      BY <2>1, <2>4, <3>1 DEF TaskingInv, Serves
    <3>3. u \in Tasking!Remembered /\ state[u] = "running"
      BY <3>2 DEF TaskingInv, Serves, Tasking!Remembered
    <3>4. QED
      BY <2>1, <2>4, <3>1, <3>3 DEF Serves
  <2>5. QED
    BY <2>1, <2>2, <2>3, <2>4 DEF TaskingInv
<1>5. CASE Tasking!clear
  <2>1. /\ _cache' = None
        /\ evicted' = evicted \cup {t \in Tasking!Remembered : state[t] = "running"}
        /\ UNCHANGED <<clock, state, deadline, awaits>>
    BY <1>5 DEF Tasking!clear
  <2>2. FailureIsNotCached'
    BY <2>1 DEF FailureIsNotCached, Tasking!FailureIsNotCached
  <2>3. ASSUME NEW u \in Tasks, Serves(u)'
        PROVE  FALSE
    <3>1. Serves(u)
      BY <2>1, <2>3 DEF Serves
    <3>2. u \in Tasking!Remembered /\ state[u] = "running"
      BY <3>1 DEF TaskingInv, Serves, Tasking!Remembered
    <3>3. QED
      BY <2>1, <2>3, <3>2 DEF Serves
  <2>4. QED
    BY <2>1, <2>2, <2>3 DEF TaskingInv
<1>6. CASE Tasking!Tick
  <2>1. clock' = clock + 1 /\ UNCHANGED <<_cache, state, deadline, awaits, evicted>>
    BY <1>6 DEF Tasking!Tick
  <2>2. FailureIsNotCached' /\ \A t \in Tasks : Serves(t)' => Serves(t)
    BY <2>1 DEF TaskingInv, FailureIsNotCached, Tasking!FailureIsNotCached, Serves
  <2>3. QED
    BY <2>1, <2>2 DEF TaskingInv
<1>7. QED
  BY <1>1, <1>2, <1>3, <1>4, <1>5, <1>6 DEF Tasking!Next

LEMMA TaskingStill ==
  ASSUME clock \in Nat, clock' \in Nat, clock <= clock', TaskingInv, UNCHANGED taskingVars
  PROVE  TaskingInv'
<1>1. UNCHANGED <<_cache, state, deadline, awaits, evicted>>
  BY DEF taskingVars
<1>2. FailureIsNotCached' /\ \A t \in Tasks : Serves(t)' => Serves(t)
  BY <1>1 DEF TaskingInv, FailureIsNotCached, Tasking!FailureIsNotCached, Serves
<1>3. QED
  BY <1>1, <1>2 DEF TaskingInv

-----------------------------------------------------------------------------
(* IdempotencyManager.                                                     *)

(* A step after which no handler that was not is in time, and those that   *)
(* are find the entry as it was.                                           *)
LEMMA NobodyComesInTime ==
  ASSUME StoredInv,
         _store' \in {None} \cup StoreEntry, handling' \in [Callers -> {None} \cup Payloads],
         due' \in [Callers -> Nat],
         \A h \in Callers : InTime(h)' =>
           InTime(h) /\ _store' = _store /\ handling'[h] = handling[h] /\ due'[h] = due[h]
  PROVE  StoredInv'
BY DEF StoredInv

LEMMA StoredStep ==
  ASSUME clock \in Nat, StoredInv, Stored!Next
  PROVE  StoredInv'
<1>1. ASSUME NEW h \in Callers, NEW p \in Payloads, Stored!begin(h, p)
      PROVE  StoredInv'
  <2> DEFINE until == clock + Ttl
             e == [state |-> "IN_FLIGHT", fingerprint |-> p,
                   response |-> None, expiresAt |-> until]
  <2>1. until \in Nat /\ p # None
    BY UtilitiesAssumption
  <2>2. /\ handling[h] = None /\ Stored!_cleanup = None /\ clock' = clock
        /\ _store' = e
        /\ handling' = [handling EXCEPT ![h] = p]
        /\ due' = [due EXCEPT ![h] = until]
        /\ disturbed' = disturbed \ {h}
    BY <1>1 DEF Stored!begin
  <2> HIDE DEF until
  <2>3. e \in StoreEntry /\ e # None
    BY <2>1, UtilitiesAssumption DEF StoreEntry
  <2>4. e.state = "IN_FLIGHT" /\ e.fingerprint = p /\ e.expiresAt = until
    OBVIOUS
  <2> HIDE DEF e
  <2>5. /\ handling' \in [Callers -> {None} \cup Payloads] /\ due' \in [Callers -> Nat]
        /\ handling'[h] = p /\ due'[h] = until
    BY <2>1, <2>2 DEF StoredInv
  <2>6. ASSUME NEW g \in Callers, InTime(g)'
        PROVE  g = h
    <3> SUFFICES ASSUME g # h PROVE FALSE
      OBVIOUS
    <3>1. InTime(g)
      BY <2>2, <2>6 DEF StoredInv, InTime
    <3>2. _store # None /\ _store.expiresAt = due[g] /\ clock < due[g] /\ due[g] \in Nat
      BY <3>1 DEF StoredInv, InTime
    <3>3. QED
      BY <2>2, <3>2 DEF Stored!_cleanup
  <2>7. QED
    BY <2>2, <2>3, <2>4, <2>5, <2>6 DEF StoredInv
<1>2. ASSUME NEW h \in Callers, Stored!complete(h) \/ Stored!remove(h)
      PROVE  StoredInv'
  <2>1. /\ handling[h] # None
        /\ handling' = [handling EXCEPT ![h] = None]
        /\ disturbed' = disturbed \cup Stored!Hit(h)
        /\ UNCHANGED <<clock, due>>
    BY <1>2 DEF Stored!complete, Stored!remove
  <2>2. handling' \in [Callers -> {None} \cup Payloads] /\ due' \in [Callers -> Nat]
    BY <2>1 DEF StoredInv
  <2>3. _store' \in {None} \cup StoreEntry
    <3>1. CASE _store' = None
      BY <3>1
    <3>2. CASE _store # None /\ _store' = [_store EXCEPT !.state = "COMPLETED",
                                                         !.response = handling[h]]
      <4>1. _store \in StoreEntry /\ handling[h] \in Payloads \cup {None}
        BY <3>2 DEF StoredInv
      <4>2. QED
        BY <3>2, <4>1 DEF StoreEntry
    <3>3. QED
      BY <1>2, <3>1, <3>2 DEF Stored!complete, Stored!remove
  <2>4. ASSUME NEW g \in Callers, InTime(g)'
        PROVE  FALSE
    <3>1. g # h /\ InTime(g) /\ g \notin Stored!Hit(h) /\ handling[g] # None
      BY <2>1, <2>4 DEF StoredInv, InTime
    <3>2. ~ (due[h] <= clock \/ h \in disturbed)
      BY <3>1 DEF Stored!Hit
    <3>3. InTime(h)
      BY <2>1, <3>2 DEF StoredInv, InTime
    <3>4. QED
      BY <3>1, <3>3 DEF StoredInv
  <2>5. QED
    BY <2>2, <2>3, <2>4, NobodyComesInTime
<1>3. CASE Stored!Restart
  <2>1. /\ _store' = None /\ handling' = [h \in Callers |-> None]
        /\ due' = [h \in Callers |-> 0]
    BY <1>3 DEF Stored!Restart
  <2>2. \A h \in Callers : ~ InTime(h)'
    BY <2>1 DEF InTime
  <2>3. QED
    BY <2>1, <2>2, NobodyComesInTime
<1>4. CASE Stored!Tick
  <2>1. clock' = clock + 1 /\ UNCHANGED <<_store, handling, due, disturbed>>
    BY <1>4 DEF Stored!Tick
  <2>2. \A h \in Callers : InTime(h)' => InTime(h)
    BY <2>1 DEF StoredInv, InTime
  <2>3. QED
    BY <2>1, <2>2 DEF StoredInv
<1>5. QED
  BY <1>1, <1>2, <1>3, <1>4 DEF Stored!Next

LEMMA StoredStill ==
  ASSUME clock \in Nat, clock' \in Nat, clock <= clock', StoredInv, UNCHANGED storedVars
  PROVE  StoredInv'
<1>1. UNCHANGED <<_store, handling, due, disturbed>>
  BY DEF storedVars
<1>2. \A h \in Callers : InTime(h)' => InTime(h)
  BY <1>1 DEF StoredInv, InTime
<1>3. QED
  BY <1>1, <1>2 DEF StoredInv

-----------------------------------------------------------------------------
(* RateLimiter.                                                            *)

Times == 0 .. MaxClock

LEMMA TimesFinite ==
  /\ \A t \in Times : t \in Nat /\ t <= MaxClock
  /\ \A S \in SUBSET Times : IsFiniteSet(S)
<1>1. IsFiniteSet(Times)
  <2>1. MaxClock \in Int
    BY UtilitiesAssumption
  <2>2. IsFiniteSet(0 .. MaxClock)
    BY <2>1, FS_Interval
  <2>3. QED
    BY <2>2 DEF Times
<1>2. QED
  BY <1>1, UtilitiesAssumption, FS_Subset DEF Times

Reach(s) == Times \cap (s .. s + windowMs - 1)

Windows == \A s \in Times : SumFunctionOnSet(allowed, Reach(s)) <= maxRequests

LEMMA WindowsAreBounded == Window!WindowIsBounded <=> Windows
BY DEF Window!WindowIsBounded, Windows, Reach, Times, Window!Times,
   Window!SumFunctionOnSet, SumFunctionOnSet,
   Window!FoldFunctionOnSet, FoldFunctionOnSet,
   Window!MapThenFoldSet, MapThenFoldSet

(* The timestamps kept are, as far as the window reaches, all that were    *)
(* allowed.                                                                *)
WindowInv ==
  /\ hits \in [Times -> Nat] /\ allowed \in [Times -> Nat]
  /\ \A t \in Times : clock < t => allowed[t] = 0
  /\ \A t \in Times : t > clock - windowMs => hits[t] = allowed[t]
  /\ Windows

InWindow == [t \in Times |-> IF t > clock - windowMs THEN hits[t] ELSE 0]

LEMMA WindowSum ==
  /\ Window!InWindow = InWindow
  /\ Window!SumFunction(Window!InWindow) = SumFunctionOnSet(InWindow, Times)
<1>1. Window!InWindow = InWindow
  BY DEF Window!InWindow, InWindow, Window!Times, Times
<1>2. DOMAIN InWindow = Times
  BY DEF InWindow
<1>3. \A f : Window!SumFunction(f) = SumFunctionOnSet(f, DOMAIN f)
  BY DEF Window!SumFunction, Window!SumFunctionOnSet, SumFunctionOnSet,
     Window!FoldFunctionOnSet, FoldFunctionOnSet,
     Window!MapThenFoldSet, MapThenFoldSet
<1>4. QED
  BY <1>1, <1>2, <1>3

LEMMA InWindowType ==
  ASSUME clock \in Times, WindowInv
  PROVE  /\ InWindow \in [Times -> Nat]
         /\ \A t \in Times : t > clock - windowMs => InWindow[t] = allowed[t]
BY DEF InWindow, WindowInv

LEMMA NoSumsAreBounded ==
  ASSUME NEW f, \A t \in Times : f[t] = 0, NEW s \in Times
  PROVE  SumFunctionOnSet(f, Reach(s)) <= maxRequests
<1>1. IsFiniteSet(Reach(s)) /\ \A t \in Reach(s) : f[t] = 0
  BY TimesFinite DEF Reach
<1>2. SumFunctionOnSet(f, Reach(s)) = 0
  BY <1>1, SumOfZeros
<1>3. QED
  BY <1>2, UtilitiesAssumption

LEMMA WindowStep ==
  ASSUME clock \in Times, WindowInv, Window!Next
  PROVE  WindowInv'
<1>0. clock \in Nat /\ windowMs \in Nat \ {0} /\ maxRequests \in Nat
  BY UtilitiesAssumption, TimesFinite
<1>1. CASE Window!check
  <2>1. CASE hits' = InWindow /\ UNCHANGED <<clock, allowed>>
    <3>1. InWindow \in [Times -> Nat]
          /\ \A t \in Times : t > clock - windowMs => InWindow[t] = allowed[t]
      BY InWindowType
    <3>2. Windows'
      BY <2>1 DEF WindowInv, Windows
    <3>3. QED
      BY <2>1, <3>1, <3>2 DEF WindowInv
  <2>2. CASE /\ SumFunctionOnSet(InWindow, Times) < maxRequests
             /\ hits' = [InWindow EXCEPT ![clock] = @ + 1]
             /\ allowed' = [allowed EXCEPT ![clock] = @ + 1]
             /\ UNCHANGED clock
    <3>1. /\ InWindow \in [Times -> Nat] /\ allowed \in [Times -> Nat]
          /\ \A t \in Times : t > clock - windowMs => InWindow[t] = allowed[t]
      BY InWindowType DEF WindowInv
    <3>2. /\ hits' \in [Times -> Nat] /\ allowed' \in [Times -> Nat]
          /\ \A t \in Times \ {clock} : allowed'[t] = allowed[t] /\ hits'[t] = InWindow[t]
          /\ allowed'[clock] = allowed[clock] + 1
          /\ hits'[clock] = InWindow[clock] + 1
      BY <2>2, <3>1
    <3>3. PICK f : f = allowed'
      OBVIOUS
    <3>4. ASSUME NEW s \in Times
          PROVE  SumFunctionOnSet(f, Reach(s)) <= maxRequests
      <4>1. /\ IsFiniteSet(Reach(s)) /\ Reach(s) \in SUBSET Times /\ IsFiniteSet(Times)
            /\ \A t \in Reach(s) : f[t] \in Int /\ allowed[t] \in Int
        BY <3>1, <3>2, <3>3, TimesFinite DEF Reach
      <4>2. CASE clock \notin Reach(s)
        <5>1. \A t \in Reach(s) : f[t] = allowed[t]
          BY <3>2, <3>3, <4>1, <4>2
        <5>2. SumFunctionOnSet(f, Reach(s)) = SumFunctionOnSet(allowed, Reach(s))
          BY <4>1, <5>1, SumOfEqual
        <5>3. QED
          BY <5>2 DEF WindowInv, Windows
      <4>3. CASE clock \in Reach(s)
        <5>1. \A t \in Reach(s) \ {clock} : f[t] = allowed[t]
          BY <3>2, <3>3, <4>1
        <5>2. SumFunctionOnSet(f, Reach(s)) =
                SumFunctionOnSet(allowed, Reach(s)) - allowed[clock] + f[clock]
          BY <4>1, <4>3, <5>1, SumOfChanged
        <5>3. \A t \in Reach(s) : allowed[t] = InWindow[t]
          BY <1>0, <3>1, <4>3, TimesFinite DEF Reach
        <5>4. SumFunctionOnSet(allowed, Reach(s)) = SumFunctionOnSet(InWindow, Reach(s))
          BY <4>1, <5>3, SumOfEqual
        <5>5. SumFunctionOnSet(InWindow, Reach(s)) <= SumFunctionOnSet(InWindow, Times)
          <6>1. \A t \in Times : InWindow[t] \in Nat
            BY <3>1
          <6>2. QED
            BY <4>1, <6>1, SumOfSubset
        <5>6. /\ SumFunctionOnSet(allowed, Reach(s)) \in Int
              /\ SumFunctionOnSet(InWindow, Times) \in Int
              /\ allowed[clock] \in Int /\ f[clock] = allowed[clock] + 1
          <6>1. \A t \in Times : InWindow[t] \in Int
            BY <3>1
          <6>2. QED
            BY <3>2, <3>3, <4>1, <4>3, <6>1, SumType
        <5>7. QED
          BY <1>0, <2>2, <5>2, <5>4, <5>5, <5>6
      <4>4. QED
        BY <4>2, <4>3
    <3>5. Windows'
      BY <3>3, <3>4 DEF Windows, Reach
    <3>6. \A t \in Times : clock' < t => allowed'[t] = 0
      BY <1>0, <2>2, <3>2, TimesFinite DEF WindowInv
    <3>7. \A t \in Times : t > clock' - windowMs => hits'[t] = allowed'[t]
      BY <1>0, <2>2, <3>1, <3>2
    <3>8. QED
      BY <3>2, <3>5, <3>6, <3>7 DEF WindowInv
  <2>3. QED
    BY <1>1, <2>1, <2>2, WindowSum DEF Window!check
<1>2. CASE Window!reset
  <2>1. /\ hits' = [t \in Times |-> 0] /\ allowed' = [t \in Times |-> 0]
        /\ clock' = clock
    BY <1>2 DEF Window!reset, Window!Times, Times
  <2>2. PICK f : f = allowed'
    OBVIOUS
  <2>3. \A s \in Times : SumFunctionOnSet(f, Reach(s)) <= maxRequests
    BY <2>1, <2>2, NoSumsAreBounded
  <2>4. Windows'
    BY <2>2, <2>3 DEF Windows, Reach
  <2>5. QED
    BY <2>1, <2>4 DEF WindowInv
<1>3. CASE Window!Tick
  <2>1. clock' = clock + 1 /\ UNCHANGED <<hits, allowed>>
    BY <1>3 DEF Window!Tick
  <2>2. Windows'
    BY <2>1 DEF WindowInv, Windows
  <2>3. /\ \A t \in Times : clock' < t => allowed'[t] = 0
        /\ \A t \in Times : t > clock' - windowMs => hits'[t] = allowed'[t]
    BY <1>0, <2>1, TimesFinite DEF WindowInv
  <2>4. QED
    BY <2>1, <2>2, <2>3 DEF WindowInv
<1>4. QED
  BY <1>1, <1>2, <1>3 DEF Window!Next

LEMMA WindowStill ==
  ASSUME clock \in Nat, clock' \in Nat, clock <= clock', WindowInv, UNCHANGED windowVars
  PROVE  WindowInv'
<1>1. UNCHANGED <<hits, allowed>>
  BY DEF windowVars
<1>2. Windows'
  BY <1>1 DEF WindowInv, Windows
<1>3. /\ \A t \in Times : clock' < t => allowed'[t] = 0
      /\ \A t \in Times : t > clock' - windowMs => hits'[t] = allowed'[t]
  BY <1>1, UtilitiesAssumption, TimesFinite DEF WindowInv
<1>4. QED
  BY <1>1, <1>2, <1>3 DEF WindowInv

-----------------------------------------------------------------------------
(* TokenBucketLimiter.                                                     *)

Spent(f, s, t) == SumFunctionOnSet(f, s .. t)

Allowance(s, t) == capacity + (t - s) * refillRate

Bursts == \A s, t \in Times : s <= t => Spent(consumed, s, t) <= Allowance(s, t)

LEMMA BurstsAreBounded == Bucket!BurstIsBounded <=> Bursts
BY DEF Bucket!BurstIsBounded, Bursts, Spent, Allowance, Times, Bucket!Times,
   Bucket!SumFunctionOnSet, SumFunctionOnSet,
   Bucket!FoldFunctionOnSet, FoldFunctionOnSet,
   Bucket!MapThenFoldSet, MapThenFoldSet

(* What was consumed up to the last refill, with what is left, is covered; *)
(* nothing has been consumed since.                                        *)
BucketInv ==
  /\ tokens \in 0 .. capacity
  /\ lastRefill \in Times /\ lastRefill <= clock
  /\ consumed \in [Times -> Nat]
  /\ \A u \in Times : lastRefill < u => consumed[u] = 0
  /\ \A s \in Times : s <= lastRefill =>
       Spent(consumed, s, lastRefill) + tokens <= Allowance(s, lastRefill)
  /\ Bursts

(* Capacity and rate are whole numbers, and so is what they allow; it      *)
(* grows with time.                                                        *)
LEMMA AllowanceGrows ==
  ASSUME NEW s \in Nat, NEW m \in Nat, NEW t \in Nat, s <= m, m <= t
  PROVE  /\ capacity \in Nat /\ refillRate \in Nat
         /\ Allowance(s, m) \in Nat /\ Allowance(s, t) \in Nat
         /\ capacity <= Allowance(s, m)
         /\ (t - m) * refillRate \in Nat
         /\ Allowance(s, t) = Allowance(s, m) + (t - m) * refillRate
<1>1. capacity \in Nat /\ refillRate \in Nat
  BY UtilitiesAssumption
<1>2. m - s \in Nat /\ t - m \in Nat /\ t - s = (m - s) + (t - m)
  OBVIOUS
<1>3. \A a, b, r \in Nat : a * r \in Nat /\ b * r \in Nat /\ (a + b) * r = a * r + b * r
  OBVIOUS
<1>4. /\ (m - s) * refillRate \in Nat /\ (t - m) * refillRate \in Nat
      /\ (t - s) * refillRate = (m - s) * refillRate + (t - m) * refillRate
  BY <1>1, <1>2, <1>3
<1>5. QED
  BY <1>1, <1>4 DEF Allowance

LEMMA SpentType ==
  ASSUME NEW f \in [Times -> Nat], NEW s \in Times, NEW t \in Times
  PROVE  Spent(f, s, t) \in Nat
<1>1. s .. t \in SUBSET Times
  BY UtilitiesAssumption DEF Times
<1>2. IsFiniteSet(s .. t) /\ \A u \in s .. t : f[u] \in Nat
  BY <1>1, TimesFinite
<1>3. QED
  BY <1>2, SumOfNaturals DEF Spent

LEMMA SpentNothing ==
  ASSUME NEW f, NEW s \in Times, NEW t \in Times, \A u \in s .. t : f[u] = 0
  PROVE  Spent(f, s, t) = 0
<1>1. s .. t \in SUBSET Times
  BY UtilitiesAssumption DEF Times
<1>2. QED
  BY <1>1, TimesFinite, SumOfZeros DEF Spent

LEMMA SpentSame ==
  ASSUME NEW f, NEW g, NEW s \in Times, NEW t \in Times, \A u \in s .. t : f[u] = g[u]
  PROVE  Spent(f, s, t) = Spent(g, s, t)
<1>1. s .. t \in SUBSET Times
  BY UtilitiesAssumption DEF Times
<1>2. QED
  BY <1>1, TimesFinite, SumOfEqual DEF Spent

(* Ticks at which nothing is spent add nothing.                            *)
LEMMA SpentUpTo ==
  ASSUME NEW f \in [Times -> Nat], NEW s \in Times, NEW m \in Times, NEW t \in Times,
         s <= m, m <= t, \A u \in Times : m < u => f[u] = 0
  PROVE  Spent(f, s, t) = Spent(f, s, m)
<1> DEFINE S == s .. t
           W == s .. m
<1>1. /\ S \in SUBSET Times /\ W \in SUBSET S /\ IsFiniteSet(S) /\ IsFiniteSet(S \ W)
      /\ \A u \in S : f[u] \in Int
      /\ \A u \in S \ W : f[u] = 0
  <2>1. S \in SUBSET Times
    BY UtilitiesAssumption DEF Times
  <2>2. W \in SUBSET S
    BY TimesFinite
  <2>3. \A u \in S \ W : u \in Times /\ m < u
    BY <2>1, TimesFinite
  <2>4. QED
    BY <2>1, <2>2, <2>3, TimesFinite
<1>2. Spent(f, s, t) = SumFunctionOnSet(f, S) /\ Spent(f, s, m) = SumFunctionOnSet(f, W)
  BY DEF Spent
<1>3. Spent(f, s, m) \in Nat
  BY SpentType
<1> HIDE DEF S, W
<1>4. SumFunctionOnSet(f, S) = SumFunctionOnSet(f, W) + SumFunctionOnSet(f, S \ W)
  BY <1>1, SumOfParts
<1>5. SumFunctionOnSet(f, S \ W) = 0
  BY <1>1, SumOfZeros
<1>6. QED
  BY <1>2, <1>3, <1>4, <1>5

(* One tick's consumption grows.                                           *)
LEMMA SpentMore ==
  ASSUME NEW f \in [Times -> Nat], NEW g \in [Times -> Nat], NEW n \in Nat,
         NEW s \in Times, NEW now \in Times, s <= now, g[now] = f[now] + n,
         \A u \in Times \ {now} : g[u] = f[u]
  PROVE  Spent(g, s, now) = Spent(f, s, now) + n
<1> DEFINE S == s .. now
<1>1. /\ S \in SUBSET Times /\ IsFiniteSet(S) /\ now \in S
      /\ \A u \in S : f[u] \in Int /\ g[u] \in Int
      /\ \A u \in S \ {now} : f[u] = g[u]
  <2>1. S \in SUBSET Times /\ now \in S
    BY UtilitiesAssumption DEF Times
  <2>2. QED
    BY <2>1, TimesFinite
<1>2. Spent(f, s, now) = SumFunctionOnSet(f, S) /\ Spent(g, s, now) = SumFunctionOnSet(g, S)
  BY DEF Spent
<1>3. Spent(f, s, now) \in Nat
  BY SpentType
<1> HIDE DEF S
<1>4. SumFunctionOnSet(g, S) = SumFunctionOnSet(f, S) - f[now] + g[now]
  BY <1>1, SumOfChanged
<1>5. QED
  BY <1>2, <1>3, <1>4

LEMMA MinOfTwo ==
  ASSUME NEW a \in Int, NEW b \in Int
  PROVE  /\ Bucket!Min({a, b}) \in {a, b}
         /\ Bucket!Min({a, b}) <= a /\ Bucket!Min({a, b}) <= b
<1>1. \E x \in {a, b} : \A y \in {a, b} : x <= y
  OBVIOUS
<1>2. QED
  BY <1>1 DEF Bucket!Min

LEMMA Refilled ==
  ASSUME clock \in Times, BucketInv
  PROVE  /\ Bucket!refilled \in 0 .. capacity
         /\ Bucket!refilled <= tokens + (clock - lastRefill) * refillRate
<1> DEFINE more == (clock - lastRefill) * refillRate
<1>1. /\ clock \in Nat /\ lastRefill \in Nat /\ lastRefill <= clock
      /\ tokens \in Nat
  BY TimesFinite, UtilitiesAssumption DEF BucketInv
<1>2. capacity \in Nat /\ more \in Nat
  <2>1. \A s, m, t \in Nat : s <= m /\ m <= t =>
          capacity \in Nat /\ (t - m) * refillRate \in Nat
    BY AllowanceGrows
  <2>2. lastRefill <= lastRefill
    BY <1>1
  <2>3. QED
    BY <1>1, <2>1, <2>2
<1>3. Bucket!refilled = Bucket!Min({capacity, tokens + more})
  BY DEF Bucket!refilled
<1> HIDE DEF more
<1>4. Bucket!refilled \in 0 .. capacity /\ Bucket!refilled <= tokens + more
  <2> DEFINE a == capacity
             b == tokens + more
  <2>1. a \in Nat /\ b \in Nat
    BY <1>1, <1>2
  <2> HIDE DEF a, b
  <2>2. /\ Bucket!Min({a, b}) \in {a, b}
        /\ Bucket!Min({a, b}) <= a /\ Bucket!Min({a, b}) <= b
    BY <2>1, MinOfTwo
  <2>3. Bucket!refilled = Bucket!Min({a, b})
    BY <1>3 DEF a, b
  <2>4. Bucket!refilled \in 0 .. a /\ Bucket!refilled <= b
    BY <2>1, <2>2, <2>3
  <2>5. QED
    BY <2>4 DEF a, b
<1>5. QED
  BY <1>4 DEF more

(* The bucket is brought up to date and n of its tokens are taken.         *)
LEMMA TakeKeepsBucket ==
  ASSUME clock \in Times, BucketInv, NEW n \in 0 .. Bucket!refilled,
         tokens' = Bucket!refilled - n, lastRefill' = clock, clock' = clock,
         consumed' \in [Times -> Nat], consumed'[clock] = consumed[clock] + n,
         \A u \in Times \ {clock} : consumed'[u] = consumed[u]
  PROVE  BucketInv'
<1> DEFINE r == Bucket!refilled
           more == (clock - lastRefill) * refillRate
<1>1. /\ clock \in Nat /\ lastRefill \in Nat /\ lastRefill <= clock /\ lastRefill \in Times
      /\ tokens \in Nat /\ r \in Nat /\ n \in Nat /\ n <= r /\ r <= capacity
      /\ r <= tokens + more /\ capacity \in Nat
  BY TimesFinite, UtilitiesAssumption, Refilled DEF BucketInv
<1>2. consumed \in [Times -> Nat] /\ \A u \in Times : lastRefill < u => consumed[u] = 0
  BY DEF BucketInv
<1>3. PICK g : g = consumed'
  OBVIOUS
<1>4. /\ g \in [Times -> Nat] /\ g[clock] = consumed[clock] + n
      /\ \A u \in Times \ {clock} : g[u] = consumed[u]
      /\ \A u \in Times : clock < u => g[u] = 0
  BY <1>1, <1>2, <1>3, TimesFinite
<1>5. tokens' = r - n
  OBVIOUS
<1> HIDE DEF r
<1>6. ASSUME NEW s \in Times, s <= clock
      PROVE  /\ Spent(g, s, clock) + (r - n) <= Allowance(s, clock)
             /\ Spent(g, s, clock) \in Nat
  <2>1. Spent(g, s, clock) = Spent(consumed, s, clock) + n /\ Spent(g, s, clock) \in Nat
    <3>1. Spent(g, s, clock) = Spent(consumed, s, clock) + n
      BY <1>1, <1>2, <1>4, <1>6, SpentMore
    <3>2. Spent(g, s, clock) \in Nat
      BY <1>4, SpentType
    <3>3. QED
      BY <3>1, <3>2
  <2>2. s \in Nat
    BY TimesFinite
  <2>3. CASE s <= lastRefill
    <3>1. Spent(consumed, s, clock) = Spent(consumed, s, lastRefill)
      BY <1>1, <1>2, <2>3, SpentUpTo
    <3>2. Spent(consumed, s, lastRefill) + tokens <= Allowance(s, lastRefill)
      BY <2>3 DEF BucketInv
    <3>3. /\ more \in Nat /\ Allowance(s, lastRefill) \in Nat
          /\ Allowance(s, clock) = Allowance(s, lastRefill) + more
      BY <1>1, <2>2, <2>3, AllowanceGrows
    <3>4. Spent(consumed, s, lastRefill) \in Nat
      BY <1>1, <1>2, SpentType
    <3> HIDE DEF more
    <3>5. QED
      BY <1>1, <2>1, <3>1, <3>2, <3>3, <3>4 DEF more
  <2>4. CASE lastRefill < s
    <3>1. \A u \in s .. clock : consumed[u] = 0
      <4>1. s .. clock \in SUBSET Times
        BY UtilitiesAssumption DEF Times
      <4>2. QED
        BY <1>1, <1>2, <2>2, <2>4, <4>1, TimesFinite
    <3>2. Spent(consumed, s, clock) = 0
      BY <3>1, SpentNothing
    <3>3. capacity <= Allowance(s, clock) /\ Allowance(s, clock) \in Nat
      BY <1>1, <1>6, <2>2, AllowanceGrows
    <3>4. QED
      BY <1>1, <2>1, <3>2, <3>3
  <2>5. QED
    BY <1>1, <2>2, <2>3, <2>4
<1>7. ASSUME NEW s \in Times, NEW t \in Times, s <= t
      PROVE  Spent(g, s, t) <= Allowance(s, t)
  <2>1. s \in Nat /\ t \in Nat
    BY TimesFinite
  <2>2. CASE t < clock
    <3>1. \A u \in s .. t : g[u] = consumed[u]
      <4>1. s .. t \in SUBSET Times
        BY UtilitiesAssumption DEF Times
      <4>2. QED
        BY <1>1, <1>4, <2>1, <2>2, <4>1, TimesFinite
    <3>2. Spent(g, s, t) = Spent(consumed, s, t)
      BY <3>1, SpentSame
    <3>3. QED
      BY <1>7, <3>2 DEF BucketInv, Bursts
  <2>3. CASE clock <= t /\ s <= clock
    <3>1. Spent(g, s, t) = Spent(g, s, clock)
      BY <1>4, <2>3, SpentUpTo
    <3>2. Spent(g, s, clock) + (r - n) <= Allowance(s, clock) /\ Spent(g, s, clock) \in Nat
      BY <1>6, <2>3
    <3>3. /\ Allowance(s, clock) \in Nat /\ Allowance(s, t) \in Nat
          /\ Allowance(s, clock) <= Allowance(s, t)
      <4> DEFINE k == (t - clock) * refillRate
      <4>1. /\ Allowance(s, clock) \in Nat /\ Allowance(s, t) \in Nat
            /\ k \in Nat /\ Allowance(s, t) = Allowance(s, clock) + k
        BY <1>1, <2>1, <2>3, AllowanceGrows
      <4> HIDE DEF k
      <4>2. QED
        BY <4>1
    <3>4. QED
      BY <1>1, <3>1, <3>2, <3>3
  <2>4. CASE clock < s
    <3>1. \A u \in s .. t : g[u] = 0
      <4>1. s .. t \in SUBSET Times
        BY UtilitiesAssumption DEF Times
      <4>2. QED
        BY <1>1, <1>4, <2>1, <2>4, <4>1, TimesFinite
    <3>2. Spent(g, s, t) = 0
      BY <3>1, SpentNothing
    <3>3. capacity <= Allowance(s, t) /\ Allowance(s, t) \in Nat
      BY <1>7, <2>1, AllowanceGrows
    <3>4. QED
      BY <1>1, <3>2, <3>3
  <2>5. QED
    BY <1>1, <2>1, <2>2, <2>3, <2>4
<1>8. Bursts'
  BY <1>3, <1>7 DEF Bursts, Spent, Allowance
<1>9. \A s \in Times : s <= lastRefill' =>
        Spent(consumed', s, lastRefill') + tokens' <= Allowance(s, lastRefill')
  BY <1>3, <1>5, <1>6 DEF Spent, Allowance
<1>10. tokens' \in 0 .. capacity
  BY <1>1, <1>5
<1>11. lastRefill' \in Times /\ lastRefill' <= clock'
  BY <1>1
<1>12. \A u \in Times : lastRefill' < u => consumed'[u] = 0
  BY <1>3, <1>4
<1>13. QED
  BY <1>8, <1>9, <1>10, <1>11, <1>12 DEF BucketInv, Spent, Allowance

LEMMA BucketStill ==
  ASSUME clock \in Nat, clock' \in Nat, clock <= clock', BucketInv, UNCHANGED bucketVars
  PROVE  BucketInv'
<1>1. UNCHANGED <<tokens, lastRefill, consumed>>
  BY DEF bucketVars
<1>2. Bursts'
  BY <1>1 DEF BucketInv, Bursts, Spent, Allowance
<1>3. lastRefill \in Nat
  BY TimesFinite DEF BucketInv
<1>4. lastRefill' <= clock'
  BY <1>1, <1>3 DEF BucketInv
<1>5. QED
  BY <1>1, <1>2, <1>4 DEF BucketInv, Spent, Allowance

LEMMA BucketStep ==
  ASSUME clock \in Times, BucketInv, Bucket!Next
  PROVE  BucketInv'
<1>1. Bucket!refilled \in Nat /\ consumed \in [Times -> Nat] /\ clock \in Nat
  BY Refilled, TimesFinite, UtilitiesAssumption DEF BucketInv
<1>2. ASSUME NEW n \in Costs, Bucket!tryConsume(n)
      PROVE  BucketInv'
  <2> DEFINE taken == IF Bucket!refilled >= n THEN n ELSE 0
  <2>1. n \in Nat
    BY UtilitiesAssumption
  <2>2. taken \in 0 .. Bucket!refilled
    BY <1>1, <2>1
  <2>3. /\ tokens' = Bucket!refilled - taken
        /\ lastRefill' = clock /\ clock' = clock
        /\ consumed' = [consumed EXCEPT ![clock] = consumed[clock] + taken]
    BY <1>1, <1>2, <2>1 DEF Bucket!tryConsume
  <2> HIDE DEF taken
  <2>4. /\ consumed' \in [Times -> Nat] /\ consumed'[clock] = consumed[clock] + taken
        /\ \A u \in Times \ {clock} : consumed'[u] = consumed[u]
    BY <1>1, <2>2, <2>3
  <2>5. QED
    BY <2>2, <2>3, <2>4, TakeKeepsBucket
<1>3. CASE Bucket!getAvailableTokens
  <2>1. /\ tokens' = Bucket!refilled - 0 /\ lastRefill' = clock
        /\ clock' = clock /\ consumed' = consumed
    BY <1>1, <1>3 DEF Bucket!getAvailableTokens
  <2>2. /\ 0 \in 0 .. Bucket!refilled
        /\ consumed' \in [Times -> Nat] /\ consumed'[clock] = consumed[clock] + 0
        /\ \A u \in Times \ {clock} : consumed'[u] = consumed[u]
    BY <1>1, <2>1
  <2>3. QED
    BY <2>1, <2>2, TakeKeepsBucket
<1>4. CASE Bucket!Tick
  <2>1. clock' = clock + 1 /\ UNCHANGED bucketVars
    BY <1>4 DEF Bucket!Tick, bucketVars
  <2>2. QED
    BY <1>1, <2>1, BucketStill
<1>5. QED
  BY <1>2, <1>3, <1>4 DEF Bucket!Next

-----------------------------------------------------------------------------
(* All of them together.                                                   *)

UInv ==
  /\ clock \in Times
  /\ LocksInv /\ TaskingInv /\ StoredInv /\ WindowInv /\ BucketInv

LEMMA InitUInv == Init => UInv
<1> SUFFICES ASSUME Init PROVE UInv
  OBVIOUS
<1>0. MaxClock \in Nat /\ capacity \in Nat /\ maxRequests \in Nat
  BY UtilitiesAssumption
<1>1. clock = 0 /\ clock \in Times
  BY <1>0 DEF Init, Locks!Init, Times
<1>2. LocksInv
  BY DEF Init, Locks!Init, LocksInv, Holds
<1>3. TaskingInv
  BY DEF Init, Tasking!Init, TaskingInv, Serves,
     FailureIsNotCached, Tasking!FailureIsNotCached
<1>4. StoredInv
  BY DEF Init, Stored!Init, StoredInv, InTime
<1>5. WindowInv
  <2>1. hits = [t \in Times |-> 0] /\ allowed = [t \in Times |-> 0]
    BY DEF Init, Window!Init, Window!Times, Times
  <2>2. Windows
    BY <2>1, NoSumsAreBounded DEF Windows
  <2>3. QED
    BY <2>1, <2>2 DEF WindowInv
<1>6. BucketInv
  <2>1. /\ tokens = capacity /\ lastRefill = 0 /\ lastRefill \in Times
        /\ consumed = [t \in Times |-> 0]
    BY <1>0 DEF Init, Bucket!Init, Bucket!Times, Times
  <2>2. ASSUME NEW s \in Times, NEW t \in Times, s <= t
        PROVE  /\ Spent(consumed, s, t) = 0
               /\ capacity <= Allowance(s, t) /\ Allowance(s, t) \in Nat
    <3>1. Spent(consumed, s, t) = 0
      <4>1. s .. t \in SUBSET Times
        BY UtilitiesAssumption DEF Times
      <4>2. \A u \in s .. t : consumed[u] = 0
        BY <2>1, <4>1
      <4> QED
        BY <4>2, SpentNothing
    <3>2. s \in Nat /\ t \in Nat /\ t <= t
      BY TimesFinite
    <3>3. capacity <= Allowance(s, t) /\ Allowance(s, t) \in Nat
      BY <2>2, <3>2, AllowanceGrows
    <3>4. QED
      BY <3>1, <3>3
  <2>3. Bursts
    <3>1. ASSUME NEW s \in Times, NEW t \in Times, s <= t
          PROVE  Spent(consumed, s, t) <= Allowance(s, t)
      BY <1>0, <2>2, <3>1
    <3>2. QED
      BY <3>1 DEF Bursts
  <2>4. \A s \in Times : s <= lastRefill =>
          Spent(consumed, s, lastRefill) + tokens <= Allowance(s, lastRefill)
    <3>1. ASSUME NEW s \in Times, s <= lastRefill
          PROVE  Spent(consumed, s, lastRefill) + tokens <= Allowance(s, lastRefill)
      <4>1. /\ Spent(consumed, s, lastRefill) = 0
            /\ capacity <= Allowance(s, lastRefill)
        BY <2>1, <2>2, <3>1
      <4>2. QED
        BY <1>0, <2>1, <4>1
    <3>2. QED
      BY <3>1
  <2>5. tokens \in 0 .. capacity /\ lastRefill <= clock
    BY <1>0, <1>1, <2>1
  <2>6. QED
    BY <2>1, <2>3, <2>4, <2>5 DEF BucketInv
<1>7. QED
  BY <1>1, <1>2, <1>3, <1>4, <1>5, <1>6 DEF UInv

LEMMA ClockRuns ==
  ASSUME clock \in Times,
         \/ Locks!Next \/ Tasking!Next \/ Stored!Next \/ Window!Next \/ Bucket!Next
  PROVE  clock' \in Times /\ clock \in Nat /\ clock' \in Nat /\ clock <= clock'
<1>1. clock' = clock \/ (clock < MaxClock /\ clock' = clock + 1)
  <2>1. CASE Locks!Next
    BY <2>1 DEF Locks!Next, Locks!acquireLock, Locks!LeaveSection, Locks!isLocked,
       Locks!reset, Locks!Tick
  <2>2. CASE Tasking!Next
    BY <2>2 DEF Tasking!Next, Tasking!execute, Tasking!Resume, Tasking!Fulfil,
       Tasking!Reject, Tasking!clear, Tasking!Tick
  <2>3. CASE Stored!Next
    BY <2>3 DEF Stored!Next, Stored!begin, Stored!complete, Stored!remove,
       Stored!Restart, Stored!Tick
  <2>4. CASE Window!Next
    BY <2>4 DEF Window!Next, Window!check, Window!reset, Window!Tick
  <2>5. CASE Bucket!Next
    BY <2>5 DEF Bucket!Next, Bucket!tryConsume, Bucket!getAvailableTokens, Bucket!Tick
  <2>6. QED
    BY <2>1, <2>2, <2>3, <2>4, <2>5
<1>2. clock \in Nat /\ MaxClock \in Nat
  BY TimesFinite, UtilitiesAssumption
<1>3. QED
  BY <1>1, <1>2 DEF Times

LEMMA StepKeepsUInv == UInv /\ [Next]_vars => UInv'
<1> SUFFICES ASSUME UInv, [Next]_vars PROVE UInv'
  OBVIOUS
<1>0. /\ clock \in Times /\ clock \in Nat /\ clock <= clock
      /\ LocksInv /\ TaskingInv /\ StoredInv /\ WindowInv /\ BucketInv
  BY TimesFinite DEF UInv
<1>1. CASE Locks!Next /\ UNCHANGED <<taskingVars, storedVars, windowVars, bucketVars>>
  <2>1. clock' \in Times /\ clock' \in Nat /\ clock <= clock'
    BY <1>0, <1>1, ClockRuns
  <2>2. LocksInv' /\ TaskingInv'
    BY <1>0, <1>1, <2>1, LocksStep, TaskingStill
  <2>3. StoredInv' /\ WindowInv' /\ BucketInv'
    BY <1>0, <1>1, <2>1, StoredStill, WindowStill, BucketStill
  <2>4. QED
    BY <2>1, <2>2, <2>3 DEF UInv
<1>2. CASE Tasking!Next /\ UNCHANGED <<locksVars, storedVars, windowVars, bucketVars>>
  <2>1. clock' \in Times /\ clock' \in Nat /\ clock <= clock'
    BY <1>0, <1>2, ClockRuns
  <2>2. LocksInv' /\ TaskingInv'
    BY <1>0, <1>2, <2>1, LocksStill, TaskingStep
  <2>3. StoredInv' /\ WindowInv' /\ BucketInv'
    BY <1>0, <1>2, <2>1, StoredStill, WindowStill, BucketStill
  <2>4. QED
    BY <2>1, <2>2, <2>3 DEF UInv
<1>3. CASE Stored!Next /\ UNCHANGED <<locksVars, taskingVars, windowVars, bucketVars>>
  <2>1. clock' \in Times /\ clock' \in Nat /\ clock <= clock'
    BY <1>0, <1>3, ClockRuns
  <2>2. LocksInv' /\ TaskingInv'
    BY <1>0, <1>3, <2>1, LocksStill, TaskingStill
  <2>3. StoredInv' /\ WindowInv' /\ BucketInv'
    BY <1>0, <1>3, <2>1, StoredStep, WindowStill, BucketStill
  <2>4. QED
    BY <2>1, <2>2, <2>3 DEF UInv
<1>4. CASE Window!Next /\ UNCHANGED <<locksVars, taskingVars, storedVars, bucketVars>>
  <2>1. clock' \in Times /\ clock' \in Nat /\ clock <= clock'
    BY <1>0, <1>4, ClockRuns
  <2>2. LocksInv' /\ TaskingInv'
    BY <1>0, <1>4, <2>1, LocksStill, TaskingStill
  <2>3. StoredInv' /\ WindowInv' /\ BucketInv'
    BY <1>0, <1>4, <2>1, StoredStill, WindowStep, BucketStill
  <2>4. QED
    BY <2>1, <2>2, <2>3 DEF UInv
<1>5. CASE Bucket!Next /\ UNCHANGED <<locksVars, taskingVars, storedVars, windowVars>>
  <2>1. clock' \in Times /\ clock' \in Nat /\ clock <= clock'
    BY <1>0, <1>5, ClockRuns
  <2>2. LocksInv' /\ TaskingInv'
    BY <1>0, <1>5, <2>1, LocksStill, TaskingStill
  <2>3. StoredInv' /\ WindowInv' /\ BucketInv'
    BY <1>0, <1>5, <2>1, StoredStill, WindowStill, BucketStep
  <2>4. QED
    BY <2>1, <2>2, <2>3 DEF UInv
<1>6. CASE UNCHANGED vars
  <2>1. /\ clock' = clock
        /\ UNCHANGED <<locksVars, taskingVars, storedVars, windowVars, bucketVars>>
    BY <1>6 DEF vars
  <2>2. LocksInv' /\ TaskingInv'
    BY <1>0, <2>1, LocksStill, TaskingStill
  <2>3. StoredInv' /\ WindowInv' /\ BucketInv'
    BY <1>0, <2>1, StoredStill, WindowStill, BucketStill
  <2>4. QED
    BY <1>0, <2>1, <2>2, <2>3 DEF UInv
<1>7. QED
  BY <1>1, <1>2, <1>3, <1>4, <1>5, <1>6 DEF Next

-----------------------------------------------------------------------------
(* LeaseIsExclusive, for any callers, keys and lifetimes: two callers that *)
(* run under one key and are both in time would both own its lock.         *)
THEOREM LeasesAreExclusive == Spec => []LeaseIsExclusive
<1>1. UInv => LeaseIsExclusive
  <2> SUFFICES ASSUME UInv, NEW c \in Callers, NEW d \in Callers,
                      c # d, section[c] # None, section[c] = section[d],
                      ~ (lease[c] <= clock), ~ (lease[d] <= clock)
               PROVE  FALSE
    BY DEF LeaseIsExclusive, Locks!LeaseIsExclusive
  <2>1. clock \in Nat /\ lease[c] \in Nat /\ lease[d] \in Nat
    BY TimesFinite DEF UInv, LocksInv
  <2>2. Holds(c) /\ Holds(d)
    BY <2>1 DEF Holds
  <2>3. QED
    BY <2>2 DEF UInv, LocksInv
<1>2. QED
  BY <1>1, InitUInv, StepKeepsUInv, PTL DEF Spec

(* FailureIsNotCached: the failure of a task, however late, leaves no      *)
(* entry behind.                                                           *)
THEOREM FailuresAreForgotten == Spec => []FailureIsNotCached
<1>1. UInv => FailureIsNotCached
  BY DEF UInv, TaskingInv
<1>2. QED
  BY <1>1, InitUInv, StepKeepsUInv, PTL DEF Spec

(* FreshTaskIsShared: the entry is that of the task in time.               *)
THEOREM FreshTasksAreShared == Spec => []FreshTaskIsShared
<1>1. UInv => FreshTaskIsShared
  BY DEF UInv, TaskingInv, Serves, FreshTaskIsShared, Tasking!FreshTaskIsShared
<1>2. QED
  BY <1>1, InitUInv, StepKeepsUInv, PTL DEF Spec

(* InFlightIsKept: no two handlers in time at once, so none overwrites the *)
(* other's entry.                                                          *)
THEOREM KeysStayInFlight == Spec => []InFlightIsKept
<1>1. UInv => InFlightIsKept
  BY DEF UInv, StoredInv, InTime, InFlightIsKept, Stored!InFlightIsKept
<1>2. QED
  BY <1>1, InitUInv, StepKeepsUInv, PTL DEF Spec

(* RateIsBounded, for any window, capacity, rate and calls: what has left  *)
(* the list of timestamps has left every window that may still grow, and   *)
(* the tokens left are what is still covered.                              *)
THEOREM RatesAreBounded == Spec => []RateIsBounded
<1>1. UInv => RateIsBounded
  BY WindowsAreBounded, BurstsAreBounded DEF UInv, WindowInv, BucketInv, RateIsBounded
<1>2. QED
  BY <1>1, InitUInv, StepKeepsUInv, PTL DEF Spec
=============================================================================
