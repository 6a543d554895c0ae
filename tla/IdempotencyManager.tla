------------------------- MODULE IdempotencyManager -------------------------
(***************************************************************************)
(* IdempotencyManager for one key, used as its interface asks: a caller    *)
(* told NEW handles the request and then completes the key, or removes it  *)
(* when it fails.  Neither complete nor remove says whose entry it means.  *)
(***************************************************************************)
EXTENDS Naturals

CONSTANTS
  Handlers,  \* concurrent requests that carry the key
  Payloads,  \* what they ask for
  None,      \* no entry, nothing in hand
  Ttl,       \* ttlMs in ticks
  MaxClock   \* bound: where the modelled clock stops

VARIABLES
  clock,      \* Date.now()
  _store,     \* the key's entry
  handling,   \* the payload a handler that was told NEW is working on
  due,        \* history: when the entry made for it expires
  disturbed   \* history: handlers whose entry another one may have hit

vars == <<clock, _store, handling, due, disturbed>>

Init ==
  /\ clock = 0
  /\ _store = None
  /\ handling = [h \in Handlers |-> None]
  /\ due = [h \in Handlers |-> 0]
  /\ disturbed = {}

\* Mutant: an entry is dropped a tick before it expires.
_cleanup_Early ==
  IF _store # None /\ _store.expiresAt <= clock + 1 THEN None ELSE _store

_cleanup ==
  IF _store # None /\ _store.expiresAt <= clock THEN None ELSE _store

(* begin, answered NEW.  Its other answers (IN_FLIGHT, the stored response *)
(* of a COMPLETED entry, the error for a key used with another payload)    *)
(* change nothing: what they tell is in the entry.                         *)
begin(h, p) ==
  /\ handling[h] = None
  /\ _cleanup = None
  /\ _store' = [state |-> "IN_FLIGHT", fingerprint |-> p,
                response |-> None, expiresAt |-> clock + Ttl]
  /\ handling' = [handling EXCEPT ![h] = p]
  /\ due' = [due EXCEPT ![h] = clock + Ttl]
  /\ disturbed' = disturbed \ {h}
  /\ UNCHANGED clock

(* The handlers whose entries h may hit when its own is gone: expired, or *)
(* hit itself.                                                             *)
Hit(h) ==
  IF due[h] <= clock \/ h \in disturbed
    THEN {g \in Handlers \ {h} : handling[g] # None} ELSE {}

(* The response is stored in whatever entry the key has.                   *)
complete(h) ==
  /\ handling[h] # None
  /\ _store' = IF _store = None THEN None
               ELSE [_store EXCEPT !.state = "COMPLETED", !.response = handling[h]]
  /\ handling' = [handling EXCEPT ![h] = None]
  /\ disturbed' = disturbed \cup Hit(h)
  /\ UNCHANGED <<clock, due>>

remove(h) ==
  /\ handling[h] # None
  /\ _store' = None
  /\ handling' = [handling EXCEPT ![h] = None]
  /\ disturbed' = disturbed \cup Hit(h)
  /\ UNCHANGED <<clock, due>>

Tick ==
  /\ clock < MaxClock
  /\ clock' = clock + 1
  /\ UNCHANGED <<_store, handling, due, disturbed>>

(* The process restarts: the store is memory.                              *)
Restart ==
  /\ _store' = None
  /\ handling' = [h \in Handlers |-> None]
  /\ due' = [h \in Handlers |-> 0]
  /\ disturbed' = {}
  /\ UNCHANGED clock

Next ==
  \/ \E h \in Handlers, p \in Payloads : begin(h, p)
  \/ \E h \in Handlers : complete(h) \/ remove(h)
  \/ Restart
  \/ Tick

Spec == Init /\ [][Next]_vars

-----------------------------------------------------------------------------
(* A request is handled once at a time: while its handler is within the    *)
(* ttl the key is IN_FLIGHT for its payload, whatever other callers do.    *)
(* Only complete and remove calls that come after their own entry expired, *)
(* or of handlers hit by such a call, may undo this.                       *)
InFlightIsKept ==
  \A h \in Handlers :
    handling[h] # None /\ clock < due[h] /\ h \notin disturbed =>
      /\ _store # None
      /\ _store.state = "IN_FLIGHT"
      /\ _store.fingerprint = handling[h]
=============================================================================
