--------------------------- MODULE CircuitBreaker ---------------------------
(***************************************************************************)
(* HcmService's calls to HCM: withRetry around the one CircuitBreaker that *)
(* all of them share (_callWithResilience).  Several calls are in flight   *)
(* at once and every answer moves the breaker, whatever it has become      *)
(* since that call was let through.                                        *)
(*                                                                         *)
(* Time is counted in ticks: the breaker holds how much of its cooldown    *)
(* remains, a call how long it has been in flight.  A timer fires when it  *)
(* is due: no tick passes over a call that has reached its timeout.  HCM   *)
(* is external: it is up or down, and answers accordingly.                 *)
(***************************************************************************)
EXTENDS Integers

CONSTANTS
  Callers,           \* HCM calls that may be under way together
  failureThreshold,  \* consecutive failures that open the breaker
  cooldown,          \* resetTimeoutMs, in ticks
  timeout,           \* the breaker's timeout, in ticks
  maxAttempts,       \* tries of withRetry
  Results            \* what a try can end in

ASSUME BreakerAssumption ==
  /\ failureThreshold \in Nat \ {0}
  /\ cooldown \in Nat /\ timeout \in Nat /\ timeout < cooldown
  /\ maxAttempts \in Nat \ {0}
  /\ Results \subseteq {"ok", "unavailable", "refused"}

VARIABLES
  state,         \* CLOSED, OPEN, HALF_OPEN
  failureCount,  \* failures since the last success, counted up to the threshold
  remaining,     \* ticks of cooldown left since openedAt
  call,          \* each caller's pc, attempt and, in flight, age
  up,            \* whether HCM answers
  probes         \* history: calls let through since the breaker turned HALF_OPEN

breaker == <<state, failureCount, remaining>>
vars == <<breaker, call, up, probes>>

Upto(n, bound) == IF n <= bound THEN n ELSE bound

(* A caller that has just come to a point of its loop, on its n-th attempt. *)
At(where, n) == [pc |-> where, attempt |-> n, age |-> 0]

NoCall == At("idle", 1)

InFlight == {c \in Callers : call[c].pc = "inflight"}

Init ==
  /\ state = "CLOSED"
  /\ failureCount = 0
  /\ remaining = 0
  /\ call = [c \in Callers |-> NoCall]
  /\ up = TRUE
  /\ probes = {}

-----------------------------------------------------------------------------
(* CircuitBreaker *)

\* Mutant: a success closes the breaker from any state.
_onSuccess_Always ==
  failureCount' = 0 /\ state' = "CLOSED" /\ remaining' = 0

\* Mutant: a success in HALF_OPEN is only counted.
_onSuccess_Counted ==
  failureCount' = 0 /\ UNCHANGED <<state, remaining>>

_onSuccess ==
  /\ failureCount' = 0
  /\ state' = IF state = "HALF_OPEN" THEN "CLOSED" ELSE state
  /\ remaining' = IF state = "HALF_OPEN" THEN 0 ELSE remaining

\* Mutant: it takes one failure too many.
_onFailure_OffByOne ==
  /\ failureCount' = Upto(failureCount + 1, failureThreshold)
  /\ IF state = "HALF_OPEN" \/ failureCount + 1 > failureThreshold
       THEN state' = "OPEN" /\ remaining' = cooldown
       ELSE UNCHANGED <<state, remaining>>

\* Mutant: openedAt is set only when the breaker was CLOSED.
_onFailure_OldClock ==
  /\ failureCount' = Upto(failureCount + 1, failureThreshold)
  /\ IF state = "HALF_OPEN" \/ failureCount + 1 >= failureThreshold
       THEN /\ state' = "OPEN"
            /\ remaining' = IF state = "CLOSED" THEN cooldown ELSE remaining
       ELSE UNCHANGED <<state, remaining>>

_onFailure ==
  /\ failureCount' = Upto(failureCount + 1, failureThreshold)
  /\ IF state = "HALF_OPEN" \/ failureCount + 1 >= failureThreshold
       THEN state' = "OPEN" /\ remaining' = cooldown
       ELSE UNCHANGED <<state, remaining>>

-----------------------------------------------------------------------------
(* _callWithResilience and withRetry *)

\* Mutant: the retry loop starts over instead of giving up.
ReturnNull_Never(c) == call' = [call EXCEPT ![c] = At("sleeping", 1)]

ReturnNull(c) == call' = [call EXCEPT ![c] = NoCall]

Invoke(c) ==
  /\ call[c].pc = "idle"
  /\ call' = [call EXCEPT ![c] = At("calling", 1)]
  /\ UNCHANGED <<breaker, up, probes>>

\* Mutant: the cooldown is not looked at.
Admit_Early(c) ==
  /\ call[c].pc = "calling"
  /\ state' = IF state = "OPEN" THEN "HALF_OPEN" ELSE state
  /\ call' = [call EXCEPT ![c] = At("inflight", call[c].attempt)]
  /\ probes' = IF state = "CLOSED" THEN probes ELSE probes \cup {c}
  /\ UNCHANGED <<failureCount, remaining, up>>

(* circuitBreaker.call lets the try through, from OPEN when the cooldown   *)
(* is over.                                                                *)
Admit(c) ==
  /\ call[c].pc = "calling"
  /\ state = "OPEN" => remaining = 0
  /\ state' = IF state = "OPEN" THEN "HALF_OPEN" ELSE state
  /\ call' = [call EXCEPT ![c] = At("inflight", call[c].attempt)]
  /\ probes' = IF state = "CLOSED" THEN probes ELSE probes \cup {c}
  /\ UNCHANGED <<failureCount, remaining, up>>

(* CIRCUIT_OPEN is not retried. *)
FailFast(c) ==
  /\ call[c].pc = "calling"
  /\ state = "OPEN" /\ remaining > 0
  /\ ReturnNull(c)
  /\ UNCHANGED <<breaker, up, probes>>

Succeed(c) ==
  /\ c \in InFlight
  /\ up /\ "ok" \in Results
  /\ _onSuccess
  /\ call' = [call EXCEPT ![c] = NoCall]
  /\ probes' = IF state = "HALF_OPEN" THEN {} ELSE probes \ {c}
  /\ UNCHANGED up

\* Mutant: one attempt too many.
LastAttempt_OffByOne(c) == call[c].attempt > maxAttempts

LastAttempt(c) == call[c].attempt = maxAttempts

(* isRetryable: 5xx, a timeout, 408 and 429 are; any other 4xx is not.     *)
Fail(c, result) ==
  /\ c \in InFlight
  /\ result \in Results \ {"ok"}
  /\ up <=> result = "refused"
  /\ _onFailure
  /\ probes' = IF state' = "OPEN" THEN {} ELSE probes \ {c}
  /\ IF result = "refused" \/ LastAttempt(c)
       THEN ReturnNull(c)
       ELSE call' = [call EXCEPT ![c] = At("sleeping", call[c].attempt + 1)]
  /\ UNCHANGED up

Wake(c) ==
  /\ call[c].pc = "sleeping"
  /\ call' = [call EXCEPT ![c] = At("calling", call[c].attempt)]
  /\ UNCHANGED <<breaker, up, probes>>

-----------------------------------------------------------------------------
Tick ==
  /\ \A c \in InFlight : call[c].age < timeout
  /\ remaining' = IF remaining > 0 THEN remaining - 1 ELSE 0
  /\ call' = [c \in Callers |->
       IF c \in InFlight THEN [call[c] EXCEPT !.age = @ + 1] ELSE call[c]]
  /\ UNCHANGED <<state, failureCount, up, probes>>

(* HCM goes down, or comes back. *)
Flip ==
  /\ "unavailable" \in Results
  /\ up' = ~ up
  /\ UNCHANGED <<breaker, call, probes>>

-----------------------------------------------------------------------------
Step(c) ==
  \/ Admit(c) \/ FailFast(c) \/ Succeed(c) \/ Wake(c)
  \/ \E result \in Results : Fail(c, result)

Next ==
  \/ \E c \in Callers : Invoke(c) \/ Step(c)
  \/ Tick
  \/ Flip

(* Every timer fires, time passes, and the cron jobs go on calling HCM.    *)
Fairness ==
  /\ \A c \in Callers : WF_vars(Invoke(c)) /\ WF_vars(Step(c))
  /\ WF_vars(Tick)

Spec == Init /\ [][Next]_vars
FairSpec == Spec /\ Fairness

-----------------------------------------------------------------------------
(* Types. *)
TypeOK ==
  /\ state \in {"CLOSED", "OPEN", "HALF_OPEN"}
  /\ failureCount \in 0 .. failureThreshold
  /\ remaining \in 0 .. cooldown
  /\ call \in [Callers -> [pc : {"idle", "calling", "inflight", "sleeping"},
                           attempt : 1 .. maxAttempts, age : 0 .. timeout]]
  /\ up \in BOOLEAN
  /\ probes \subseteq Callers

(* A CLOSED breaker has seen fewer consecutive failures than the threshold *)
(* and has no cooldown left over, whichever answers came late while it was *)
(* OPEN.                                                                   *)
ClosedIsHealthy ==
  state = "CLOSED" => failureCount < failureThreshold /\ remaining = 0

(* Only probes are in flight while the breaker is HALF_OPEN: an answer to  *)
(* a call made before it opened, or in an earlier HALF_OPEN period, never  *)
(* decides whether it closes.                                              *)
ProbesDecide == state = "HALF_OPEN" => InFlight \subseteq probes

(* While it is OPEN nothing is sent: a call in flight is at least as old   *)
(* as the opening, so the network is quiet once `timeout' has passed.      *)
QuietWhileOpen ==
  state = "OPEN" => \A c \in InFlight : cooldown - remaining <= call[c].age

(* OPEN is left only by a probe, when the cooldown is over: late successes *)
(* do not close the breaker, late failures do not shorten its cooldown.    *)
OpenWaits ==
  [][state = "OPEN" =>
       /\ state' # "CLOSED"
       /\ state' = "HALF_OPEN" => remaining = 0
       /\ state' = "OPEN" => remaining' >= remaining - 1]_vars

(* Every HCM call comes back to its caller, the breaker opening and        *)
(* closing under its retries.                                              *)
EveryCallReturns == \A c \in Callers : call[c].pc # "idle" ~> call[c].pc = "idle"

(* An HCM that stays up and goes on refusing nothing finds the breaker     *)
(* CLOSED for good: it does not stay OPEN or HALF_OPEN.                    *)
Recovers ==
  \/ []<>(~ up)
  \/ []<><<\E c \in Callers : Fail(c, "refused")>>_vars
  \/ <>[](state = "CLOSED")
=============================================================================
