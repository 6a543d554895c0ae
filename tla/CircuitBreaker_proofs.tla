------------------------ MODULE CircuitBreaker_proofs ------------------------
(***************************************************************************)
(* What the breaker guarantees for any number of callers and attempts, any *)
(* threshold, and any timeout shorter than the cooldown.                   *)
(*                                                                         *)
(* The four state properties are inductive together and not one by one:    *)
(* that a probe finds no older call in flight (ProbesDecide) follows from  *)
(* the age QuietWhileOpen gives every call in flight at the moment the     *)
(* cooldown is over, and from no call outliving its timeout (TypeOK).      *)
(***************************************************************************)
EXTENDS CircuitBreaker, TLAPS

IInv == TypeOK /\ ClosedIsHealthy /\ ProbesDecide /\ QuietWhileOpen

CallType == [pc : {"idle", "calling", "inflight", "sleeping"},
             attempt : 1 .. maxAttempts, age : 0 .. timeout]

(* Upto keeps a counter in its range. *)
LEMMA UptoType ==
  ASSUME NEW n \in Nat, NEW bound \in Nat
  PROVE  Upto(n, bound) \in 0 .. bound
BY DEF Upto

(* What a caller's record becomes when it moves on is of its type.         *)
LEMMA CallTypes ==
  ASSUME NEW where \in {"idle", "calling", "inflight", "sleeping"},
         NEW n \in 1 .. maxAttempts
  PROVE  At(where, n) \in CallType /\ At(where, n).pc = where
<1>1. 0 \in 0 .. timeout
  BY BreakerAssumption
<1>2. QED
  BY <1>1 DEF At, CallType

(* The breaker starts CLOSED with nothing in flight. *)
LEMMA InitIInv == Init => IInv
<1> SUFFICES ASSUME Init PROVE IInv
  OBVIOUS
<1>1. TypeOK
  <2>1. 1 \in 1 .. maxAttempts
    BY BreakerAssumption
  <2>2. QED
    BY <2>1, BreakerAssumption, CallTypes DEF Init, TypeOK, NoCall, CallType
<1>2. ClosedIsHealthy /\ ProbesDecide /\ QuietWhileOpen
  BY BreakerAssumption DEF Init, ClosedIsHealthy, ProbesDecide, QuietWhileOpen
<1>3. QED
  BY <1>1, <1>2 DEF IInv

(* A step that touches neither the breaker nor what is in flight.          *)
LEMMA LocalSteps ==
  ASSUME IInv, NEW c \in Callers, Invoke(c) \/ FailFast(c) \/ Wake(c)
  PROVE  IInv'
<1> USE BreakerAssumption
<1>1. /\ call[c] \in CallType
      /\ call \in [Callers -> CallType]
  BY DEF IInv, TypeOK, CallType
<1>2. PICK where \in {"idle", "calling", "sleeping"}, n \in 1 .. maxAttempts :
        call' = [call EXCEPT ![c] = At(where, n)]
  <2>1. 1 \in 1 .. maxAttempts /\ call[c].attempt \in 1 .. maxAttempts
    BY <1>1 DEF CallType
  <2>2. QED
    BY <2>1 DEF Invoke, Wake, FailFast, ReturnNull, NoCall
<1>3. UNCHANGED <<breaker, up, probes>>
  BY DEF Invoke, FailFast, Wake
<1>5. TypeOK'
  BY <1>1, <1>2, <1>3, CallTypes DEF IInv, TypeOK, CallType, breaker
<1>6. InFlight' \subseteq InFlight /\ \A d \in InFlight' : call'[d] = call[d]
  BY <1>1, <1>2, CallTypes DEF InFlight
<1>7. QED
  BY <1>3, <1>5, <1>6
     DEF IInv, breaker, ClosedIsHealthy, ProbesDecide, QuietWhileOpen

(* A try is let through.  If it is the first probe, whatever was in flight *)
(* would be as old as the cooldown, and no call gets that old.             *)
LEMMA AdmitKeepsIInv ==
  ASSUME IInv, NEW c \in Callers, Admit(c)
  PROVE  IInv'
<1> USE BreakerAssumption
<1>1. call \in [Callers -> CallType]
  BY DEF IInv, TypeOK, CallType
<1>2. At("inflight", call[c].attempt) \in CallType
      /\ At("inflight", call[c].attempt).pc = "inflight"
  BY <1>1, CallTypes DEF CallType
<1>3. call' = [call EXCEPT ![c] = At("inflight", call[c].attempt)]
  BY DEF Admit
<1>4. TypeOK'
  BY <1>1, <1>2, <1>3 DEF Admit, IInv, TypeOK, CallType
<1>5. InFlight' = InFlight \cup {c}
  BY <1>1, <1>2, <1>3 DEF InFlight
<1>6. state = "OPEN" => InFlight = {}
  <2>1. SUFFICES ASSUME state = "OPEN", NEW d \in InFlight PROVE FALSE
    OBVIOUS
  <2>2. remaining = 0 /\ cooldown - remaining <= call[d].age
    BY <2>1 DEF Admit, IInv, QuietWhileOpen
  <2>3. call[d].age \in 0 .. timeout
    BY <1>1 DEF InFlight, CallType
  <2>4. QED
    BY <2>2, <2>3
<1>7. state' # "OPEN" /\ (state' = "CLOSED" <=> state = "CLOSED")
  BY DEF Admit, IInv, TypeOK
<1>8. ProbesDecide'
  BY <1>5, <1>6, <1>7 DEF Admit, IInv, ProbesDecide, TypeOK
<1>9. QED
  BY <1>4, <1>7, <1>8 DEF IInv, Admit, ClosedIsHealthy, QuietWhileOpen

(* A try succeeds. *)
LEMMA SucceedKeepsIInv ==
  ASSUME IInv, NEW c \in Callers, Succeed(c)
  PROVE  IInv'
<1> USE BreakerAssumption
<1>1. call \in [Callers -> CallType]
  BY DEF IInv, TypeOK, CallType
<1>2. NoCall \in CallType /\ NoCall.pc # "inflight"
  <2>1. 1 \in 1 .. maxAttempts
    OBVIOUS
  <2>2. QED
    BY <2>1, CallTypes DEF NoCall
<1>3. call' = [call EXCEPT ![c] = NoCall]
  BY DEF Succeed
<1>4. TypeOK'
  BY <1>1, <1>2, <1>3 DEF Succeed, _onSuccess, IInv, TypeOK, CallType
<1>5. InFlight' = InFlight \ {c} /\ \A d \in InFlight' : call'[d] = call[d]
  BY <1>1, <1>2, <1>3 DEF InFlight
<1>6. ClosedIsHealthy'
  BY DEF Succeed, _onSuccess, IInv, ClosedIsHealthy, TypeOK
<1>7. ProbesDecide'
  BY <1>5 DEF Succeed, _onSuccess, IInv, ProbesDecide, TypeOK
<1>8. QuietWhileOpen'
  BY <1>5 DEF Succeed, _onSuccess, IInv, QuietWhileOpen, TypeOK
<1>9. QED
  BY <1>4, <1>6, <1>7, <1>8 DEF IInv

(* A try fails: the breaker may open, and then its whole cooldown is ahead *)
(* of it.                                                                  *)
LEMMA FailKeepsIInv ==
  ASSUME IInv, NEW c \in Callers, NEW result \in Results, Fail(c, result)
  PROVE  IInv'
<1> USE BreakerAssumption
<1>1. call \in [Callers -> CallType] /\ failureCount \in 0 .. failureThreshold
  BY DEF IInv, TypeOK, CallType
<1>2. PICK where \in {"idle", "sleeping"}, n \in 1 .. maxAttempts :
        call' = [call EXCEPT ![c] = At(where, n)]
  <2>1. CASE result = "refused" \/ LastAttempt(c)
    <3>1. 1 \in 1 .. maxAttempts
      OBVIOUS
    <3>2. QED
      BY <2>1, <3>1 DEF Fail, ReturnNull, NoCall
  <2>2. CASE ~ (result = "refused" \/ LastAttempt(c))
    <3>1. call[c].attempt + 1 \in 1 .. maxAttempts
      BY <1>1, <2>2 DEF CallType, LastAttempt
    <3>2. QED
      BY <2>2, <3>1 DEF Fail
  <2>3. QED
    BY <2>1, <2>2
<1>4. failureCount' = Upto(failureCount + 1, failureThreshold)
  BY DEF Fail, _onFailure
<1>5. \/ state' = "OPEN" /\ remaining' = cooldown
      \/ /\ UNCHANGED <<state, remaining>>
         /\ state # "HALF_OPEN" /\ failureCount + 1 < failureThreshold
  BY <1>1 DEF Fail, _onFailure
<1>6. failureCount' \in 0 .. failureThreshold
  BY <1>1, <1>4, UptoType
<1>7. TypeOK'
  <2>1. call' \in [Callers -> CallType]
    BY <1>1, <1>2, CallTypes
  <2>2. probes' \subseteq Callers /\ up' \in BOOLEAN
    BY DEF Fail, IInv, TypeOK
  <2>3. state' \in {"CLOSED", "OPEN", "HALF_OPEN"} /\ remaining' \in 0 .. cooldown
    BY <1>5 DEF IInv, TypeOK
  <2>4. QED
    BY <1>6, <2>1, <2>2, <2>3 DEF TypeOK, CallType
<1>8. InFlight' = InFlight \ {c} /\ \A d \in InFlight' :
        call'[d] = call[d] /\ call[d].age \in 0 .. timeout
  <2>1. At(where, n).pc # "inflight"
    BY CallTypes
  <2>2. \A d \in Callers : call'[d] = IF d = c THEN At(where, n) ELSE call[d]
    BY <1>1, <1>2
  <2>3. \A d \in Callers : call[d].age \in 0 .. timeout
    BY <1>1 DEF CallType
  <2>4. QED
    BY <2>1, <2>2, <2>3 DEF InFlight
<1>9. ClosedIsHealthy'
  BY <1>1, <1>4, <1>5 DEF IInv, ClosedIsHealthy, Upto
<1>10. ProbesDecide'
  BY <1>5 DEF ProbesDecide
<1>11. QuietWhileOpen'
  BY <1>5, <1>8 DEF IInv, QuietWhileOpen
<1>12. QED
  BY <1>7, <1>9, <1>10, <1>11 DEF IInv

(* Time passes: the cooldown shortens by as much as the calls age.         *)
LEMMA TickKeepsIInv ==
  ASSUME IInv, Tick
  PROVE  IInv'
<1> USE BreakerAssumption
<1>1. call \in [Callers -> CallType]
  BY DEF IInv, TypeOK, CallType
<1>2. \A d \in Callers : call'[d] \in CallType /\ call'[d].pc = call[d].pc
  BY <1>1 DEF Tick, InFlight, CallType
<1>3. InFlight' = InFlight
  BY <1>2 DEF InFlight
<1>4. call' \in [Callers -> CallType]
  BY <1>2 DEF Tick
<1>5. remaining' \in 0 .. cooldown /\ remaining' >= remaining - 1
  BY DEF Tick, IInv, TypeOK
<1>6. TypeOK'
  BY <1>4, <1>5 DEF Tick, IInv, TypeOK, CallType
<1>7. ClosedIsHealthy' /\ ProbesDecide'
  BY <1>3 DEF Tick, IInv, ClosedIsHealthy, ProbesDecide
<1>8. QuietWhileOpen'
  <2>1. SUFFICES ASSUME state = "OPEN", NEW d \in InFlight
                 PROVE  cooldown - remaining' <= call'[d].age
    BY <1>3 DEF Tick, QuietWhileOpen
  <2>2. cooldown - remaining <= call[d].age
    BY <2>1 DEF IInv, QuietWhileOpen
  <2>3. call'[d].age = call[d].age + 1 /\ call[d].age \in 0 .. timeout
    BY <1>1 DEF Tick, InFlight, CallType
  <2>4. remaining \in 0 .. cooldown
    BY DEF IInv, TypeOK
  <2>5. QED
    BY <1>5, <2>2, <2>3, <2>4
<1>9. QED
  BY <1>6, <1>7, <1>8 DEF IInv

(* Every step of the specification keeps the invariant. *)
LEMMA StepKeepsIInv == IInv /\ [Next]_vars => IInv'
<1> SUFFICES ASSUME IInv, [Next]_vars PROVE IInv'
  OBVIOUS
<1>1. ASSUME NEW c \in Callers, Invoke(c) \/ Step(c) PROVE IInv'
  BY <1>1, LocalSteps, AdmitKeepsIInv, SucceedKeepsIInv, FailKeepsIInv DEF Step
<1>2. CASE Tick
  BY <1>2, TickKeepsIInv
<1>3. CASE Flip
  BY <1>3 DEF Flip, breaker, IInv, TypeOK, ClosedIsHealthy, ProbesDecide,
     QuietWhileOpen, InFlight
<1>4. CASE UNCHANGED vars
  BY <1>4 DEF vars, breaker, IInv, TypeOK, ClosedIsHealthy, ProbesDecide,
     QuietWhileOpen, InFlight
<1>5. QED
  BY <1>1, <1>2, <1>3, <1>4 DEF Next

(* The invariant holds throughout. *)
LEMMA Invariant == Spec => []IInv
BY InitIInv, StepKeepsIInv, PTL DEF Spec

(* Types and the range of the breaker's and the retries' counters. *)
THEOREM TypeCorrect == Spec => []TypeOK
<1>1. IInv => TypeOK
  BY DEF IInv
<1>2. QED
  BY <1>1, Invariant, PTL

(* A CLOSED breaker is below its threshold, with no cooldown running.      *)
THEOREM ClosedHealthy == Spec => []ClosedIsHealthy
<1>1. IInv => ClosedIsHealthy
  BY DEF IInv
<1>2. QED
  BY <1>1, Invariant, PTL

(* HALF_OPEN is decided by probes alone, for every timeout shorter than    *)
(* the cooldown.                                                           *)
THEOREM OnlyProbesDecide == Spec => []ProbesDecide
<1>1. IInv => ProbesDecide
  BY DEF IInv
<1>2. QED
  BY <1>1, Invariant, PTL

(* Nothing is sent while the breaker is OPEN.                              *)
THEOREM OpenIsQuiet == Spec => []QuietWhileOpen
<1>1. IInv => QuietWhileOpen
  BY DEF IInv
<1>2. QED
  BY <1>1, Invariant, PTL

(* OPEN ends by a probe after the cooldown and in no other way.            *)
THEOREM OpenIsLeftByProbe == Spec => OpenWaits
<1> DEFINE Waits == state = "OPEN" =>
                      /\ state' # "CLOSED"
                      /\ state' = "HALF_OPEN" => remaining = 0
                      /\ state' = "OPEN" => remaining' >= remaining - 1
<1>1. IInv /\ [Next]_vars => [Waits]_vars
  <2> SUFFICES ASSUME IInv, Next, state = "OPEN" PROVE Waits
    OBVIOUS
  <2> USE BreakerAssumption
  <2>1. remaining \in 0 .. cooldown
    BY DEF IInv, TypeOK
  <2>2. ASSUME NEW c \in Callers, Invoke(c) \/ Step(c) PROVE Waits
    BY <2>1, <2>2
       DEF Step, Invoke, Admit, FailFast, Succeed, Fail, Wake, breaker,
           _onSuccess, _onFailure
  <2>3. CASE Tick \/ Flip
    BY <2>1, <2>3 DEF Tick, Flip, breaker
  <2>4. QED
    BY <2>2, <2>3 DEF Next
<1>2. QED
  BY <1>1, Invariant, PTL DEF Spec, OpenWaits
=============================================================================
