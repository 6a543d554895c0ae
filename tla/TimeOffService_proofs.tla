----------------------- MODULE TimeOffService_proofs ------------------------
(***************************************************************************)
(* Proofs about TimeOffService, for every number of callers, keys, lanes,  *)
(* leave types and payloads.                                               *)
(*                                                                         *)
(* Three inductive invariants, each resting on the one before:             *)
(*   IInv   the types, and the agreement between the promise chains and    *)
(*          the callers.  The two go together because the release of a     *)
(*          lock is the tail of a chain, which is a chain only if it is    *)
(*          not empty.                                                     *)
(*   CInv   what is true of a call at each of its awaits: a caller in its  *)
(*          transaction loop cannot be overtaken by a booking of its own   *)
(*          key and body, because whoever could make it waits in the lane. *)
(*   the counters of a balance row and the requests they were moved for,   *)
(*          from which the refinement of LeaveLedger follows.              *)
(***************************************************************************)
EXTENDS TimeOffService, FunctionSums

IInv == TypeOK /\ ChainMatchesCallers

LEMMA DaysNat == ASSUME NEW p \in Payloads
                 PROVE  /\ calculateDaysRequested(p) \in Nat
                        /\ p.lane \in Lanes
                        /\ AccountOf(p) \in Accounts
BY PayloadsAssumption DEF calculateDaysRequested, AccountOf, Accounts

(* A caller in its lane has arguments and stands in its lane's chain; one  *)
(* past the wait, or found at the head, is the first of the chain.         *)
LEMMA ChainFacts ==
  ASSUME IInv, NEW c \in Clients, pc[c] # "idle"
  PROVE  /\ call[c] \in [key : Keys, payload : Payloads]
         /\ call[c].payload \in Payloads
         /\ call[c].key \in Keys
         /\ call[c].payload.lane \in Lanes
         /\ createLocks[call[c].payload.lane] \in Seq(Clients)
         /\ pc[c] \in InLane => createLocks[call[c].payload.lane] # <<>>
         /\ pc[c] \in Critical => Head(createLocks[call[c].payload.lane]) = c
<1>1. call[c] \in [key : Keys, payload : Payloads]
  BY DEF IInv, TypeOK, CallTypes, ChainMatchesCallers
<1>2. call[c].payload \in Payloads /\ call[c].key \in Keys
  BY <1>1
<1>3. call[c].payload.lane \in Lanes
  BY <1>2, DaysNat
<1> DEFINE q == createLocks[call[c].payload.lane]
<1>4. q \in Seq(Clients)
  BY <1>3 DEF IInv, TypeOK, CallTypes
<1>5. ASSUME pc[c] \in InLane
      PROVE  q # <<>> /\ (pc[c] \in Critical => Head(q) = c)
  <2>1. PICK m \in 1 .. Len(q) : q[m] = c
    BY <1>5 DEF IInv, ChainMatchesCallers
  <2>2. q # <<>>
    BY <2>1, <1>4
  <2>3. pc[c] \in Critical => m = 1
    BY <2>1, <1>3 DEF IInv, ChainMatchesCallers
  <2>4. QED
    BY <2>1, <2>2, <2>3, <1>4
<1>6. pc[c] \in Critical => pc[c] \in InLane
  BY DEF Critical, InLane
<1>7. QED
  BY <1>1, <1>2, <1>3, <1>4, <1>5, <1>6

(* Leaving the lane: the chain loses its head and nobody else moves.       *)
LEMMA FinishKeepsChains ==
  ASSUME IInv, NEW c \in Clients, pc[c] \in InLane,
         Head(createLocks[call[c].payload.lane]) = c,
         NEW outcome \in Codes \cup Accepted, NEW i \in Ids \cup {NoRow},
         Finish(c, outcome, i)
  PROVE  CallTypes' /\ ChainMatchesCallers'
<1> DEFINE l == call[c].payload.lane
           q == createLocks[l]
<1>0. pc[c] # "idle"
  BY DEF InLane
<1>1. /\ call[c] \in [key : Keys, payload : Payloads] /\ l \in Lanes
      /\ q \in Seq(Clients) /\ q # <<>> /\ Head(q) = c
  BY <1>0, ChainFacts
<1>2. Tail(q) \in Seq(Clients) /\ Len(Tail(q)) = Len(q) - 1 /\ Len(q) \in Nat \ {0}
  BY <1>1
<1>3. \A m \in 1 .. Len(Tail(q)) : Tail(q)[m] = q[m + 1] /\ m + 1 \in 1 .. Len(q)
  BY <1>1
<1>4. q[1] = c /\ 1 \in 1 .. Len(q)
  BY <1>1
<1>5. /\ createLocks' = [createLocks EXCEPT ![l] = Tail(q)]
      /\ pc' = [pc EXCEPT ![c] = "replied"]
      /\ call' = call
  BY DEF Finish, Release, Respond
<1>6. CallTypes'
  BY <1>1, <1>2, <1>5 DEF IInv, TypeOK, CallTypes, Finish, Release, Respond,
     Reply, maxAttempts
<1>7. ChainMatchesCallers'
  <2>1. \A d \in Clients : pc'[d] # "idle" => call'[d] # NoRow
    BY <1>0, <1>5 DEF IInv, TypeOK, CallTypes, ChainMatchesCallers
  <2>2. ASSUME NEW k \in Lanes, NEW m \in 1 .. Len(createLocks'[k])
        PROVE  /\ pc'[createLocks'[k][m]] \in InLane
               /\ call'[createLocks'[k][m]].payload.lane = k
               /\ pc'[createLocks'[k][m]] \in Critical => m = 1
               /\ \A n \in 1 .. Len(createLocks'[k]) :
                    createLocks'[k][m] = createLocks'[k][n] => m = n
    <3>1. CASE k = l
      <4>1. createLocks'[k] = Tail(q)
        BY <3>1, <1>1, <1>5 DEF IInv, TypeOK, CallTypes
      <4>2. createLocks'[k][m] = q[m + 1] /\ m + 1 \in 1 .. Len(q)
        BY <4>1, <1>3
      <4>3. q[m + 1] # c /\ q[m + 1] \in Clients
        BY <4>2, <1>1, <1>2, <1>4 DEF IInv, ChainMatchesCallers
      <4>4. /\ pc[q[m + 1]] \in InLane
            /\ call[q[m + 1]].payload.lane = l
            /\ pc[q[m + 1]] \notin Critical
        BY <4>2, <1>1, <1>2 DEF IInv, ChainMatchesCallers
      <4>5. ASSUME NEW n \in 1 .. Len(createLocks'[k]),
                   createLocks'[k][m] = createLocks'[k][n]
            PROVE  m = n
        <5>1. q[n + 1] = q[m + 1] /\ n + 1 \in 1 .. Len(q)
          BY <4>1, <4>2, <4>5, <1>3
        <5>2. m + 1 = n + 1
          BY <5>1, <4>2, <1>1 DEF IInv, ChainMatchesCallers
        <5>3. QED
          BY <5>2, <4>1, <1>2
      <4>6. QED
        BY <3>1, <4>2, <4>3, <4>4, <4>5, <1>5 DEF IInv, TypeOK, CallTypes
    <3>2. CASE k # l
      <4>1. createLocks'[k] = createLocks[k]
        BY <3>2, <1>5 DEF IInv, TypeOK, CallTypes
      <4>2. createLocks[k][m] \in Clients /\ createLocks[k][m] # c
        BY <4>1, <3>2 DEF IInv, TypeOK, CallTypes, ChainMatchesCallers
      <4>3. QED
        BY <4>1, <4>2, <1>5 DEF IInv, TypeOK, CallTypes, ChainMatchesCallers
    <3>3. QED
      BY <3>1, <3>2
  <2>3. ASSUME NEW d \in Clients, pc'[d] \in InLane
        PROVE  \E m \in 1 .. Len(createLocks'[call'[d].payload.lane]) :
                 createLocks'[call'[d].payload.lane][m] = d
    <3> DEFINE k == call[d].payload.lane
    <3>1. d # c /\ pc[d] \in InLane /\ pc[d] # "idle"
      BY <2>3, <1>5 DEF IInv, TypeOK, CallTypes, InLane
    <3>2. k \in Lanes /\ createLocks[k] \in Seq(Clients)
      BY <3>1, ChainFacts
    <3>3. PICK m \in 1 .. Len(createLocks[k]) : createLocks[k][m] = d
      BY <3>1 DEF IInv, ChainMatchesCallers
    <3>4. CASE k = l
      <4>1. createLocks'[k] = Tail(q)
        BY <3>4, <1>1, <1>5 DEF IInv, TypeOK, CallTypes
      <4>2. m # 1
        BY <3>1, <3>3, <3>4, <1>4
      <4>3. m - 1 \in 1 .. Len(Tail(q)) /\ Tail(q)[m - 1] = d
        BY <4>2, <3>3, <3>4, <1>1, <1>2
      <4>4. QED
        BY <4>1, <4>3, <1>5
    <3>5. CASE k # l
      <4>1. createLocks'[k] = createLocks[k] /\ call'[d].payload.lane = k
        BY <3>5, <3>2, <1>5 DEF IInv, TypeOK, CallTypes
      <4>2. QED
        BY <3>3, <4>1
    <3>6. QED
      BY <3>4, <3>5
  <2>4. QED
    BY <2>1, <2>2, <2>3 DEF ChainMatchesCallers
<1>8. QED
  BY <1>6, <1>7

(* A move of one caller inside its lane, or outside all lanes: the chains  *)
(* are untouched, and nobody becomes critical who is not at the head.      *)
LEMMA MoveKeepsChains ==
  ASSUME IInv, NEW c \in Clients, pc[c] # "idle",
         NEW label \in InLane \cup {"enqueue", "replied"},
         pc' = [pc EXCEPT ![c] = label],
         pc[c] \in InLane <=> label \in InLane,
         label \in Critical => Head(createLocks[call[c].payload.lane]) = c,
         UNCHANGED <<call, createLocks>>
  PROVE  ChainMatchesCallers'
<1> DEFINE l == call[c].payload.lane
           q == createLocks[l]
<1>1. l \in Lanes /\ q \in Seq(Clients)
  BY ChainFacts
<1>2. ASSUME NEW k \in Lanes, NEW m \in 1 .. Len(createLocks[k]),
             createLocks[k][m] = c
      PROVE  /\ pc[c] \in InLane /\ label \in InLane
             /\ label \in Critical => m = 1
  <2>1. pc[c] \in InLane /\ k = l
    BY <1>2 DEF IInv, ChainMatchesCallers
  <2>2. q # <<>>
    BY <2>1, ChainFacts
  <2>3. 1 \in 1 .. Len(q) /\ Head(q) = q[1]
    BY <2>2, <1>1
  <2>4. label \in Critical => m = 1
    BY <2>1, <2>3, <1>1, <1>2 DEF IInv, ChainMatchesCallers
  <2>5. QED
    BY <2>1, <2>4
<1>3. \A d \in Clients : pc'[d] = IF d = c THEN label ELSE pc[d]
  BY DEF IInv, TypeOK, CallTypes
<1>4. \A k \in Lanes : \A m \in 1 .. Len(createLocks[k]) :
        createLocks[k][m] \in Clients
  BY DEF IInv, TypeOK, CallTypes
<1>5. QED
  BY <1>2, <1>3, <1>4 DEF IInv, ChainMatchesCallers

(* Joining: the caller was in no chain, and now is the last of its own.    *)
LEMMA EnqueueKeeps ==
  ASSUME IInv, NEW c \in Clients, Enqueue(c)
  PROVE  IInv'
<1> DEFINE l == call[c].payload.lane
           q == createLocks[l]
<1>1. pc[c] = "enqueue" /\ pc[c] # "idle" /\ pc[c] \notin InLane
  BY DEF Enqueue, InLane
<1>2. l \in Lanes /\ q \in Seq(Clients)
  BY <1>1, ChainFacts
<1>3. /\ Append(q, c) \in Seq(Clients) /\ Len(q) \in Nat
      /\ Len(Append(q, c)) = Len(q) + 1
      /\ Append(q, c)[Len(q) + 1] = c
      /\ \A m \in 1 .. Len(q) : Append(q, c)[m] = q[m] /\ q[m] \in Clients
  <2>1. Append(q, c) \in Seq(Clients) /\ Len(q) \in Nat
    BY <1>2
  <2>2. /\ Len(Append(q, c)) = Len(q) + 1
        /\ Append(q, c)[Len(q) + 1] = c
    BY <1>2, <2>1
  <2>3. \A m \in 1 .. Len(q) : Append(q, c)[m] = q[m] /\ q[m] \in Clients
    BY <1>2, <2>1
  <2>4. QED
    BY <2>1, <2>2, <2>3
<1>4. /\ createLocks' = [createLocks EXCEPT ![l] = Append(q, c)]
      /\ pc' = [pc EXCEPT ![c] = "queued"]
      /\ UNCHANGED <<clock, balances, requests, idempotency, call, attempt,
                     failure, reply>>
  BY DEF Enqueue, Goto, database
<1>5. TypeOK'
  BY <1>2, <1>3, <1>4 DEF IInv, TypeOK, StoredTypes, CallTypes, InLane
<1>6. \A k \in Lanes : \A m \in 1 .. Len(createLocks[k]) :
        createLocks[k][m] \in Clients /\ createLocks[k][m] # c
  BY <1>1 DEF IInv, TypeOK, CallTypes, ChainMatchesCallers
<1>7. ASSUME NEW k \in Lanes, NEW m \in 1 .. Len(createLocks'[k])
      PROVE  /\ pc'[createLocks'[k][m]] \in InLane
             /\ call'[createLocks'[k][m]].payload.lane = k
             /\ pc'[createLocks'[k][m]] \in Critical => m = 1
             /\ \A n \in 1 .. Len(createLocks'[k]) :
                  createLocks'[k][m] = createLocks'[k][n] => m = n
  <2>1. CASE k # l
    <3>1. createLocks'[k] = createLocks[k]
      BY <2>1, <1>4 DEF IInv, TypeOK, CallTypes
    <3>2. QED
      BY <3>1, <1>4, <1>6 DEF IInv, TypeOK, CallTypes, ChainMatchesCallers
  <2>2. CASE k = l
    <3>1. createLocks'[k] = Append(q, c)
      BY <2>2, <1>2, <1>4 DEF IInv, TypeOK, CallTypes
    <3>2. CASE m = Len(q) + 1
      <4>1. createLocks'[k][m] = c /\ pc'[c] = "queued"
        BY <3>1, <3>2, <1>3, <1>4 DEF IInv, TypeOK, CallTypes
      <4>2. \A n \in 1 .. Len(createLocks'[k]) :
              createLocks'[k][n] = c => n = Len(q) + 1
        BY <3>1, <1>2, <1>3, <1>6
      <4>3. QED
        BY <4>1, <4>2, <3>2, <2>2, <1>4 DEF InLane, Critical
    <3>3. CASE m \in 1 .. Len(q)
      <4>1. createLocks'[k][m] = q[m] /\ q[m] # c /\ q[m] \in Clients
        BY <3>1, <3>3, <1>2, <1>3, <1>6
      <4>2. \A n \in 1 .. Len(createLocks'[k]) :
              createLocks'[k][m] = createLocks'[k][n] => m = n
        <5> SUFFICES ASSUME NEW n \in 1 .. Len(createLocks'[k]),
                            createLocks'[k][m] = createLocks'[k][n]
                     PROVE  m = n
          OBVIOUS
        <5>1. n # Len(q) + 1
          BY <4>1, <3>1, <1>3
        <5>2. n \in 1 .. Len(q) /\ createLocks'[k][n] = q[n]
          BY <5>1, <3>1, <1>3
        <5>3. QED
          BY <5>2, <4>1, <3>3, <1>2 DEF IInv, ChainMatchesCallers
      <4>3. QED
        BY <4>1, <4>2, <3>3, <2>2, <1>2, <1>4
           DEF IInv, TypeOK, CallTypes, ChainMatchesCallers
    <3>4. m = Len(q) + 1 \/ m \in 1 .. Len(q)
      <4>1. Len(createLocks'[k]) = Len(q) + 1
        BY <3>1, <1>3
      <4>2. QED
        BY <4>1, <1>3
    <3>5. QED
      BY <3>2, <3>3, <3>4
  <2>3. QED
    BY <2>1, <2>2
<1>8. ASSUME NEW d \in Clients, pc'[d] \in InLane
      PROVE  \E m \in 1 .. Len(createLocks'[call'[d].payload.lane]) :
               createLocks'[call'[d].payload.lane][m] = d
  <2> DEFINE k == call[d].payload.lane
  <2>1. CASE d = c
    <3>1. createLocks'[l] = Append(q, c)
      BY <1>2, <1>4 DEF IInv, TypeOK, CallTypes
    <3>2. Len(q) + 1 \in 1 .. Len(Append(q, c))
      BY <1>3
    <3>3. QED
      BY <2>1, <3>1, <3>2, <1>3, <1>4
  <2>2. CASE d # c
    <3>1. pc[d] \in InLane /\ pc[d] # "idle"
      BY <2>2, <1>8, <1>4 DEF IInv, TypeOK, CallTypes, InLane
    <3>2. k \in Lanes
      BY <3>1, ChainFacts
    <3>3. PICK m \in 1 .. Len(createLocks[k]) : createLocks[k][m] = d
      BY <3>1 DEF IInv, ChainMatchesCallers
    <3>4. m \in 1 .. Len(createLocks'[k]) /\ createLocks'[k][m] = createLocks[k][m]
      <4>1. CASE k = l
        <5>1. createLocks'[k] = Append(q, c)
          BY <4>1, <1>2, <1>4 DEF IInv, TypeOK, CallTypes
        <5>2. QED
          BY <4>1, <5>1, <3>3, <1>3
      <4>2. CASE k # l
        BY <4>2, <3>2, <3>3, <1>4 DEF IInv, TypeOK, CallTypes
      <4>3. QED
        BY <4>1, <4>2
    <3>5. QED
      BY <3>3, <3>4, <1>4
  <2>3. QED
    BY <2>1, <2>2
<1>9. \A d \in Clients : pc'[d] # "idle" => call'[d] # NoRow
  BY <1>1, <1>4 DEF IInv, TypeOK, CallTypes, ChainMatchesCallers
<1>10. QED
  BY <1>5, <1>7, <1>8, <1>9 DEF IInv, ChainMatchesCallers

(* Arriving and leaving: a caller outside every chain changes its call.    *)
LEMMA OutsideKeepsChains ==
  ASSUME IInv, NEW c \in Clients, pc[c] \notin InLane,
         NEW label \in {"idle", "check", "replied"},
         NEW args \in [key : Keys, payload : Payloads] \cup {NoRow},
         label # "idle" => args # NoRow,
         pc' = [pc EXCEPT ![c] = label],
         call' = [call EXCEPT ![c] = args],
         UNCHANGED createLocks
  PROVE  ChainMatchesCallers'
<1>1. \A d \in Clients : /\ pc'[d] = IF d = c THEN label ELSE pc[d]
                         /\ call'[d] = IF d = c THEN args ELSE call[d]
  BY DEF IInv, TypeOK, CallTypes
<1>2. \A k \in Lanes : \A m \in 1 .. Len(createLocks[k]) :
        createLocks[k][m] \in Clients /\ createLocks[k][m] # c
  BY DEF IInv, TypeOK, CallTypes, ChainMatchesCallers
<1>3. label \notin InLane
  BY DEF InLane
<1>4. QED
  BY <1>1, <1>2, <1>3 DEF IInv, ChainMatchesCallers

(* The first state of the service, and every state just after a restart.   *)
LEMMA EmptyChains ==
  ASSUME createLocks \in [Lanes -> {<<>>}], pc \in [Clients -> {"idle"}]
  PROVE  ChainMatchesCallers
<1>1. \A l \in Lanes : 1 .. Len(createLocks[l]) = {}
  OBVIOUS
<1>2. QED
  BY <1>1 DEF ChainMatchesCallers, InLane

LEMMA InitIInv == Init => IInv
<1> SUFFICES ASSUME Init PROVE IInv
  OBVIOUS
<1>1. StoredTypes
  BY DEF Init, StoredTypes
<1>2. CallTypes
  BY DEF Init, CallTypes, Reply, maxAttempts
<1>3. ChainMatchesCallers
  BY EmptyChains DEF Init
<1>4. QED
  BY <1>1, <1>2, <1>3 DEF IInv, TypeOK

(* What a settlement or a seed may write is a balance row.                 *)
LEMMA BalanceArithmetic ==
  ASSUME NEW b \in Balance, NEW days \in Nat
  PROVE  /\ CanDeduct(b, days) => atomicDeduct(b, days) \in Balance
         /\ CanSettle(b, days) => /\ releaseFromPending(b, days) \in Balance
                                  /\ finalizeUsed(b, days) \in Balance
         /\ Balanced(b) => /\ Balanced(atomicDeduct(b, days))
                           /\ Balanced(releaseFromPending(b, days))
                           /\ Balanced(finalizeUsed(b, days))
<1> USE DEF Balance
<1>0. /\ b.total \in Nat /\ b.available \in Nat
      /\ b.pending \in Nat /\ b.used \in Nat
  OBVIOUS
<1>1. CanDeduct(b, days) => atomicDeduct(b, days) \in Balance
  <2>1. CanDeduct(b, days) => b.available - days \in Nat
    BY <1>0 DEF CanDeduct
  <2>2. b.pending + days \in Nat
    BY <1>0
  <2>3. QED
    BY <2>1, <2>2 DEF atomicDeduct
<1>2. CanSettle(b, days) => /\ releaseFromPending(b, days) \in Balance
                            /\ finalizeUsed(b, days) \in Balance
  <2>1. CanSettle(b, days) => b.pending - days \in Nat
    BY <1>0 DEF CanSettle
  <2>2. b.available + days \in Nat /\ b.used + days \in Nat
    BY <1>0
  <2>3. QED
    BY <2>1, <2>2 DEF releaseFromPending, finalizeUsed
<1>3. Balanced(b) => Balanced(atomicDeduct(b, days))
  BY DEF Balanced, atomicDeduct
<1>4. Balanced(b) => Balanced(releaseFromPending(b, days))
  BY DEF Balanced, releaseFromPending
<1>5. Balanced(b) => Balanced(finalizeUsed(b, days))
  BY DEF Balanced, finalizeUsed
<1>6. QED
  BY <1>1, <1>2, <1>3, <1>4, <1>5

LEMMA SeedArithmetic ==
  ASSUME NEW total \in Nat
  PROVE  upsertBalance(total) \in Balance /\ Balanced(upsertBalance(total))
BY DEF upsertBalance, Balance, Balanced

(* A step of a caller that only reads the database.                        *)
LEMMA ReadersKeepIInv ==
  ASSUME IInv, NEW c \in Clients,
         CheckIdempotency(c) \/ LockedCheck(c) \/ TxRefuse(c)
           \/ TxConstraint(c) \/ TxTransient(c) \/ RecoverCheck(c)
           \/ RecoverFind(c)
  PROVE  IInv'
<1> DEFINE k == call[c].key
           p == call[c].payload
<1>0. StoredTypes'
  BY DEF CheckIdempotency, LockedCheck, TxRefuse, TxConstraint, TxTransient,
     RecoverCheck, RecoverFind, database, IInv, TypeOK, StoredTypes
<1>1. pc[c] # "idle"
  BY DEF CheckIdempotency, LockedCheck, TxRefuse, TxConstraint, TxTransient,
     RecoverCheck, RecoverFind
<1>2. k \in Keys /\ p \in Payloads
  BY <1>1, ChainFacts
<1>3. checkIdempotency(k, p) = "hit" =>
        idempotency[k].responseBody \in Ids \cup {NoRow}
  BY <1>2 DEF checkIdempotency, IInv, TypeOK, StoredTypes, IdempotencyRecord
<1>4. CASE CheckIdempotency(c)
  <2>1. pc[c] = "check" /\ "check" \notin InLane /\ "enqueue" \notin InLane
           /\ "replied" \notin InLane /\ "replied" \notin Critical
           /\ "enqueue" \notin Critical
    BY <1>4 DEF CheckIdempotency, InLane, Critical
  <2>2. CASE \E o \in {"cached", "IDEMPOTENCY_CONFLICT"},
                i \in Ids \cup {NoRow} : Respond(c, o, i)
    <3>1. UNCHANGED createLocks
      BY <1>4 DEF CheckIdempotency
    <3>2. CallTypes'
      BY <2>2, <3>1 DEF Respond, IInv, TypeOK, CallTypes, Reply, Codes,
         Accepted, maxAttempts
    <3>3. ChainMatchesCallers'
      BY <2>1, <2>2, <3>1, <1>1, MoveKeepsChains DEF Respond
    <3>4. QED
      BY <1>0, <3>2, <3>3 DEF IInv, TypeOK
  <2>3. CASE Goto(c, "enqueue") /\ UNCHANGED <<call, attempt, failure, reply>>
    <3>1. UNCHANGED createLocks
      BY <1>4 DEF CheckIdempotency
    <3>2. CallTypes'
      BY <2>3, <3>1 DEF Goto, IInv, TypeOK, CallTypes
    <3>3. ChainMatchesCallers'
      BY <2>1, <2>3, <3>1, <1>1, MoveKeepsChains DEF Goto
    <3>4. QED
      BY <1>0, <3>2, <3>3 DEF IInv, TypeOK
  <2>4. QED
    BY <1>3, <1>4, <2>2, <2>3 DEF CheckIdempotency
<1>5. CASE ~ CheckIdempotency(c)
  <2>1. /\ pc[c] \in InLane
        /\ Head(createLocks[p.lane]) = c
    <3>1. CASE LockedCheck(c)
      BY <3>1 DEF LockedCheck, InLane
    <3>2. CASE ~ LockedCheck(c)
      <4>1. pc[c] \in Critical /\ pc[c] \in InLane
        BY <1>5, <3>2 DEF TxRefuse, TxConstraint, TxTransient, RecoverCheck,
           RecoverFind, Critical, InLane
      <4>2. QED
        BY <4>1, <1>1, ChainFacts
    <3>3. QED
      BY <3>1, <3>2
  <2>2. CASE \E o \in Codes \cup Accepted, i \in Ids \cup {NoRow} :
               Finish(c, o, i)
    BY <2>1, <2>2, <1>0, FinishKeepsChains DEF IInv, TypeOK
  <2>3. CASE /\ UNCHANGED <<createLocks, call, reply>>
             /\ \E label \in {"tx", "recoverCheck", "recoverFind"} :
                  pc' = [pc EXCEPT ![c] = label]
             /\ attempt' \in [Clients -> 1 .. maxAttempts]
             /\ failure' \in [Clients -> {"none", "constraint", "transient"}]
    <3>1. PICK label \in {"tx", "recoverCheck", "recoverFind"} :
            pc' = [pc EXCEPT ![c] = label]
      BY <2>3
    <3>2. label \in InLane /\ label \in Critical
      BY DEF InLane, Critical
    <3>3. CallTypes'
      BY <2>3, <3>1, <3>2 DEF IInv, TypeOK, CallTypes
    <3>4. ChainMatchesCallers'
      BY <2>1, <2>3, <3>1, <3>2, <1>1, MoveKeepsChains
    <3>5. QED
      BY <1>0, <3>3, <3>4 DEF IInv, TypeOK
  <2>4. CASE LockedCheck(c)
    BY <1>3, <2>2, <2>3, <2>4
       DEF LockedCheck, Goto, Codes, Accepted, IInv, TypeOK, CallTypes
  <2>5. CASE TxRefuse(c)
    BY <2>2, <2>5 DEF TxRefuse, Codes
  <2>6. CASE TxConstraint(c)
    BY <2>3, <2>6 DEF TxConstraint, Goto, IInv, TypeOK, CallTypes
  <2>7. CASE TxTransient(c)
    <3>1. pc[c] = "tx" /\ attempt[c] \in 1 .. maxAttempts
      BY <2>7 DEF TxTransient, IInv, TypeOK, CallTypes
    <3>2. CASE attempt[c] < maxAttempts
      <4>1. pc' = [pc EXCEPT ![c] = "tx"]
        BY <2>7, <3>1, <3>2 DEF TxTransient, IInv, TypeOK, CallTypes
      <4>2. attempt' \in [Clients -> 1 .. maxAttempts]
        BY <2>7, <3>1, <3>2 DEF TxTransient, IInv, TypeOK, CallTypes, maxAttempts
      <4>3. QED
        BY <2>3, <2>7, <3>2, <4>1, <4>2
           DEF TxTransient, IInv, TypeOK, CallTypes
    <3>3. CASE ~ (attempt[c] < maxAttempts)
      BY <2>3, <2>7, <3>3 DEF TxTransient, Goto, IInv, TypeOK, CallTypes
    <3>4. QED
      BY <3>2, <3>3
  <2>8. CASE RecoverCheck(c)
    BY <1>3, <2>2, <2>3, <2>8
       DEF RecoverCheck, Goto, Codes, Accepted, IInv, TypeOK, CallTypes
  <2>9. CASE RecoverFind(c)
    BY <2>2, <2>9 DEF RecoverFind, RequestsUnder, Codes, Accepted
  <2>10. QED
    BY <1>5, <2>4, <2>5, <2>6, <2>7, <2>8, <2>9
<1>6. QED
  BY <1>4, <1>5

(* The commit of a create: a deduction, a new request, a new record.       *)
LEMMA CommitKeepsIInv ==
  ASSUME IInv, NEW c \in Clients, TxCommit(c)
  PROVE  IInv'
<1> DEFINE k == call[c].key
           p == call[c].payload
           a == AccountOf(p)
           days == calculateDaysRequested(p)
<1>1. /\ pc[c] # "idle" /\ pc[c] \in InLane /\ pc[c] \in Critical
  BY DEF TxCommit, InLane, Critical
<1>2. /\ k \in Keys /\ p \in Payloads /\ Head(createLocks[p.lane]) = c
  BY <1>1, ChainFacts
<1>3. a \in Accounts /\ days \in Nat
  BY <1>2, DaysNat
<1>4. balances[a] \in Balance /\ CanDeduct(balances[a], days)
  BY <1>3 DEF TxCommit, IInv, TypeOK, StoredTypes
<1>5. PICK i \in Ids :
        /\ requests' = [requests EXCEPT
             ![i] = [key |-> k, payload |-> p, status |-> "PENDING"]]
        /\ idempotency' = [idempotency EXCEPT
             ![k] = [requestHash |-> p, responseBody |-> i,
                     expiresAt |-> clock + Ttl]]
        /\ Finish(c, "created", i)
  BY DEF TxCommit
<1>6. /\ balances' = [balances EXCEPT ![a] = atomicDeduct(balances[a], days)]
      /\ clock' = clock
  BY DEF TxCommit
<1>7. atomicDeduct(balances[a], days) \in Balance
  BY <1>3, <1>4, BalanceArithmetic
<1>8. balances' \in [Accounts -> Balance \cup {NoRow}]
  BY <1>6, <1>7 DEF IInv, TypeOK, StoredTypes
<1>9. requests' \in [Ids -> Row \cup {NoRow}]
  BY <1>2, <1>5 DEF IInv, TypeOK, StoredTypes, Row, RequestStatus
<1>10. idempotency' \in [Keys -> IdempotencyRecord \cup {NoRow}]
  <2>1. clock + Ttl \in Nat
    BY NumbersAssumption DEF IInv, TypeOK, StoredTypes
  <2>2. QED
    BY <1>2, <1>5, <2>1 DEF IInv, TypeOK, StoredTypes, IdempotencyRecord
<1>11. CallTypes' /\ ChainMatchesCallers'
  BY <1>1, <1>2, <1>5, FinishKeepsChains DEF Accepted
<1>12. QED
  BY <1>6, <1>8, <1>9, <1>10, <1>11 DEF IInv, TypeOK, StoredTypes

(* approveRequest, rejectRequest and cancelRequest touch no caller.        *)
LEMMA SettleKeepsIInv ==
  ASSUME IInv, NEW i \in Ids,
         approveRequest(i) \/ rejectRequest(i) \/ cancelRequest(i)
  PROVE  IInv'
<1> DEFINE p == requests[i].payload
           a == AccountOf(p)
           days == calculateDaysRequested(p)
<1> USE DEF approveRequest, rejectRequest, cancelRequest, Settle
<1>1. requests[i] \in Row /\ p \in Payloads
  BY DEF IInv, TypeOK, StoredTypes, Row
<1>2. a \in Accounts /\ days \in Nat
  BY <1>1, DaysNat
<1>3. balances[a] \in Balance /\ CanSettle(balances[a], days)
  BY <1>2 DEF IInv, TypeOK, StoredTypes
<1>4. PICK b \in Balance : balances' = [balances EXCEPT ![a] = b]
  <2>1. /\ releaseFromPending(balances[a], days) \in Balance
        /\ finalizeUsed(balances[a], days) \in Balance
    BY <1>2, <1>3, BalanceArithmetic
  <2>2. QED
    BY <2>1
<1>5. PICK s \in RequestStatus : requests' = [requests EXCEPT ![i].status = s]
  BY DEF RequestStatus
<1>6. requests' \in [Ids -> Row \cup {NoRow}]
  BY <1>1, <1>5 DEF IInv, TypeOK, StoredTypes, Row
<1>7. UNCHANGED <<clock, idempotency, createLocks, pc, call, attempt, failure,
                  reply>>
  BY DEF locals
<1>8. StoredTypes'
  BY <1>4, <1>6, <1>7 DEF IInv, TypeOK, StoredTypes
<1>9. CallTypes' /\ ChainMatchesCallers'
  BY <1>7 DEF IInv, TypeOK, CallTypes, ChainMatchesCallers
<1>10. QED
  BY <1>8, <1>9 DEF IInv, TypeOK

LEMMA StepKeepsIInv == IInv /\ [Next]_vars => IInv'
<1> SUFFICES ASSUME IInv, [Next]_vars PROVE IInv'
  OBVIOUS
<1>1. ASSUME NEW c \in Clients, NEW k \in Keys, NEW p \in Payloads,
             Submit(c, k, p)
      PROVE  IInv'
  <2>1. pc[c] = "idle" /\ pc[c] \notin InLane
    BY <1>1 DEF Submit, InLane
  <2>2. PICK label \in {"check", "replied"} :
          /\ pc' = [pc EXCEPT ![c] = label]
          /\ call' = [call EXCEPT ![c] = [key |-> k, payload |-> p]]
    BY <1>1 DEF Submit, Goto
  <2>3. [key |-> k, payload |-> p] # NoRow
    BY NoRowAssumption
  <2>4. ChainMatchesCallers'
    BY <1>1, <2>1, <2>2, <2>3, OutsideKeepsChains DEF Submit
  <2>5. StoredTypes'
    BY <1>1 DEF Submit, database, IInv, TypeOK, StoredTypes
  <2>6. [outcome |-> "INVALID_DATE_RANGE", id |-> NoRow] \in Reply
    BY DEF Reply, Codes
  <2>7. CallTypes'
    <3>1. call' \in [Clients -> [key : Keys, payload : Payloads] \cup {NoRow}]
      BY <2>2 DEF IInv, TypeOK, CallTypes
    <3>2. pc' \in [Clients -> InLane \cup {"idle", "check", "enqueue", "replied"}]
      BY <2>2 DEF IInv, TypeOK, CallTypes
    <3>3. reply' = reply \/ reply' = [reply EXCEPT
            ![c] = [outcome |-> "INVALID_DATE_RANGE", id |-> NoRow]]
      BY <1>1 DEF Submit
    <3>4. reply' \in [Clients -> Reply]
      BY <2>6, <3>3 DEF IInv, TypeOK, CallTypes
    <3>5. QED
      BY <1>1, <3>1, <3>2, <3>4 DEF Submit, IInv, TypeOK, CallTypes
  <2>8. QED
    BY <2>4, <2>5, <2>7 DEF IInv, TypeOK
<1>2. ASSUME NEW c \in Clients, Step(c)
      PROVE  IInv'
  BY <1>2, ReadersKeepIInv, EnqueueKeeps, CommitKeepsIInv DEF Step
<1>3. ASSUME NEW c \in Clients, Return(c)
      PROVE  IInv'
  <2>1. pc[c] \notin InLane
    BY <1>3 DEF Return, InLane
  <2>2. ChainMatchesCallers'
    BY <1>3, <2>1, OutsideKeepsChains DEF Return, Goto
  <2>3. StoredTypes'
    BY <1>3 DEF Return, database, IInv, TypeOK, StoredTypes
  <2>4. CallTypes'
    BY <1>3 DEF Return, Goto, IInv, TypeOK, CallTypes, Reply
  <2>5. QED
    BY <2>2, <2>3, <2>4 DEF IInv, TypeOK
<1>4. ASSUME NEW i \in Ids,
             approveRequest(i) \/ rejectRequest(i) \/ cancelRequest(i)
      PROVE  IInv'
  BY <1>4, SettleKeepsIInv
<1>5. ASSUME NEW a \in Accounts, NEW total \in Totals, seedBalance(a, total)
      PROVE  IInv'
  <2>1. upsertBalance(total) \in Balance
    BY NumbersAssumption, SeedArithmetic
  <2>2. StoredTypes'
    BY <1>5, <2>1 DEF seedBalance, IInv, TypeOK, StoredTypes
  <2>3. CallTypes' /\ ChainMatchesCallers'
    BY <1>5 DEF seedBalance, locals, IInv, TypeOK, CallTypes,
       ChainMatchesCallers
  <2>4. QED
    BY <2>2, <2>3 DEF IInv, TypeOK
<1>6. CASE Tick
  <2>1. StoredTypes'
    BY <1>6 DEF Tick, database, IInv, TypeOK, StoredTypes
  <2>2. CallTypes' /\ ChainMatchesCallers'
    BY <1>6 DEF Tick, locals, IInv, TypeOK, CallTypes, ChainMatchesCallers
  <2>3. QED
    BY <2>1, <2>2 DEF IInv, TypeOK
<1>7. CASE Restart
  <2>1. createLocks' \in [Lanes -> {<<>>}] /\ pc' \in [Clients -> {"idle"}]
    BY <1>7 DEF Restart
  <2>2. ChainMatchesCallers'
    <3>1. \A l \in Lanes : 1 .. Len(createLocks'[l]) = {}
      BY <2>1
    <3>2. QED
      BY <2>1, <3>1 DEF ChainMatchesCallers, InLane
  <2>3. StoredTypes'
    BY <1>7 DEF Restart, database, IInv, TypeOK, StoredTypes
  <2>4. CallTypes'
    BY <1>7 DEF Restart, CallTypes, Reply, maxAttempts
  <2>5. QED
    BY <2>2, <2>3, <2>4 DEF IInv, TypeOK
<1>8. CASE UNCHANGED vars
  BY <1>8 DEF vars, IInv, TypeOK, StoredTypes, CallTypes, ChainMatchesCallers
<1>9. QED
  BY <1>1, <1>2, <1>3, <1>4, <1>5, <1>6, <1>7, <1>8 DEF Next

(* Every reachable state is well typed: in particular no counter of a      *)
(* balance row ever goes below zero (availableBalance of EmployeeBalance). *)
THEOREM TypeCorrect == Spec => []TypeOK
<1>1. IInv => TypeOK
  BY DEF IInv
<1>2. QED
  BY InitIInv, StepKeepsIInv, <1>1, PTL DEF Spec

(* At most one createRequest of a lane is past the promise chain, through  *)
(* every error path and restart: _withCreateLock is a lock.                *)
THEOREM LaneIsALock == Spec => []LaneExclusion
<1>1. IInv => LaneExclusion
  BY ChainFacts DEF LaneExclusion, Critical, InLane
<1>2. QED
  BY InitIInv, StepKeepsIInv, <1>1, PTL DEF Spec

-----------------------------------------------------------------------------
(* Only three kinds of step write the database.                            *)
LEMMA Writers ==
  ASSUME [Next]_vars
  PROVE  \/ UNCHANGED <<balances, requests, idempotency>>
         \/ \E c \in Clients : TxCommit(c)
         \/ \E i \in Ids : approveRequest(i) \/ rejectRequest(i) \/ cancelRequest(i)
         \/ \E a \in Accounts, total \in Totals : seedBalance(a, total)
<1>1. ASSUME NEW c \in Clients, Step(c), ~ TxCommit(c)
      PROVE  UNCHANGED <<balances, requests, idempotency>>
  BY <1>1 DEF Step, CheckIdempotency, Enqueue, LockedCheck, TxRefuse,
     TxConstraint, TxTransient, RecoverCheck, RecoverFind, database
<1>2. CASE \/ \E c \in Clients, k \in Keys, p \in Payloads : Submit(c, k, p)
           \/ \E c \in Clients : Return(c)
           \/ Tick \/ Restart \/ UNCHANGED vars
  BY <1>2 DEF Submit, Return, Tick, Restart, vars, database
<1>3. QED
  BY <1>1, <1>2 DEF Next

(* What a settlement does to the tables.                                   *)
LEMMA SettleEffect ==
  ASSUME IInv, NEW i \in Ids,
         approveRequest(i) \/ rejectRequest(i) \/ cancelRequest(i)
  PROVE  LET a == AccountOf(requests[i].payload)
             days == calculateDaysRequested(requests[i].payload)
         IN /\ requests[i] \in Row /\ requests[i].status = "PENDING"
            /\ days \in Nat /\ balances[a] \in Balance
            /\ \E s \in RequestStatus :
                 requests' = [requests EXCEPT ![i].status = s]
            /\ \/ balances' = [balances EXCEPT
                    ![a] = finalizeUsed(balances[a], days)]
               \/ balances' = [balances EXCEPT
                    ![a] = releaseFromPending(balances[a], days)]
            /\ idempotency' = idempotency
<1> DEFINE a == AccountOf(requests[i].payload)
           days == calculateDaysRequested(requests[i].payload)
<1> USE DEF approveRequest, rejectRequest, cancelRequest, Settle
<1>1. requests[i] \in Row /\ requests[i].payload \in Payloads
  BY DEF IInv, TypeOK, StoredTypes, Row
<1>2. a \in Accounts /\ days \in Nat
  BY <1>1, DaysNat
<1>3. balances[a] \in Balance
  BY <1>2 DEF IInv, TypeOK, StoredTypes
<1>4. requests[i].status = "PENDING"
  BY <1>1 DEF VALID_TRANSITIONS, Row
<1>5. \E s \in RequestStatus : requests' = [requests EXCEPT ![i].status = s]
  BY DEF RequestStatus
<1>6. QED
  BY <1>1, <1>2, <1>3, <1>4, <1>5

(* What a commit does to the tables.                                       *)
LEMMA CommitEffect ==
  ASSUME IInv, NEW c \in Clients, TxCommit(c)
  PROVE  LET k == call[c].key
             p == call[c].payload
             a == AccountOf(p)
             days == calculateDaysRequested(p)
         IN /\ k \in Keys /\ p \in Payloads /\ days \in Nat
            /\ balances[a] \in Balance
            /\ balances' = [balances EXCEPT ![a] = atomicDeduct(balances[a], days)]
            /\ ~ Overlaps(p) /\ ~ KeyTaken(k)
            /\ \E i \in Ids :
                 /\ requests[i] = NoRow
                 /\ requests' = [requests EXCEPT
                      ![i] = [key |-> k, payload |-> p, status |-> "PENDING"]]
                 /\ idempotency' = [idempotency EXCEPT
                      ![k] = [requestHash |-> p, responseBody |-> i,
                              expiresAt |-> clock + Ttl]]
                 /\ reply' = [reply EXCEPT ![c] = [outcome |-> "created", id |-> i]]
                 /\ pc' = [pc EXCEPT ![c] = "replied"]
                 /\ call' = call
<1> DEFINE k == call[c].key
           p == call[c].payload
           a == AccountOf(p)
           days == calculateDaysRequested(p)
<1>1. k \in Keys /\ p \in Payloads
  BY ChainFacts DEF TxCommit
<1>2. a \in Accounts /\ days \in Nat
  BY <1>1, DaysNat
<1>3. balances[a] \in Balance
  BY <1>2 DEF TxCommit, IInv, TypeOK, StoredTypes
<1>4. QED
  BY <1>1, <1>2, <1>3 DEF TxCommit, Finish, Respond

(* available + pending + used = total, for every account and any seed:     *)
(* each of the four writers of a row keeps its own sum.                    *)
THEOREM BalanceIsConserved == Spec => []BalanceInvariant
<1>1. Init => BalanceInvariant
  BY DEF Init, BalanceInvariant
<1>2. IInv /\ BalanceInvariant /\ [Next]_vars => BalanceInvariant'
  <2> SUFFICES ASSUME IInv, BalanceInvariant, [Next]_vars,
                      NEW a \in Accounts, balances'[a] # NoRow
               PROVE  Balanced(balances'[a])
    BY DEF BalanceInvariant
  <2>0. balances \in [Accounts -> Balance \cup {NoRow}]
    BY DEF IInv, TypeOK, StoredTypes
  <2>1. CASE UNCHANGED <<balances, requests, idempotency>>
    BY <2>1 DEF BalanceInvariant
  <2>2. ASSUME NEW c \in Clients, TxCommit(c)
        PROVE  Balanced(balances'[a])
    <3> DEFINE d == calculateDaysRequested(call[c].payload)
               b == AccountOf(call[c].payload)
    <3>1. /\ d \in Nat /\ balances[b] \in Balance
          /\ balances' = [balances EXCEPT ![b] = atomicDeduct(balances[b], d)]
      BY <2>2, CommitEffect
    <3>2. CASE a = b
      <4>1. Balanced(balances[a])
        BY <3>1, <3>2, NoRowAssumption DEF BalanceInvariant
      <4>2. balances'[a] = atomicDeduct(balances[a], d)
        BY <3>1, <3>2, <2>0
      <4>3. QED
        BY <3>1, <3>2, <4>1, <4>2, BalanceArithmetic
    <3>3. CASE a # b
      BY <3>1, <3>3, <2>0 DEF BalanceInvariant
    <3>4. QED
      BY <3>2, <3>3
  <2>3. ASSUME NEW i \in Ids,
               approveRequest(i) \/ rejectRequest(i) \/ cancelRequest(i)
        PROVE  Balanced(balances'[a])
    <3> DEFINE d == calculateDaysRequested(requests[i].payload)
               b == AccountOf(requests[i].payload)
    <3>1. /\ d \in Nat /\ balances[b] \in Balance
          /\ \/ balances' = [balances EXCEPT ![b] = finalizeUsed(balances[b], d)]
             \/ balances' = [balances EXCEPT ![b] = releaseFromPending(balances[b], d)]
      BY <2>3, SettleEffect
    <3>2. CASE a = b
      <4>1. Balanced(balances[a])
        BY <3>1, <3>2, NoRowAssumption DEF BalanceInvariant
      <4>2. \/ balances'[a] = finalizeUsed(balances[a], d)
            \/ balances'[a] = releaseFromPending(balances[a], d)
        BY <3>1, <3>2, <2>0
      <4>3. QED
        BY <3>1, <3>2, <4>1, <4>2, BalanceArithmetic
    <3>3. CASE a # b
      BY <3>1, <3>3, <2>0 DEF BalanceInvariant
    <3>4. QED
      BY <3>2, <3>3
  <2>4. ASSUME NEW b \in Accounts, NEW total \in Totals, seedBalance(b, total)
        PROVE  Balanced(balances'[a])
    <3>1. Balanced(upsertBalance(total))
      BY NumbersAssumption, SeedArithmetic
    <3>2. QED
      BY <2>0, <2>4, <3>1 DEF seedBalance, BalanceInvariant
  <2>5. QED
    BY <2>1, <2>2, <2>3, <2>4, Writers
<1>3. QED
  BY <1>1, <1>2, InitIInv, StepKeepsIInv, PTL DEF Spec

(* The overlap check and the insert are one transaction, and no other step *)
(* makes a request active: no employee is booked twice for a day.          *)
THEOREM NobodyBookedTwice == Spec => []NoDoubleBooking
<1>1. Init => NoDoubleBooking
  BY DEF Init, NoDoubleBooking
<1>2. IInv /\ NoDoubleBooking /\ [Next]_vars => NoDoubleBooking'
  <2> SUFFICES ASSUME IInv, NoDoubleBooking, [Next]_vars
               PROVE  NoDoubleBooking'
    OBVIOUS
  <2>0. requests \in [Ids -> Row \cup {NoRow}]
    BY DEF IInv, TypeOK, StoredTypes
  <2>1. CASE UNCHANGED <<balances, requests, idempotency>>
    BY <2>1 DEF NoDoubleBooking
  <2>2. ASSUME NEW c \in Clients, TxCommit(c)
        PROVE  NoDoubleBooking'
    <3> DEFINE p == call[c].payload
               new == [key |-> call[c].key, payload |-> p, status |-> "PENDING"]
    <3>1. p \in Payloads /\ ~ Overlaps(p)
      BY <2>2, CommitEffect
    <3>2. PICK i \in Ids : requests[i] = NoRow /\ requests' = [requests EXCEPT ![i] = new]
      BY <2>2, CommitEffect
    <3>3. new.payload = p
      OBVIOUS
    <3>4. \A j \in Ids : requests'[j] = IF j = i THEN new ELSE requests[j]
      BY <3>2, <2>0
    <3>5. ASSUME NEW j \in Ids, j # i, requests[j] # NoRow,
                 requests[j].status \in ActiveStatus,
                 requests[j].payload.lane = p.lane
          PROVE  ~ datesOverlap(p, requests[j].payload)
                   /\ ~ datesOverlap(requests[j].payload, p)
      BY <3>1, <3>5 DEF Overlaps, datesOverlap
    <3>6. QED
      BY <3>3, <3>4, <3>5 DEF NoDoubleBooking
  <2>3. ASSUME NEW i \in Ids,
               approveRequest(i) \/ rejectRequest(i) \/ cancelRequest(i)
        PROVE  NoDoubleBooking'
    <3>1. requests[i] \in Row /\ requests[i].status = "PENDING" /\ requests[i] # NoRow
      BY <2>3, SettleEffect, NoRowAssumption DEF Row
    <3>2. PICK s \in RequestStatus : requests' = [requests EXCEPT ![i].status = s]
      BY <2>3, SettleEffect
    <3>3. requests[i].status \in ActiveStatus
      BY <3>1 DEF ActiveStatus
    <3>4. /\ requests'[i].payload = requests[i].payload
          /\ \A j \in Ids \ {i} : requests'[j] = requests[j]
      BY <3>1, <3>2, <2>0 DEF Row
    <3>5. QED
      BY <3>1, <3>3, <3>4 DEF NoDoubleBooking
  <2>4. ASSUME NEW b \in Accounts, NEW total \in Totals, seedBalance(b, total)
        PROVE  NoDoubleBooking'
    BY <2>4 DEF seedBalance, NoDoubleBooking
  <2>5. QED
    BY <2>1, <2>2, <2>3, <2>4, Writers
<1>3. QED
  BY <1>1, <1>2, InitIInv, StepKeepsIInv, PTL DEF Spec

(* What a step leaves of a booking.                                        *)
LEMMA BookingStays ==
  ASSUME IInv, [Next]_vars, NEW i \in Ids, requests[i] # NoRow
  PROVE  /\ requests'[i] # NoRow
         /\ requests'[i].key = requests[i].key
         /\ requests'[i].payload = requests[i].payload
         /\ requests[i].status # "PENDING" =>
              requests'[i].status = requests[i].status
<1>0. requests \in [Ids -> Row \cup {NoRow}]
  BY DEF IInv, TypeOK, StoredTypes
<1>1. ASSUME NEW c \in Clients, TxCommit(c)
      PROVE  requests'[i] = requests[i]
  BY <1>0, <1>1, CommitEffect
<1>2. ASSUME NEW j \in Ids,
             approveRequest(j) \/ rejectRequest(j) \/ cancelRequest(j), i # j
      PROVE  requests'[i] = requests[i]
  BY <1>0, <1>2, SettleEffect
<1>3. ASSUME approveRequest(i) \/ rejectRequest(i) \/ cancelRequest(i)
      PROVE  /\ requests'[i] # NoRow
             /\ requests'[i].key = requests[i].key
             /\ requests'[i].payload = requests[i].payload
             /\ requests[i].status = "PENDING"
  <2>1. requests[i] \in Row /\ requests[i].status = "PENDING"
    BY <1>3, SettleEffect
  <2>2. PICK s \in RequestStatus : requests' = [requests EXCEPT ![i].status = s]
    BY <1>3, SettleEffect
  <2>3. /\ requests'[i] \in Row
        /\ requests'[i].key = requests[i].key
        /\ requests'[i].payload = requests[i].payload
    BY <2>1, <2>2, <1>0 DEF Row
  <2>4. QED
    BY <2>1, <2>3, NoRowAssumption DEF Row
<1>4. ASSUME NEW b \in Accounts, NEW total \in Totals, seedBalance(b, total)
      PROVE  requests'[i] = requests[i]
  BY <1>4 DEF seedBalance
<1>5. QED
  BY <1>1, <1>2, <1>3, <1>4, Writers

(* No step drops a booking, reassigns it, or reopens a settled one.        *)
THEOREM FinalityHolds == Spec => BookingsAreFinal
<1> DEFINE Final == \A i \in Ids : requests[i] # NoRow =>
                      /\ requests'[i] # NoRow
                      /\ requests'[i].key = requests[i].key
                      /\ requests'[i].payload = requests[i].payload
                      /\ requests[i].status # "PENDING" =>
                           requests'[i].status = requests[i].status
<1>1. IInv /\ [Next]_vars => [Final]_vars
  BY BookingStays
<1>2. QED
  BY <1>1, InitIInv, StepKeepsIInv, PTL DEF Spec, BookingsAreFinal

(* The unique index sees every earlier request, as every request still has *)
(* its record; only a commit writes either, and it writes both.            *)
LEMMA KeysStep == IInv /\ KeyBooksOnce /\ [Next]_vars => KeyBooksOnce'
<1> SUFFICES ASSUME IInv, KeyBooksOnce, [Next]_vars
             PROVE  KeyBooksOnce'
  OBVIOUS
<1>0. /\ requests \in [Ids -> Row \cup {NoRow}]
      /\ idempotency \in [Keys -> IdempotencyRecord \cup {NoRow}]
  BY DEF IInv, TypeOK, StoredTypes
<1>1. CASE UNCHANGED <<balances, requests, idempotency>>
  BY <1>1 DEF KeyBooksOnce
<1>2. ASSUME NEW c \in Clients, TxCommit(c)
      PROVE  KeyBooksOnce'
  <2> DEFINE k == call[c].key
             p == call[c].payload
             new == [key |-> k, payload |-> p, status |-> "PENDING"]
  <2>1. k \in Keys /\ p \in Payloads /\ ~ KeyTaken(k)
    BY <1>2, CommitEffect
  <2>2. PICK i \in Ids :
          /\ requests[i] = NoRow
          /\ requests' = [requests EXCEPT ![i] = new]
          /\ idempotency' = [idempotency EXCEPT
               ![k] = [requestHash |-> p, responseBody |-> i,
                       expiresAt |-> clock + Ttl]]
    BY <1>2, CommitEffect
  <2> DEFINE rec == [requestHash |-> p, responseBody |-> i,
                     expiresAt |-> clock + Ttl]
  <2>3. \A j \in Ids : requests'[j] = IF j = i THEN new ELSE requests[j]
    BY <2>2, <1>0
  <2>4. \A m \in Keys : idempotency'[m] = IF m = k THEN rec ELSE idempotency[m]
    BY <2>2, <1>0
  <2>5. new # NoRow /\ new.key = k /\ new.payload = p
    BY <2>1, NoRowAssumption DEF RequestStatus
  <2>6. rec # NoRow /\ rec.responseBody = i /\ rec.requestHash = p
    <3>1. clock + Ttl \in Nat
      BY NumbersAssumption DEF IInv, TypeOK, StoredTypes
    <3>2. QED
      BY <2>1, <3>1, NoRowAssumption
  <2>7. \A j \in Ids : requests[j] # NoRow => requests[j].key # k
    BY <2>1 DEF KeyTaken
  <2>8. \A j, l \in Ids : requests'[j] # NoRow /\ requests'[l] # NoRow
           /\ requests'[j].key = requests'[l].key => j = l
    BY <2>3, <2>5, <2>7 DEF KeyBooksOnce
  <2>9. ASSUME NEW m \in Keys, idempotency'[m] # NoRow
        PROVE  LET j == idempotency'[m].responseBody
               IN /\ requests'[j] # NoRow
                  /\ requests'[j].key = m
                  /\ requests'[j].payload = idempotency'[m].requestHash
    <3>1. CASE m = k
      BY <3>1, <2>3, <2>4, <2>5, <2>6
    <3>2. CASE m # k
      <4> DEFINE j == idempotency[m].responseBody
      <4>1. idempotency'[m] = idempotency[m] /\ idempotency[m] # NoRow
        BY <3>2, <2>4, <2>9
      <4>2. j \in Ids
        BY <4>1, <1>0 DEF IdempotencyRecord
      <4>3. requests[j] # NoRow /\ j # i
        BY <4>1, <2>2 DEF KeyBooksOnce
      <4>4. QED
        BY <4>1, <4>2, <4>3, <2>3 DEF KeyBooksOnce
    <3>3. QED
      BY <3>1, <3>2
  <2>10. \A j \in Ids : requests'[j] # NoRow => idempotency'[requests'[j].key] # NoRow
    <3>1. \A j \in Ids : requests[j] # NoRow => requests[j].key \in Keys
      BY <1>0 DEF Row
    <3>2. QED
      BY <3>1, <2>1, <2>3, <2>4, <2>5, <2>6 DEF KeyBooksOnce
  <2>11. QED
    BY <2>8, <2>9, <2>10 DEF KeyBooksOnce
<1>3. ASSUME NEW i \in Ids,
             approveRequest(i) \/ rejectRequest(i) \/ cancelRequest(i)
      PROVE  KeyBooksOnce'
  <2>1. requests[i] \in Row /\ requests[i] # NoRow /\ idempotency' = idempotency
    BY <1>3, SettleEffect, NoRowAssumption DEF Row
  <2>2. PICK s \in RequestStatus : requests' = [requests EXCEPT ![i].status = s]
    BY <1>3, SettleEffect
  <2>3. /\ requests'[i] \in Row
        /\ requests'[i].key = requests[i].key
        /\ requests'[i].payload = requests[i].payload
        /\ \A j \in Ids \ {i} : requests'[j] = requests[j]
    BY <2>1, <2>2, <1>0 DEF Row
  <2>4. requests'[i] # NoRow
    BY <2>3, NoRowAssumption DEF Row
  <2>5. \A m \in Keys : idempotency[m] # NoRow => idempotency[m].responseBody \in Ids
    BY <1>0 DEF IdempotencyRecord
  <2>6. \A j \in Ids : /\ requests'[j] # NoRow <=> requests[j] # NoRow
                       /\ requests'[j].key = requests[j].key
                       /\ requests'[j].payload = requests[j].payload
    BY <2>1, <2>3, <2>4
  <2>7. QED
    BY <2>1, <2>5, <2>6 DEF KeyBooksOnce
<1>4. ASSUME NEW b \in Accounts, NEW total \in Totals, seedBalance(b, total)
      PROVE  KeyBooksOnce'
  BY <1>4 DEF seedBalance, KeyBooksOnce
<1>5. QED
  BY <1>1, <1>2, <1>3, <1>4, Writers

(* Exactly-once creation: a key books at most once, whatever the record's  *)
(* age and however many callers race on it.                                *)
THEOREM KeysBookOnce == Spec => []KeyBooksOnce
<1>1. Init => KeyBooksOnce
  BY DEF Init, KeyBooksOnce
<1>2. QED
  BY <1>1, InitIInv, StepKeepsIInv, KeysStep, PTL DEF Spec

-----------------------------------------------------------------------------
(* What one step does to one caller.                                       *)

Recovering == {"recoverCheck", "recoverFind"}

Idempotent(c) == checkIdempotency(call[c].key, call[c].payload)

Dated(p) == p.first <= p.last

(* It leaves the caller alone.                                             *)
Stays(c) ==
  /\ pc'[c] = pc[c] /\ call'[c] = call[c]
  /\ failure'[c] = failure[c] /\ reply'[c] = reply[c]

(* It ends or begins a call, or turns a call away at the date check.       *)
Begins(c) ==
  \/ /\ pc'[c] \in {"idle", "check"}
     /\ reply'[c].outcome = "none"
     /\ pc'[c] = "check" => Dated(call'[c].payload)
  \/ /\ pc'[c] = "replied"
     /\ reply[c].outcome = "none"
     /\ reply'[c].outcome = "INVALID_DATE_RANGE"
     /\ ~ (isNotInPast(call'[c].payload, today) /\ Dated(call'[c].payload))

(* It takes the call to its next await.                                    *)
Moves(c) ==
  /\ pc[c] \notin {"idle", "replied"}
  /\ call'[c] = call[c] /\ reply'[c] = reply[c]
  /\ UNCHANGED <<clock, requests, idempotency>>
  /\ \/ pc'[c] \in {"enqueue", "queued"}
     \/ pc'[c] = "tx" /\ Idempotent(c) # "hit"
     \/ /\ pc'[c] = "recoverCheck"
        /\ failure'[c] = "constraint" => KeyTaken(call[c].key)
     \/ /\ pc'[c] = "recoverFind" /\ pc[c] = "recoverCheck"
        /\ failure'[c] = failure[c]

(* It answers the call.                                                    *)
Answers(c) ==
  /\ pc[c] \notin {"idle", "replied"}
  /\ pc'[c] = "replied" /\ call'[c] = call[c]
  /\ \/ /\ reply'[c].outcome = "cached" /\ Idempotent(c) = "hit"
        /\ reply'[c].id = idempotency[call[c].key].responseBody
     \/ /\ reply'[c].outcome = "created"
        /\ reply'[c].id \in Ids
        /\ requests'[reply'[c].id] # NoRow
        /\ requests'[reply'[c].id].key = call[c].key
        /\ requests'[reply'[c].id].payload = call[c].payload
     \/ /\ reply'[c].outcome = "recovered"
        /\ reply'[c].id \in RequestsUnder(call[c].key)
     \/ /\ reply'[c].outcome = "IDEMPOTENCY_CONFLICT" /\ Idempotent(c) # "hit"
     \/ /\ reply'[c].outcome \in {"OVERLAPPING_REQUEST", "BALANCE_NOT_FOUND",
                                 "INSUFFICIENT_BALANCE"}
        /\ pc[c] = "tx"
     \/ /\ reply'[c].outcome \in {"BALANCE_CONFLICT", "INTERNAL"}
        /\ pc[c] = "recoverFind" /\ RequestsUnder(call[c].key) = {}
        /\ reply'[c].outcome = "INTERNAL" => failure[c] = "constraint"

LEMMA RespondEffect ==
  ASSUME IInv, NEW c \in Clients, NEW o, NEW i, Respond(c, o, i)
  PROVE  /\ pc'[c] = "replied" /\ call'[c] = call[c]
         /\ reply'[c].outcome = o /\ reply'[c].id = i
BY DEF Respond, IInv, TypeOK, CallTypes

LEMMA GotoEffect ==
  ASSUME IInv, NEW c \in Clients, NEW label, Goto(c, label)
  PROVE  pc'[c] = label
BY DEF Goto, IInv, TypeOK, CallTypes

(* The step is one of c's own call.                                        *)
LEMMA OwnStep ==
  ASSUME IInv, NEW c \in Clients, Step(c)
  PROVE  Stays(c) \/ Moves(c) \/ Answers(c)
<1>0. \A o, i : Finish(c, o, i) => Respond(c, o, i)
  BY DEF Finish
<1>1. CASE CheckIdempotency(c)
  <2>1. pc[c] = "check" /\ UNCHANGED <<clock, requests, idempotency>>
    BY <1>1 DEF CheckIdempotency, database
  <2>2. CASE Respond(c, "cached", idempotency[call[c].key].responseBody)
               /\ Idempotent(c) = "hit"
    BY <2>1, <2>2, RespondEffect DEF Answers
  <2>3. CASE Respond(c, "IDEMPOTENCY_CONFLICT", NoRow) /\ Idempotent(c) = "conflict"
    BY <2>1, <2>3, RespondEffect DEF Answers
  <2>4. CASE Goto(c, "enqueue") /\ UNCHANGED <<call, attempt, failure, reply>>
    BY <2>1, <2>4, GotoEffect DEF Moves
  <2>5. QED
    BY <1>1, <2>2, <2>3, <2>4 DEF CheckIdempotency, Idempotent
<1>2. CASE Enqueue(c)
  BY <1>2, GotoEffect DEF Enqueue, Moves, database
<1>3. CASE LockedCheck(c)
  <2>1. pc[c] = "queued" /\ UNCHANGED <<clock, requests, idempotency>>
    BY <1>3 DEF LockedCheck, database
  <2>2. CASE Respond(c, "cached", idempotency[call[c].key].responseBody)
               /\ Idempotent(c) = "hit"
    BY <2>1, <2>2, RespondEffect DEF Answers
  <2>3. CASE Respond(c, "IDEMPOTENCY_CONFLICT", NoRow) /\ Idempotent(c) = "conflict"
    BY <2>1, <2>3, RespondEffect DEF Answers
  <2>4. CASE /\ Goto(c, "tx") /\ Idempotent(c) = "miss"
             /\ UNCHANGED <<createLocks, call, attempt, failure, reply>>
    BY <2>1, <2>4, GotoEffect DEF Moves
  <2>5. QED
    BY <1>0, <1>3, <2>2, <2>3, <2>4 DEF LockedCheck, Idempotent
<1>4. CASE TxCommit(c)
  <2> DEFINE k == call[c].key
             p == call[c].payload
             new == [key |-> k, payload |-> p, status |-> "PENDING"]
  <2>1. pc[c] = "tx"
    BY <1>4 DEF TxCommit
  <2>2. k \in Keys /\ p \in Payloads
    BY <1>4, CommitEffect
  <2>3. PICK i \in Ids :
          /\ requests' = [requests EXCEPT ![i] = new]
          /\ reply' = [reply EXCEPT ![c] = [outcome |-> "created", id |-> i]]
          /\ pc' = [pc EXCEPT ![c] = "replied"]
          /\ call' = call
    BY <1>4, CommitEffect
  <2>4. requests'[i] = new /\ new # NoRow
    BY <2>2, <2>3, NoRowAssumption DEF IInv, TypeOK, StoredTypes, RequestStatus
  <2>5. reply'[c] = [outcome |-> "created", id |-> i] /\ pc'[c] = "replied"
    BY <2>3 DEF IInv, TypeOK, CallTypes
  <2>6. QED
    BY <2>1, <2>3, <2>4, <2>5 DEF Answers
<1>5. CASE TxRefuse(c)
  <2>1. pc[c] = "tx"
    BY <1>5 DEF TxRefuse
  <2>2. PICK o \in {"OVERLAPPING_REQUEST", "BALANCE_NOT_FOUND",
                    "INSUFFICIENT_BALANCE"} : Finish(c, o, NoRow)
    BY <1>5 DEF TxRefuse
  <2>3. QED
    BY <1>0, <2>1, <2>2, RespondEffect DEF Answers
<1>6. CASE TxConstraint(c)
  BY <1>6, GotoEffect DEF TxConstraint, Moves, database
<1>7. CASE TxTransient(c)
  <2>1. pc[c] = "tx" /\ UNCHANGED <<clock, requests, idempotency, call, reply>>
    BY <1>7 DEF TxTransient, database
  <2>2. CASE UNCHANGED <<pc, failure>>
    BY <2>1, <2>2 DEF Stays
  <2>3. CASE /\ Goto(c, "recoverCheck")
             /\ failure' = [failure EXCEPT ![c] = "transient"]
    <3>1. failure'[c] = "transient"
      BY <2>3 DEF IInv, TypeOK, CallTypes
    <3>2. QED
      BY <2>1, <2>3, <3>1, GotoEffect DEF Moves
  <2>4. QED
    BY <1>7, <2>2, <2>3 DEF TxTransient
<1>8. CASE RecoverCheck(c)
  <2>1. pc[c] = "recoverCheck" /\ UNCHANGED <<clock, requests, idempotency>>
    BY <1>8 DEF RecoverCheck, database
  <2>2. CASE Respond(c, "cached", idempotency[call[c].key].responseBody)
               /\ Idempotent(c) = "hit"
    BY <2>1, <2>2, RespondEffect DEF Answers
  <2>3. CASE Respond(c, "IDEMPOTENCY_CONFLICT", NoRow) /\ Idempotent(c) = "conflict"
    BY <2>1, <2>3, RespondEffect DEF Answers
  <2>4. CASE /\ Goto(c, "recoverFind")
             /\ UNCHANGED <<createLocks, call, attempt, failure, reply>>
    BY <2>1, <2>4, GotoEffect DEF Moves
  <2>5. QED
    BY <1>0, <1>8, <2>2, <2>3, <2>4 DEF RecoverCheck, Idempotent
<1>9. CASE RecoverFind(c)
  <2>1. pc[c] = "recoverFind"
    BY <1>9 DEF RecoverFind
  <2>2. CASE \E i \in RequestsUnder(call[c].key) : Finish(c, "recovered", i)
    BY <1>0, <2>1, <2>2, RespondEffect DEF Answers
  <2>3. CASE /\ RequestsUnder(call[c].key) = {}
             /\ Finish(c, "BALANCE_CONFLICT", NoRow)
    BY <1>0, <2>1, <2>3, RespondEffect DEF Answers
  <2>4. CASE /\ RequestsUnder(call[c].key) = {}
             /\ failure[c] = "constraint"
             /\ Finish(c, "INTERNAL", NoRow)
    BY <1>0, <2>1, <2>4, RespondEffect DEF Answers
  <2>5. QED
    BY <1>9, <2>2, <2>3, <2>4 DEF RecoverFind
<1>10. QED
  BY <1>1, <1>2, <1>3, <1>4, <1>5, <1>6, <1>7, <1>8, <1>9 DEF Step

(* The step is of another call, or of none.                                *)
LEMMA OthersStay ==
  ASSUME IInv, NEW c \in Clients, NEW d \in Clients, c # d,
         \/ Step(d) \/ Return(d)
         \/ \E k \in Keys, p \in Payloads : Submit(d, k, p)
  PROVE  Stays(c)
<1>1. \A f : [f EXCEPT ![d] = @][c] = f[c]
  OBVIOUS
<1> USE DEF Stays, IInv, TypeOK, CallTypes, Goto
<1>2. CASE CheckIdempotency(d) \/ Enqueue(d) \/ TxConstraint(d) \/ TxTransient(d)
  BY <1>2 DEF CheckIdempotency, Enqueue, TxConstraint, TxTransient, Respond
<1>3. CASE LockedCheck(d) \/ RecoverCheck(d)
  BY <1>3 DEF LockedCheck, RecoverCheck, Finish, Respond
<1>4. CASE TxCommit(d) \/ TxRefuse(d) \/ RecoverFind(d)
  BY <1>4 DEF TxCommit, TxRefuse, RecoverFind, Finish, Respond
<1>5. CASE Return(d) \/ \E k \in Keys, p \in Payloads : Submit(d, k, p)
  BY <1>5 DEF Return, Submit
<1>6. QED
  BY <1>2, <1>3, <1>4, <1>5 DEF Step
LEMMA CallerStep ==
  ASSUME IInv, [Next]_vars, NEW c \in Clients,
         reply[c].outcome # "none" => pc[c] = "replied"
  PROVE  Stays(c) \/ Begins(c) \/ Moves(c) \/ Answers(c)
<1>1. ASSUME NEW d \in Clients, Step(d)
      PROVE  Stays(c) \/ Moves(c) \/ Answers(c)
  BY <1>1, OwnStep, OthersStay
<1>2. ASSUME NEW d \in Clients, NEW k \in Keys, NEW p \in Payloads,
             Submit(d, k, p)
      PROVE  Stays(c) \/ Begins(c)
  <2>1. CASE d # c
    BY <1>2, <2>1, OthersStay
  <2>2. CASE d = c
    <3>1. pc[c] = "idle" /\ reply[c].outcome = "none"
      BY <1>2, <2>2 DEF Submit
    <3>2. call'[c].payload = p /\ p.first \in Nat /\ p.last \in Nat
      BY <1>2, <2>2, PayloadsAssumption DEF Submit, IInv, TypeOK, CallTypes
    <3>3. CASE isNotInPast(p, today) /\ p.last >= p.first
      <4>1. pc'[c] = "check" /\ reply' = reply
        BY <1>2, <2>2, <3>3, GotoEffect DEF Submit
      <4>2. QED
        BY <3>1, <3>2, <3>3, <4>1 DEF Begins, Dated
    <3>4. CASE ~ (isNotInPast(p, today) /\ p.last >= p.first)
      <4>1. pc'[c] = "replied"
        BY <1>2, <2>2, <3>4, GotoEffect DEF Submit
      <4>2. reply'[c].outcome = "INVALID_DATE_RANGE"
        BY <1>2, <2>2, <3>4 DEF Submit, IInv, TypeOK, CallTypes
      <4>3. QED
        BY <3>1, <3>2, <3>4, <4>1, <4>2 DEF Begins, Dated
    <3>5. QED
      BY <3>3, <3>4
  <2>3. QED
    BY <2>1, <2>2
<1>3. ASSUME NEW d \in Clients, Return(d)
      PROVE  Stays(c) \/ Begins(c)
  <2>1. CASE d # c
    BY <1>3, <2>1, OthersStay
  <2>2. CASE d = c
    BY <1>3, <2>2, GotoEffect DEF Return, Begins, IInv, TypeOK, CallTypes
  <2>3. QED
    BY <2>1, <2>2
<1>4. ASSUME NEW i \in Ids,
             approveRequest(i) \/ rejectRequest(i) \/ cancelRequest(i)
      PROVE  Stays(c)
  BY <1>4 DEF approveRequest, rejectRequest, cancelRequest, Settle, locals, Stays
<1>5. ASSUME NEW a \in Accounts, NEW total \in Totals, seedBalance(a, total)
      PROVE  Stays(c)
  BY <1>5 DEF seedBalance, locals, Stays
<1>6. CASE Tick \/ UNCHANGED vars
  BY <1>6 DEF Tick, vars, locals, Stays
<1>7. CASE Restart
  BY <1>7 DEF Restart, Begins
<1>8. QED
  BY <1>1, <1>2, <1>3, <1>4, <1>5, <1>6, <1>7 DEF Next

(* Time only passes, and the idempotency table changes by a commit alone.  *)
LEMMA RecordsStep ==
  ASSUME IInv, [Next]_vars
  PROVE  /\ clock \in Nat /\ clock' \in Nat /\ clock <= clock'
         /\ \/ idempotency' = idempotency
            \/ clock' = clock /\ \E d \in Clients : TxCommit(d)
<1>1. clock \in Nat
  BY DEF IInv, TypeOK, StoredTypes
<1>2. ASSUME NEW c \in Clients, Step(c)
      PROVE  clock' = clock
  BY <1>2 DEF Step, CheckIdempotency, Enqueue, LockedCheck, TxCommit, TxRefuse,
     TxConstraint, TxTransient, RecoverCheck, RecoverFind
<1>3. CASE \/ \E c \in Clients, k \in Keys, p \in Payloads : Submit(c, k, p)
           \/ \E c \in Clients : Return(c)
           \/ \E i \in Ids : approveRequest(i) \/ rejectRequest(i) \/ cancelRequest(i)
           \/ \E a \in Accounts, total \in Totals : seedBalance(a, total)
           \/ Restart \/ UNCHANGED vars
  <2>1. clock' = clock
    BY <1>3 DEF Submit, Return, approveRequest, rejectRequest, cancelRequest,
       Settle, seedBalance, Restart, vars
  <2>2. ~ (\E d \in Clients : TxCommit(d)) => idempotency' = idempotency
    BY <1>3 DEF Submit, Return, approveRequest, rejectRequest, cancelRequest,
       Settle, seedBalance, Restart, vars, database
  <2>3. QED
    BY <1>1, <2>1, <2>2
<1>4. CASE Tick
  BY <1>1, <1>4 DEF Tick, database
<1>5. ASSUME NEW c \in Clients, Step(c)
      PROVE  idempotency' = idempotency \/ TxCommit(c)
  BY <1>5 DEF Step, CheckIdempotency, Enqueue, LockedCheck, TxRefuse,
     TxConstraint, TxTransient, RecoverCheck, RecoverFind, database
<1>6. QED
  BY <1>1, <1>2, <1>3, <1>4, <1>5 DEF Next

(* Nobody commits a call's own key and body while it is in its transaction *)
(* loop: whoever could is of the same lane.                                *)
LEMMA MissStays ==
  ASSUME IInv, [Next]_vars, NEW c \in Clients, pc[c] = "tx", Stays(c),
         Idempotent(c) # "hit"
  PROVE  Idempotent(c)' # "hit"
<1> DEFINE k == call[c].key
           p == call[c].payload
<1>1. k \in Keys /\ p \in Payloads /\ call'[c] = call[c]
  BY ChainFacts DEF Stays
<1>2. /\ idempotency \in [Keys -> IdempotencyRecord \cup {NoRow}]
      /\ clock \in Nat /\ clock' \in Nat /\ clock <= clock'
  BY RecordsStep DEF IInv, TypeOK, StoredTypes
<1>3. CASE idempotency' = idempotency
  <2>1. \/ idempotency[k] = NoRow
        \/ idempotency[k].expiresAt < clock
        \/ idempotency[k].requestHash # p
    BY DEF Idempotent, checkIdempotency
  <2>2. idempotency[k] # NoRow => idempotency[k].expiresAt \in Nat
    BY <1>1, <1>2 DEF IdempotencyRecord
  <2>3. idempotency[k] # NoRow /\ idempotency[k].expiresAt < clock =>
          idempotency[k].expiresAt < clock'
    BY <1>2, <2>2
  <2>4. QED
    BY <1>1, <1>3, <2>1, <2>3 DEF Idempotent, checkIdempotency
<1>4. ASSUME NEW d \in Clients, TxCommit(d), clock' = clock
      PROVE  Idempotent(c)' # "hit"
  <2>1. PICK i \in Ids :
          /\ idempotency' = [idempotency EXCEPT
               ![call[d].key] = [requestHash |-> call[d].payload,
                                 responseBody |-> i,
                                 expiresAt |-> clock + Ttl]]
          /\ pc' = [pc EXCEPT ![d] = "replied"]
    BY <1>4, CommitEffect
  <2>2. d # c
    BY <2>1 DEF Stays, IInv, TypeOK, CallTypes
  <2>3. pc[d] = "tx"
    BY <1>4 DEF TxCommit
  <2>4. call[d].payload # p
    <3>1. /\ Head(createLocks[p.lane]) = c
          /\ Head(createLocks[call[d].payload.lane]) = d
      BY <2>3, ChainFacts DEF Critical
    <3>2. QED
      BY <2>2, <3>1
  <2>5. CASE call[d].key = k
    <3>1. idempotency'[k].requestHash = call[d].payload
      BY <1>1, <1>2, <2>1, <2>5
    <3>2. QED
      BY <1>1, <2>4, <3>1 DEF Idempotent, checkIdempotency
  <2>6. CASE call[d].key # k
    <3>1. idempotency'[k] = idempotency[k]
      BY <1>1, <1>2, <2>1, <2>6
    <3>2. QED
      BY <1>1, <1>4, <3>1 DEF Idempotent, checkIdempotency
  <2>7. QED
    BY <2>5, <2>6
<1>5. QED
  BY <1>3, <1>4, RecordsStep

(* What is true of a call at each of its awaits.                           *)
CallerState ==
  \A c \in Clients :
    /\ reply[c].outcome # "none" => pc[c] = "replied"
    /\ pc[c] \notin {"idle", "replied"} => Dated(call[c].payload)
    /\ pc[c] = "tx" => Idempotent(c) # "hit"
    /\ pc[c] \in Recovering /\ failure[c] = "constraint" =>
         RequestsUnder(call[c].key) # {}

RecordsDated ==
  \A k \in Keys : idempotency[k] # NoRow => Dated(idempotency[k].requestHash)

CInv == IInv /\ KeyBooksOnce /\ CallerState /\ RecordsDated

LEMMA InitCInv == Init => CInv
<1>1. Init => KeyBooksOnce /\ CallerState /\ RecordsDated
  BY DEF Init, KeyBooksOnce, CallerState, RecordsDated, Recovering
<1>2. QED
  BY <1>1, InitIInv DEF CInv

(* A key that is taken has a request under it.                             *)
LEMMA TakenHasRequest ==
  ASSUME IInv, KeyBooksOnce, NEW k \in Keys, KeyTaken(k)
  PROVE  RequestsUnder(k) # {}
<1>1. idempotency[k] # NoRow => idempotency[k].responseBody \in Ids
  BY DEF IInv, TypeOK, StoredTypes, IdempotencyRecord
<1>2. QED
  BY <1>1 DEF KeyTaken, RequestsUnder, KeyBooksOnce

(* A replayable record shows a request of the same key and body.           *)
LEMMA HitHasRequest ==
  ASSUME IInv, KeyBooksOnce, NEW k \in Keys, NEW p,
         checkIdempotency(k, p) = "hit"
  PROVE  /\ idempotency[k].responseBody \in RequestsUnder(k)
         /\ requests[idempotency[k].responseBody].payload = p
         /\ idempotency[k] # NoRow /\ idempotency[k].requestHash = p
<1>1. idempotency[k] # NoRow /\ idempotency[k].requestHash = p
  BY DEF checkIdempotency
<1>2. idempotency[k].responseBody \in Ids
  BY <1>1 DEF IInv, TypeOK, StoredTypes, IdempotencyRecord
<1>3. QED
  BY <1>1, <1>2 DEF KeyBooksOnce, RequestsUnder

LEMMA RequestsUnderStay ==
  ASSUME IInv, [Next]_vars, NEW k
  PROVE  RequestsUnder(k) \subseteq RequestsUnder(k)'
BY BookingStays DEF RequestsUnder

LEMMA StepKeepsCInv == CInv /\ [Next]_vars => CInv'
<1> SUFFICES ASSUME CInv, [Next]_vars PROVE CInv'
  OBVIOUS
<1>0. IInv /\ KeyBooksOnce /\ IInv' /\ KeyBooksOnce'
  BY StepKeepsIInv, KeysStep DEF CInv
<1>1. CallerState'
  <2> SUFFICES ASSUME NEW c \in Clients
               PROVE  /\ reply'[c].outcome # "none" => pc'[c] = "replied"
                      /\ pc'[c] \notin {"idle", "replied"} => Dated(call'[c].payload)
                      /\ pc'[c] = "tx" => Idempotent(c)' # "hit"
                      /\ pc'[c] \in Recovering /\ failure'[c] = "constraint" =>
                           RequestsUnder(call[c].key)' # {}
    BY DEF CallerState
  <2>1. /\ reply[c].outcome # "none" => pc[c] = "replied"
        /\ pc[c] \notin {"idle", "replied"} => Dated(call[c].payload)
        /\ pc[c] = "tx" => Idempotent(c) # "hit"
        /\ pc[c] \in Recovering /\ failure[c] = "constraint" =>
             RequestsUnder(call[c].key) # {}
    BY DEF CInv, CallerState
  <2>2. \A k : RequestsUnder(k) \subseteq RequestsUnder(k)'
    BY <1>0, RequestsUnderStay
  <2>3. CASE Stays(c)
    <3>1. pc'[c] = "tx" => Idempotent(c)' # "hit"
      BY <1>0, <2>1, <2>3, MissStays DEF Stays
    <3>2. RequestsUnder(call[c].key) \subseteq RequestsUnder(call[c].key)'
      BY <2>2, <2>3 DEF Stays, RequestsUnder
    <3>3. QED
      BY <2>1, <2>3, <3>1, <3>2 DEF Stays
  <2>4. CASE Begins(c)
    BY <2>4 DEF Begins, Recovering
  <2>5. CASE Moves(c)
    <3>1. call'[c] = call[c] /\ reply'[c] = reply[c] /\ pc[c] \notin {"idle", "replied"}
      BY <2>5 DEF Moves
    <3>2. call[c].key \in Keys
      BY <1>0, <3>1, ChainFacts
    <3>3. Idempotent(c)' = Idempotent(c)
      BY <2>5 DEF Moves, Idempotent, checkIdempotency
    <3>4. KeyTaken(call[c].key) => RequestsUnder(call[c].key) # {}
      BY <1>0, <3>2, TakenHasRequest
    <3>5. RequestsUnder(call[c].key)' = RequestsUnder(call[c].key)
      BY <2>5 DEF Moves, RequestsUnder
    <3>6. QED
      BY <2>1, <2>5, <3>1, <3>3, <3>4, <3>5 DEF Moves, Recovering
  <2>6. CASE Answers(c)
    BY <2>6 DEF Answers, Recovering
  <2>7. QED
    BY <1>0, <2>1, <2>3, <2>4, <2>5, <2>6, CallerStep
<1>2. RecordsDated'
  <2>1. CASE idempotency' = idempotency
    BY <2>1 DEF CInv, RecordsDated
  <2>2. ASSUME NEW d \in Clients, TxCommit(d)
        PROVE  RecordsDated'
    <3>1. Dated(call[d].payload)
      BY <2>2 DEF TxCommit, CInv, CallerState
    <3>2. PICK i \in Ids :
            idempotency' = [idempotency EXCEPT
              ![call[d].key] = [requestHash |-> call[d].payload,
                                responseBody |-> i,
                                expiresAt |-> clock + Ttl]]
      BY <1>0, <2>2, CommitEffect
    <3>3. idempotency \in [Keys -> IdempotencyRecord \cup {NoRow}]
      BY <1>0 DEF IInv, TypeOK, StoredTypes
    <3>4. QED
      BY <3>1, <3>2, <3>3 DEF CInv, RecordsDated
  <2>3. QED
    BY <1>0, <2>1, <2>2, RecordsStep
<1>3. QED
  BY <1>0, <1>1, <1>2 DEF CInv

(* A 201 is never an empty promise: the caller's key has its booking, from *)
(* the commit, from the stored response or from the recovery's second read.*)
THEOREM AcceptedCallsAreBooked == Spec => []AcceptedIsBooked
<1>1. Init => AcceptedIsBooked
  BY DEF Init, AcceptedIsBooked, Accepted
<1>2. CInv /\ AcceptedIsBooked /\ [Next]_vars => AcceptedIsBooked'
  <2> SUFFICES ASSUME CInv, AcceptedIsBooked, [Next]_vars, NEW c \in Clients,
                      reply'[c].outcome \in Accepted
               PROVE  LET i == reply'[c].id
                      IN /\ i \in Ids
                         /\ requests'[i] # NoRow
                         /\ requests'[i].key = call'[c].key
                         /\ reply'[c].outcome # "recovered" =>
                              requests'[i].payload = call'[c].payload
    BY DEF AcceptedIsBooked
  <2>1. IInv /\ KeyBooksOnce /\ (reply[c].outcome # "none" => pc[c] = "replied")
    BY DEF CInv, CallerState
  <2>2. CASE Stays(c)
    <3>1. reply'[c] = reply[c] /\ call'[c] = call[c]
      BY <2>2 DEF Stays
    <3>2. QED
      BY <2>1, <3>1, BookingStays DEF AcceptedIsBooked
  <2>3. CASE Begins(c)
    BY <2>3 DEF Begins, Accepted
  <2>4. CASE Moves(c)
    <3>1. reply[c].outcome = "none"
      BY <2>1, <2>4 DEF Moves
    <3>2. QED
      BY <2>4, <3>1 DEF Moves, Accepted
  <2>5. CASE Answers(c)
    <3>1. call[c].key \in Keys
      BY <2>1, <2>5, ChainFacts DEF Answers
    <3>2. CASE reply'[c].outcome = "created"
      BY <2>5, <3>2 DEF Answers
    <3>3. CASE reply'[c].outcome = "cached"
      <4>1. /\ reply'[c].id \in RequestsUnder(call[c].key)
            /\ requests[reply'[c].id].payload = call[c].payload
        BY <2>1, <2>5, <3>1, <3>3, HitHasRequest DEF Answers, Idempotent
      <4>2. QED
        BY <2>1, <2>5, <4>1, BookingStays DEF Answers, RequestsUnder
    <3>4. CASE reply'[c].outcome = "recovered"
      <4>1. reply'[c].id \in RequestsUnder(call[c].key)
        BY <2>5, <3>4 DEF Answers
      <4>2. QED
        BY <2>1, <2>5, <3>4, <4>1, BookingStays DEF Answers, RequestsUnder
    <3>5. QED
      BY <3>2, <3>3, <3>4 DEF Accepted
  <2>6. QED
    BY <2>1, <2>2, <2>3, <2>4, <2>5, CallerStep
<1>3. QED
  BY <1>1, <1>2, InitCInv, StepKeepsCInv, PTL DEF Spec

(* The caller never gets the raw constraint error: whoever made the unique *)
(* index refuse has a booking, and nothing takes it away before the        *)
(* recovery looks for it.                                                  *)
THEOREM ConstraintsRecover == Spec => []ConstraintRecovers
<1>1. Init => ConstraintRecovers
  BY DEF Init, ConstraintRecovers
<1>2. CInv /\ ConstraintRecovers /\ [Next]_vars => ConstraintRecovers'
  <2> SUFFICES ASSUME CInv, ConstraintRecovers, [Next]_vars, NEW c \in Clients
               PROVE  reply'[c].outcome # "INTERNAL"
    BY DEF ConstraintRecovers
  <2>1. /\ reply[c].outcome # "INTERNAL"
        /\ reply[c].outcome # "none" => pc[c] = "replied"
        /\ pc[c] \in Recovering /\ failure[c] = "constraint" =>
             RequestsUnder(call[c].key) # {}
    BY DEF CInv, CallerState, ConstraintRecovers
  <2>2. Stays(c) \/ Begins(c) \/ Moves(c) \/ Answers(c)
    BY <2>1, CallerStep DEF CInv
  <2>3. QED
    BY <2>1, <2>2 DEF Stays, Begins, Moves, Answers, Recovering
<1>3. QED
  BY <1>1, <1>2, InitCInv, StepKeepsCInv, PTL DEF Spec

(* A retry of a committed call is replayed while its record lives: no path *)
(* answers it with a refusal except the date check before the key is read. *)
THEOREM RetriesAreReplayed == Spec => RetryIsReplayed
<1> DEFINE Replayed ==
      \A c \in Clients :
        /\ reply[c].outcome = "none"
        /\ reply'[c].outcome \in Codes
        /\ checkIdempotency(call'[c].key, call'[c].payload) = "hit"
        => /\ reply'[c].outcome = "INVALID_DATE_RANGE"
           /\ ~ isNotInPast(call'[c].payload, today)
<1>1. CInv /\ CInv' /\ [Next]_vars => Replayed
  <2> SUFFICES ASSUME CInv, CInv', [Next]_vars, NEW c \in Clients,
                      reply[c].outcome = "none",
                      reply'[c].outcome \in Codes,
                      checkIdempotency(call'[c].key, call'[c].payload) = "hit"
               PROVE  /\ reply'[c].outcome = "INVALID_DATE_RANGE"
                      /\ ~ isNotInPast(call'[c].payload, today)
    OBVIOUS
  <2>1. /\ IInv /\ KeyBooksOnce /\ IInv'
        /\ pc[c] = "tx" => Idempotent(c) # "hit"
        /\ reply'[c].outcome # "none" => pc'[c] = "replied"
    BY DEF CInv, CallerState
  <2>2. reply'[c].outcome # "none" /\ pc'[c] = "replied" /\ pc'[c] # "idle"
    BY <2>1 DEF Codes
  <2>3. call'[c].key \in Keys
    BY <2>1, <2>2 DEF IInv, TypeOK, CallTypes, ChainMatchesCallers
  <2>4. /\ idempotency[call'[c].key].responseBody \in RequestsUnder(call'[c].key)
        /\ idempotency[call'[c].key] # NoRow
        /\ idempotency[call'[c].key].requestHash = call'[c].payload
    BY <2>1, <2>3, HitHasRequest
  <2>5. Dated(call'[c].payload)
    BY <2>3, <2>4 DEF CInv, RecordsDated
  <2>6. Begins(c) \/ Answers(c)
    BY <2>1, <2>2, CallerStep DEF Stays, Moves
  <2>7. CASE Begins(c)
    BY <2>2, <2>5, <2>7 DEF Begins
  <2>8. CASE Answers(c)
    <3>1. Idempotent(c) = "hit" /\ RequestsUnder(call[c].key) # {}
      BY <2>4, <2>8 DEF Answers, Idempotent
    <3>2. reply'[c].outcome \in Accepted
      BY <2>1, <2>8, <3>1 DEF Answers, Accepted
    <3>3. QED
      BY <3>2 DEF Codes, Accepted
  <2>9. QED
    BY <2>6, <2>7, <2>8
<1>2. CInv /\ CInv' /\ [Next]_vars => [Replayed]_vars
  BY <1>1
<1>3. QED
  BY <1>2, InitCInv, StepKeepsCInv, PTL DEF Spec, RetryIsReplayed

-----------------------------------------------------------------------------
(* The counters of a balance row and the requests it was moved for.        *)

(* What one row of the requests table adds to DaysIn.                      *)
Term(table, i, a, statuses) ==
  IF /\ table[i] # NoRow
     /\ table[i].status \in statuses
     /\ AccountOf(table[i].payload) = a
    THEN calculateDaysRequested(table[i].payload) ELSE 0

Requests == [Ids -> Row \cup {NoRow}]

LEMMA TermType ==
  ASSUME NEW t \in Requests, NEW i \in Ids, NEW a, NEW statuses
  PROVE  Term(t, i, a, statuses) \in Nat
<1>1. t[i] # NoRow => t[i].payload \in Payloads
  BY DEF Requests, Row
<1>2. QED
  BY <1>1, DaysNat DEF Term

LEMMA DaysInIsSum ==
  ASSUME NEW t \in Requests, NEW a, NEW statuses
  PROVE  DaysIn(t, NoRow, a, statuses) =
           SumFunctionOnSet([i \in Ids |-> Term(t, i, a, statuses)], Ids)
BY DEF DaysIn, SumFunction, Term, Requests

(* One request is written: the sum changes by what that row adds.          *)
LEMMA DaysInStep ==
  ASSUME NEW t \in Requests, NEW u \in Requests, NEW i \in Ids,
         \A j \in Ids \ {i} : u[j] = t[j], NEW a, NEW statuses
  PROVE  /\ DaysIn(u, NoRow, a, statuses) =
              DaysIn(t, NoRow, a, statuses) - Term(t, i, a, statuses)
                + Term(u, i, a, statuses)
         /\ DaysIn(t, NoRow, a, statuses) \in Nat
         /\ Term(t, i, a, statuses) \in Nat /\ Term(u, i, a, statuses) \in Nat
<1> DEFINE f == [j \in Ids |-> Term(t, j, a, statuses)]
           g == [j \in Ids |-> Term(u, j, a, statuses)]
<1>1. \A j \in Ids : f[j] \in Nat /\ g[j] \in Nat
  BY TermType
<1>2. \A j \in Ids \ {i} : f[j] = g[j]
  BY DEF Term
<1>3. f[i] = Term(t, i, a, statuses) /\ g[i] = Term(u, i, a, statuses)
  OBVIOUS
<1>4. /\ DaysIn(t, NoRow, a, statuses) = SumFunctionOnSet(f, Ids)
      /\ DaysIn(u, NoRow, a, statuses) = SumFunctionOnSet(g, Ids)
  BY DaysInIsSum
<1> HIDE DEF f, g
<1>5. SumFunctionOnSet(g, Ids) = SumFunctionOnSet(f, Ids) - f[i] + g[i]
  BY <1>1, <1>2, IdsAssumption, SumOfChanged
<1>6. SumFunctionOnSet(f, Ids) \in Nat
  BY <1>1, IdsAssumption, SumOfNaturals
<1>7. QED
  BY <1>1, <1>3, <1>4, <1>5, <1>6

LEMMA NoDays ==
  ASSUME NEW t \in Requests, NEW a, NEW statuses,
         \A i \in Ids : t[i] # NoRow => AccountOf(t[i].payload) # a
  PROVE  DaysIn(t, NoRow, a, statuses) = 0
<1> DEFINE f == [j \in Ids |-> Term(t, j, a, statuses)]
<1>1. \A j \in Ids : f[j] = 0
  BY DEF Term
<1>2. DaysIn(t, NoRow, a, statuses) = SumFunctionOnSet(f, Ids)
  BY DaysInIsSum
<1> HIDE DEF f
<1>3. QED
  BY <1>1, <1>2, IdsAssumption, SumOfZeros

(* A request draws on a balance row that is there: nothing deletes one.    *)
HasRow ==
  \A i \in Ids : requests[i] # NoRow =>
    balances[AccountOf(requests[i].payload)] # NoRow

Counted(b, a, table) ==
  /\ b.pending = DaysIn(table, NoRow, a, {"PENDING"})
  /\ b.used = DaysIn(table, NoRow, a, {"APPROVED"})
  /\ b.available = b.total - DaysIn(table, NoRow, a, ActiveStatus)

(* A settlement moves its days the way its status says.                    *)
LEMMA SettleOutcome ==
  ASSUME IInv, NEW i \in Ids,
         approveRequest(i) \/ rejectRequest(i) \/ cancelRequest(i)
  PROVE  \E s \in {"APPROVED", "REJECTED", "CANCELLED"} :
           /\ requests' = [requests EXCEPT ![i].status = s]
           /\ LET a == AccountOf(requests[i].payload)
                  days == calculateDaysRequested(requests[i].payload)
              IN balances' = [balances EXCEPT
                   ![a] = IF s = "APPROVED" THEN finalizeUsed(balances[a], days)
                          ELSE releaseFromPending(balances[a], days)]
<1> USE DEF Settle
<1>1. CASE approveRequest(i)
  BY <1>1 DEF approveRequest
<1>2. CASE rejectRequest(i)
  BY <1>2 DEF rejectRequest
<1>3. CASE cancelRequest(i)
  BY <1>3 DEF cancelRequest
<1>4. QED
  BY <1>1, <1>2, <1>3

(* Three columns of a row, before and after one request of d days moves.   *)
LEMMA CommitCounts ==
  ASSUME NEW t \in Requests, NEW u \in Requests, NEW i \in Ids,
         \A j \in Ids \ {i} : u[j] = t[j],
         t[i] = NoRow, u[i] \in Row, u[i].status = "PENDING",
         NEW a, NEW b \in Balance, Counted(b, a, t)
  PROVE  IF AccountOf(u[i].payload) = a
           THEN Counted(atomicDeduct(b, calculateDaysRequested(u[i].payload)), a, u)
           ELSE Counted(b, a, u)
<1> DEFINE d == calculateDaysRequested(u[i].payload)
<1>1. u[i] # NoRow /\ u[i].payload \in Payloads /\ d \in Nat
  BY NoRowAssumption, DaysNat DEF Row
<1>2. \A statuses : Term(t, i, a, statuses) = 0
  BY DEF Term
<1>3. \A statuses : Term(u, i, a, statuses) =
        IF AccountOf(u[i].payload) = a /\ "PENDING" \in statuses THEN d ELSE 0
  BY <1>1 DEF Term
<1>4. \A statuses : /\ DaysIn(u, NoRow, a, statuses) =
                         DaysIn(t, NoRow, a, statuses) - Term(t, i, a, statuses)
                           + Term(u, i, a, statuses)
                    /\ DaysIn(t, NoRow, a, statuses) \in Nat
  BY DaysInStep
<1>5. CASE AccountOf(u[i].payload) = a
  <2>1. /\ DaysIn(u, NoRow, a, {"PENDING"}) = DaysIn(t, NoRow, a, {"PENDING"}) + d
        /\ DaysIn(u, NoRow, a, {"APPROVED"}) = DaysIn(t, NoRow, a, {"APPROVED"})
        /\ DaysIn(u, NoRow, a, ActiveStatus) = DaysIn(t, NoRow, a, ActiveStatus) + d
    BY <1>1, <1>2, <1>3, <1>4, <1>5 DEF ActiveStatus
  <2>2. /\ atomicDeduct(b, d).total = b.total
        /\ atomicDeduct(b, d).available = b.available - d
        /\ atomicDeduct(b, d).pending = b.pending + d
        /\ atomicDeduct(b, d).used = b.used
    BY DEF atomicDeduct, Balance
  <2>3. /\ b.total \in Nat /\ b.available \in Nat
        /\ DaysIn(t, NoRow, a, ActiveStatus) \in Nat
    BY <1>4 DEF Balance
  <2>4. QED
    BY <1>1, <1>5, <2>1, <2>2, <2>3 DEF Counted
<1>6. CASE AccountOf(u[i].payload) # a
  <2>1. \A statuses : DaysIn(u, NoRow, a, statuses) = DaysIn(t, NoRow, a, statuses)
    BY <1>2, <1>3, <1>4, <1>6
  <2>2. QED
    BY <1>6, <2>1 DEF Counted
<1>7. QED
  BY <1>5, <1>6

LEMMA SettleCounts ==
  ASSUME NEW t \in Requests, NEW u \in Requests, NEW i \in Ids,
         \A j \in Ids \ {i} : u[j] = t[j],
         t[i] \in Row, t[i].status = "PENDING",
         u[i] \in Row, u[i].payload = t[i].payload,
         u[i].status \in {"APPROVED", "REJECTED", "CANCELLED"},
         NEW a, NEW b \in Balance, Counted(b, a, t)
  PROVE  LET d == calculateDaysRequested(t[i].payload)
         IN IF AccountOf(t[i].payload) # a THEN Counted(b, a, u)
            ELSE IF u[i].status = "APPROVED" THEN Counted(finalizeUsed(b, d), a, u)
            ELSE Counted(releaseFromPending(b, d), a, u)
<1> DEFINE d == calculateDaysRequested(t[i].payload)
           s == u[i].status
<1>1. t[i] # NoRow /\ u[i] # NoRow /\ t[i].payload \in Payloads /\ d \in Nat
  BY NoRowAssumption, DaysNat DEF Row
<1>2. \A statuses : Term(t, i, a, statuses) =
        IF AccountOf(t[i].payload) = a /\ "PENDING" \in statuses THEN d ELSE 0
  BY <1>1 DEF Term
<1>3. \A statuses : Term(u, i, a, statuses) =
        IF AccountOf(t[i].payload) = a /\ s \in statuses THEN d ELSE 0
  BY <1>1 DEF Term
<1>4. \A statuses : /\ DaysIn(u, NoRow, a, statuses) =
                         DaysIn(t, NoRow, a, statuses) - Term(t, i, a, statuses)
                           + Term(u, i, a, statuses)
                    /\ DaysIn(t, NoRow, a, statuses) \in Nat
  BY DaysInStep
<1>5. CASE AccountOf(t[i].payload) = a
  <2>1. /\ DaysIn(u, NoRow, a, {"PENDING"}) = DaysIn(t, NoRow, a, {"PENDING"}) - d
        /\ DaysIn(u, NoRow, a, {"APPROVED"}) =
             IF s = "APPROVED" THEN DaysIn(t, NoRow, a, {"APPROVED"}) + d
             ELSE DaysIn(t, NoRow, a, {"APPROVED"})
        /\ DaysIn(u, NoRow, a, ActiveStatus) =
             IF s = "APPROVED" THEN DaysIn(t, NoRow, a, ActiveStatus)
             ELSE DaysIn(t, NoRow, a, ActiveStatus) - d
    BY <1>1, <1>2, <1>3, <1>4, <1>5 DEF ActiveStatus
  <2>2. /\ releaseFromPending(b, d).total = b.total
        /\ releaseFromPending(b, d).available = b.available + d
        /\ releaseFromPending(b, d).pending = b.pending - d
        /\ releaseFromPending(b, d).used = b.used
        /\ finalizeUsed(b, d).total = b.total
        /\ finalizeUsed(b, d).available = b.available
        /\ finalizeUsed(b, d).pending = b.pending - d
        /\ finalizeUsed(b, d).used = b.used + d
    BY DEF releaseFromPending, finalizeUsed, Balance
  <2>3. /\ b.total \in Nat /\ b.available \in Nat
        /\ DaysIn(t, NoRow, a, ActiveStatus) \in Nat
    BY <1>4 DEF Balance
  <2>4. QED
    BY <1>1, <1>5, <2>1, <2>2, <2>3 DEF Counted
<1>6. CASE AccountOf(t[i].payload) # a
  <2>1. \A statuses : DaysIn(u, NoRow, a, statuses) = DaysIn(t, NoRow, a, statuses)
    BY <1>2, <1>3, <1>4, <1>6
  <2>2. QED
    BY <1>6, <2>1 DEF Counted
<1>7. QED
  BY <1>5, <1>6

LEMMA StepKeepsCounters ==
  IInv /\ HasRow /\ CountersMatchRequests /\ [Next]_vars
    => HasRow' /\ CountersMatchRequests'
<1> SUFFICES ASSUME IInv, HasRow, CountersMatchRequests, [Next]_vars
             PROVE  HasRow' /\ CountersMatchRequests'
  OBVIOUS
<1>0. /\ requests \in Requests /\ requests' \in Requests
      /\ balances \in [Accounts -> Balance \cup {NoRow}]
      /\ balances' \in [Accounts -> Balance \cup {NoRow}]
  BY StepKeepsIInv DEF IInv, TypeOK, StoredTypes, Requests
<1>1. \A a \in Accounts : balances[a] # NoRow =>
        balances[a] \in Balance /\ Counted(balances[a], a, requests)
  BY <1>0 DEF CountersMatchRequests, Counted
<1>2. SUFFICES /\ HasRow'
               /\ \A a \in Accounts : balances'[a] # NoRow =>
                    Counted(balances'[a], a, requests')
  BY DEF CountersMatchRequests, Counted
<1>3. CASE UNCHANGED <<balances, requests, idempotency>>
  BY <1>1, <1>3 DEF HasRow
<1>4. ASSUME NEW c \in Clients, TxCommit(c)
      PROVE  /\ HasRow'
             /\ \A a \in Accounts : balances'[a] # NoRow =>
                  Counted(balances'[a], a, requests')
  <2> DEFINE p == call[c].payload
             acc == AccountOf(p)
             d == calculateDaysRequested(p)
  <2>1. /\ p \in Payloads /\ acc \in Accounts /\ d \in Nat
        /\ balances[acc] \in Balance /\ call[c].key \in Keys
        /\ balances' = [balances EXCEPT ![acc] = atomicDeduct(balances[acc], d)]
    BY <1>4, CommitEffect, DaysNat
  <2>2. PICK i \in Ids :
          /\ requests[i] = NoRow
          /\ requests' = [requests EXCEPT
               ![i] = [key |-> call[c].key, payload |-> p, status |-> "PENDING"]]
    BY <1>4, CommitEffect
  <2>3. /\ requests[i] = NoRow
        /\ requests'[i] \in Row /\ requests'[i].status = "PENDING"
        /\ requests'[i].payload = p
        /\ \A j \in Ids \ {i} : requests'[j] = requests[j]
    BY <1>0, <2>1, <2>2 DEF Requests, Row, RequestStatus
  <2>4. /\ balances'[acc] = atomicDeduct(balances[acc], d)
        /\ \A a \in Accounts \ {acc} : balances'[a] = balances[a]
    BY <1>0, <2>1
  <2>5. balances[acc] # NoRow
    BY <2>1, NoRowAssumption
  <2>6. balances'[acc] # NoRow
    BY <2>1, <2>4, <1>4, BalanceArithmetic, NoRowAssumption DEF TxCommit
  <2>7. \A j \in Ids \ {i} : requests[j] # NoRow =>
          AccountOf(requests[j].payload) \in Accounts
    BY <1>0, DaysNat DEF Requests, Row
  <2>8. HasRow'
    BY <2>3, <2>4, <2>6, <2>7 DEF HasRow
  <2>9. ASSUME NEW a \in Accounts, balances'[a] # NoRow
        PROVE  Counted(balances'[a], a, requests')
    <3>1. balances[a] \in Balance /\ Counted(balances[a], a, requests)
      BY <1>1, <2>4, <2>5, <2>9
    <3>2. IF acc = a THEN Counted(atomicDeduct(balances[a], d), a, requests')
                     ELSE Counted(balances[a], a, requests')
      <4>1. IF AccountOf(requests'[i].payload) = a
              THEN Counted(atomicDeduct(balances[a],
                     calculateDaysRequested(requests'[i].payload)), a, requests')
              ELSE Counted(balances[a], a, requests')
        BY <1>0, <2>3, <3>1, CommitCounts
      <4>2. QED
        BY <2>3, <4>1
    <3>3. QED
      BY <2>4, <3>2
  <2>10. QED
    BY <2>8, <2>9
<1>5. ASSUME NEW i \in Ids,
             approveRequest(i) \/ rejectRequest(i) \/ cancelRequest(i)
      PROVE  /\ HasRow'
             /\ \A a \in Accounts : balances'[a] # NoRow =>
                  Counted(balances'[a], a, requests')
  <2> DEFINE acc == AccountOf(requests[i].payload)
             d == calculateDaysRequested(requests[i].payload)
  <2>1. /\ requests[i] \in Row /\ requests[i].status = "PENDING"
        /\ balances[acc] \in Balance /\ d \in Nat
    BY <1>5, SettleEffect
  <2>2. PICK s \in {"APPROVED", "REJECTED", "CANCELLED"} :
          /\ requests' = [requests EXCEPT ![i].status = s]
          /\ balances' = [balances EXCEPT
               ![acc] = IF s = "APPROVED" THEN finalizeUsed(balances[acc], d)
                        ELSE releaseFromPending(balances[acc], d)]
    BY <1>5, SettleOutcome
  <2>3. /\ requests'[i] \in Row /\ requests'[i].status = s
        /\ requests'[i].payload = requests[i].payload
        /\ \A j \in Ids \ {i} : requests'[j] = requests[j]
    BY <1>0, <2>1, <2>2 DEF Requests, Row, RequestStatus
  <2>4. acc \in Accounts
    BY <2>1, DaysNat DEF Row
  <2>5. /\ balances'[acc] = IF s = "APPROVED" THEN finalizeUsed(balances[acc], d)
                            ELSE releaseFromPending(balances[acc], d)
        /\ \A a \in Accounts \ {acc} : balances'[a] = balances[a]
    BY <1>0, <2>2, <2>4
  <2>6. balances[acc] # NoRow /\ requests[i] # NoRow
    BY <2>1, NoRowAssumption DEF Row
  <2>7. CanSettle(balances[acc], d)
    BY <1>5 DEF approveRequest, rejectRequest, cancelRequest, Settle
  <2>8. balances'[acc] # NoRow
    BY <2>1, <2>5, <2>7, BalanceArithmetic, NoRowAssumption
  <2>9. \A j \in Ids : requests[j] # NoRow =>
          AccountOf(requests[j].payload) \in Accounts
    BY <1>0, DaysNat DEF Requests, Row
  <2>10. HasRow'
    BY <2>3, <2>5, <2>6, <2>8, <2>9 DEF HasRow
  <2>11. ASSUME NEW a \in Accounts, balances'[a] # NoRow
         PROVE  Counted(balances'[a], a, requests')
    <3>1. balances[a] \in Balance /\ Counted(balances[a], a, requests)
      BY <1>1, <2>5, <2>6, <2>11
    <3>2. IF acc # a THEN Counted(balances[a], a, requests')
          ELSE IF s = "APPROVED"
                 THEN Counted(finalizeUsed(balances[a], d), a, requests')
          ELSE Counted(releaseFromPending(balances[a], d), a, requests')
      BY <1>0, <2>1, <2>3, <3>1, SettleCounts
    <3>3. QED
      BY <2>5, <3>2
  <2>12. QED
    BY <2>10, <2>11
<1>6. ASSUME NEW b \in Accounts, NEW total \in Totals, seedBalance(b, total)
      PROVE  /\ HasRow'
             /\ \A a \in Accounts : balances'[a] # NoRow =>
                  Counted(balances'[a], a, requests')
  <2>1. /\ balances[b] = NoRow /\ requests' = requests
        /\ balances'[b] = upsertBalance(total)
        /\ \A a \in Accounts \ {b} : balances'[a] = balances[a]
    BY <1>0, <1>6 DEF seedBalance
  <2>2. total \in Nat /\ upsertBalance(total) # NoRow
    BY NumbersAssumption, NoRowAssumption, SeedArithmetic
  <2>3. \A j \in Ids : requests[j] # NoRow =>
          /\ AccountOf(requests[j].payload) \in Accounts
          /\ AccountOf(requests[j].payload) # b
    BY <1>0, <2>1, DaysNat DEF Requests, Row, HasRow
  <2>4. HasRow'
    BY <2>1, <2>3 DEF HasRow
  <2>5. \A statuses : DaysIn(requests, NoRow, b, statuses) = 0
    BY <1>0, <2>3, NoDays
  <2>6. Counted(balances'[b], b, requests')
    BY <2>1, <2>2, <2>5 DEF Counted, upsertBalance
  <2>7. \A a \in Accounts : balances'[a] # NoRow =>
          Counted(balances'[a], a, requests')
    BY <1>1, <2>1, <2>6
  <2>8. QED
    BY <2>4, <2>7
<1>7. QED
  BY <1>3, <1>4, <1>5, <1>6, Writers

LEMMA InitCounters == Init => HasRow /\ CountersMatchRequests
BY DEF Init, HasRow, CountersMatchRequests

(* The counters of every balance are what its requests say, for any number *)
(* of requests and any order of creations and settlements.                 *)
THEOREM CountersAreExact == Spec => []CountersMatchRequests
BY InitIInv, StepKeepsIInv, InitCounters, StepKeepsCounters, PTL DEF Spec

-----------------------------------------------------------------------------
(* TimeOffService implements LeaveLedger.                                  *)

(* The grant a step leaves is that of each account's row.                  *)
granted == [a \in Accounts |->
              IF balances[a] = NoRow THEN NoRow ELSE balances[a].total]

LEMMA InitImplements == Init => Ledger!Init
BY DEF Init, Ledger!Init

(* A commit is a booking: what is free, by the counters, is the grant less *)
(* the days of the bookings that count, and the transaction has looked at  *)
(* every one of them.                                                      *)
LEMMA CommitReserves ==
  ASSUME IInv, CountersMatchRequests, NEW c \in Clients, TxCommit(c)
  PROVE  granted' = granted /\ Ledger!Next
<1> DEFINE k == call[c].key
           p == call[c].payload
           acc == AccountOf(p)
           d == calculateDaysRequested(p)
<1>0. /\ requests \in Requests
      /\ balances \in [Accounts -> Balance \cup {NoRow}]
  BY DEF IInv, TypeOK, StoredTypes, Requests
<1>1. /\ k \in Keys /\ p \in Payloads /\ d \in Nat /\ acc \in Accounts
      /\ balances[acc] \in Balance /\ balances[acc] # NoRow
      /\ balances' = [balances EXCEPT ![acc] = atomicDeduct(balances[acc], d)]
      /\ ~ Overlaps(p) /\ ~ KeyTaken(k)
  BY CommitEffect, DaysNat, NoRowAssumption
<1>2. PICK i \in Ids :
        /\ requests[i] = NoRow
        /\ requests' = [requests EXCEPT
             ![i] = [key |-> k, payload |-> p, status |-> "PENDING"]]
  BY CommitEffect
<1>3. CanDeduct(balances[acc], d)
  BY DEF TxCommit
<1>4. /\ balances'[acc] # NoRow
      /\ balances'[acc].total = balances[acc].total
      /\ \A a \in Accounts \ {acc} : balances'[a] = balances[a]
  <2>1. balances'[acc] = atomicDeduct(balances[acc], d)
    BY <1>0, <1>1
  <2>2. atomicDeduct(balances[acc], d).total = balances[acc].total
    BY <1>1 DEF atomicDeduct, Balance
  <2>3. QED
    BY <1>0, <1>1, <1>3, <2>1, <2>2, BalanceArithmetic, NoRowAssumption
<1>5. granted' = granted
  BY <1>1, <1>4 DEF granted
<1>6. granted[acc] = balances[acc].total /\ granted[acc] # NoRow
  BY <1>1, NoRowAssumption DEF granted, Balance
<1>7. DaysIn(requests, NoRow, acc, ActiveStatus) + d <= granted[acc]
  <2>1. /\ balances[acc].available =
             balances[acc].total - DaysIn(requests, NoRow, acc, ActiveStatus)
        /\ balances[acc].available >= d
    BY <1>1, <1>3 DEF CountersMatchRequests, CanDeduct
  <2>2. DaysIn(requests, NoRow, acc, ActiveStatus) \in Nat
    BY <1>0, <1>2, DaysInStep
  <2>3. balances[acc].total \in Nat
    BY <1>1 DEF Balance
  <2> HIDE DEF d, acc
  <2>4. QED
    BY <1>1, <1>6, <2>1, <2>2, <2>3
<1>8. \A j \in Ids : requests[j] # NoRow =>
        /\ requests[j].key # k
        /\ ~ ( /\ requests[j].status \in ActiveStatus
               /\ requests[j].payload.lane = p.lane
               /\ datesOverlap(p, requests[j].payload) )
  BY <1>1 DEF Overlaps, KeyTaken
<1>9. /\ Ledger!AccountOf(p) = acc
      /\ Ledger!calculateDaysRequested(p) = d
      /\ Ledger!Booked(acc) = DaysIn(requests, NoRow, acc, ActiveStatus)
  <2>1. Ledger!AccountOf(p) = acc /\ Ledger!calculateDaysRequested(p) = d
    BY DEF Ledger!AccountOf, AccountOf, Ledger!calculateDaysRequested,
       calculateDaysRequested
  <2>2. Ledger!Booked(acc) = DaysIn(requests, NoRow, acc, ActiveStatus)
    BY DEF Ledger!Booked, Ledger!DaysIn, DaysIn, Ledger!AccountOf, AccountOf,
       Ledger!calculateDaysRequested, calculateDaysRequested,
       Ledger!ActiveStatus, ActiveStatus, Ledger!SumFunction, SumFunction,
       Ledger!SumFunctionOnSet, SumFunctionOnSet,
       Ledger!FoldFunctionOnSet, FoldFunctionOnSet,
       Ledger!MapThenFoldSet, MapThenFoldSet
  <2>3. QED
    BY <2>1, <2>2
<1>10. Ledger!Reserve(i, k, p)
  <2>1. /\ granted[acc] # NoRow
        /\ Ledger!Booked(acc) + d <= granted[acc]
        /\ requests[i] = NoRow
        /\ requests' = [requests EXCEPT
             ![i] = [key |-> k, payload |-> p, status |-> "PENDING"]]
        /\ granted' = granted
    BY <1>2, <1>5, <1>6, <1>7, <1>9
  <2> HIDE DEF k, p, acc, d
  <2>2. QED
    BY <1>8, <1>9, <2>1 DEF granted, Ledger!Reserve,
       Ledger!ActiveStatus, ActiveStatus, Ledger!datesOverlap, datesOverlap
<1>11. QED
  BY <1>1, <1>5, <1>10 DEF Ledger!Next

(* An approval, a rejection and a cancellation settle; no total moves.     *)
LEMMA SettlementSettles ==
  ASSUME IInv, NEW i \in Ids,
         approveRequest(i) \/ rejectRequest(i) \/ cancelRequest(i)
  PROVE  Ledger!Next
<1> DEFINE acc == AccountOf(requests[i].payload)
           d == calculateDaysRequested(requests[i].payload)
<1>0. balances \in [Accounts -> Balance \cup {NoRow}]
  BY DEF IInv, TypeOK, StoredTypes
<1>1. /\ requests[i] \in Row /\ requests[i].status = "PENDING"
      /\ balances[acc] \in Balance /\ d \in Nat
      /\ requests[i] # NoRow /\ acc \in Accounts /\ balances[acc] # NoRow
  BY SettleEffect, DaysNat, NoRowAssumption DEF Row
<1>2. PICK s \in {"APPROVED", "REJECTED", "CANCELLED"} :
        /\ requests' = [requests EXCEPT ![i].status = s]
        /\ balances' = [balances EXCEPT
             ![acc] = IF s = "APPROVED" THEN finalizeUsed(balances[acc], d)
                      ELSE releaseFromPending(balances[acc], d)]
  BY SettleOutcome
<1>3. /\ balances'[acc] # NoRow
      /\ balances'[acc].total = balances[acc].total
      /\ \A a \in Accounts \ {acc} : balances'[a] = balances[a]
  <2>1. CanSettle(balances[acc], d)
    BY DEF approveRequest, rejectRequest, cancelRequest, Settle
  <2>2. balances'[acc] = IF s = "APPROVED" THEN finalizeUsed(balances[acc], d)
                         ELSE releaseFromPending(balances[acc], d)
    BY <1>0, <1>1, <1>2
  <2>3. /\ finalizeUsed(balances[acc], d).total = balances[acc].total
        /\ releaseFromPending(balances[acc], d).total = balances[acc].total
    BY <1>1 DEF finalizeUsed, releaseFromPending, Balance
  <2>4. QED
    BY <1>0, <1>1, <1>2, <2>1, <2>2, <2>3, BalanceArithmetic, NoRowAssumption
<1>4. granted' = granted
  BY <1>1, <1>3 DEF granted
<1>5. Ledger!Settle(i, s)
  BY <1>1, <1>2, <1>4 DEF granted, Ledger!Settle, Ledger!VALID_TRANSITIONS,
     Ledger!RequestStatus
<1>6. QED
  BY <1>5 DEF Ledger!Next, Ledger!RequestStatus

LEMMA SeedGrants ==
  ASSUME NEW a \in Accounts, NEW total \in Totals, seedBalance(a, total), IInv
  PROVE  Ledger!Next
<1>1. /\ balances[a] = NoRow /\ requests' = requests
      /\ balances' = [balances EXCEPT ![a] = upsertBalance(total)]
      /\ balances \in [Accounts -> Balance \cup {NoRow}]
  BY DEF seedBalance, IInv, TypeOK, StoredTypes
<1>2. /\ upsertBalance(total) # NoRow
      /\ upsertBalance(total).total = total
  BY NumbersAssumption, NoRowAssumption, SeedArithmetic DEF upsertBalance
<1>3. granted[a] = NoRow /\ granted' = [granted EXCEPT ![a] = total]
  BY <1>1, <1>2 DEF granted
<1>4. Ledger!Grant(a, total)
  BY <1>1, <1>3 DEF granted, Ledger!Grant
<1>5. QED
  BY <1>4 DEF Ledger!Next

(* Refinement: for every instance, whatever the callers, the retries, the  *)
(* expiry of records and the restarts do, the tables show a LeaveLedger.   *)
THEOREM ServiceImplementsLedger == Spec => ImplementsLedger
<1>1. /\ IInv /\ CountersMatchRequests /\ [Next]_vars
      => [Ledger!Next]_(Ledger!vars)
  <2> SUFFICES ASSUME IInv, CountersMatchRequests, [Next]_vars
               PROVE  Ledger!Next \/ UNCHANGED Ledger!vars
    OBVIOUS
  <2>1. CASE UNCHANGED <<balances, requests, idempotency>>
    BY <2>1 DEF Ledger!vars
  <2>2. QED
    BY <2>1, Writers, CommitReserves, SettlementSettles, SeedGrants
<1>2. QED
  BY <1>1, InitIInv, StepKeepsIInv, InitCounters, StepKeepsCounters,
     InitImplements, PTL DEF Spec, ImplementsLedger, Ledger!Spec
=============================================================================
