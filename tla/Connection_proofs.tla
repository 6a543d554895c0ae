------------------------- MODULE Connection_proofs --------------------------
(***************************************************************************)
(* Proofs about Connection, for any number of handlers, keys and bodies.   *)
(*                                                                         *)
(* The inductive invariant is the argument for isolation on one shared     *)
(* connection: the handler that owns the transaction is the one between    *)
(* its BEGIN and its COMMIT or ROLLBACK, and what the connection sees is   *)
(* the file with that handler's statements so far applied to it (TxState). *)
(* The tables agree after a COMMIT because the statements of one handler,  *)
(* taken together, move the days they book or settle.                      *)
(***************************************************************************)
EXTENDS Connection, FunctionSums

Inside == InTx \cup {"rollback"}

OwnerRight == \A s \in Sessions : pc[s] \in Inside <=> owner = s

(* Which statements each operation executes, and that a handler at work    *)
(* has not been answered.                                                  *)
LocalRight(s) ==
  /\ pc[s] # "idle" => job[s] \in Jobs /\ reply[s] = "none"
  /\ pc[s] \in {"check", "locked", "overlap", "insertRequest", "insertRecord",
                "recoverCheck", "recoverFind"} => job[s].op = "create"
  /\ pc[s] \in {"find", "status"} => job[s].op \in Decisions
  /\ reply[s] = "done" => job[s] \in Jobs

(* The transaction of handler s: what it may do, and what it makes.        *)
AccountOfJob(s) == AccountOf(Body[job[s].key])

DaysOfJob(s) == calculateDaysRequested(Body[job[s].key])

CanMove(s) ==
  IF job[s].op = "create" THEN CanDeduct(file.balances[AccountOfJob(s)], DaysOfJob(s))
                          ELSE CanSettle(file.balances[AccountOfJob(s)], DaysOfJob(s))

Moved(s) ==
  LET b == file.balances[AccountOfJob(s)]
  IN IF job[s].op = "create" THEN atomicDeduct(b, DaysOfJob(s))
     ELSE IF job[s].op = "APPROVED" THEN finalizeUsed(b, DaysOfJob(s))
     ELSE releaseFromPending(b, DaysOfJob(s))

NewStatus(s) == IF job[s].op = "create" THEN "PENDING" ELSE job[s].op

OldStatus(s) == IF job[s].op = "create" THEN None ELSE "PENDING"

(* The statements after which each table has changed.                      *)
BalanceWritten(s) == pc[s] \in {"insertRequest", "insertRecord", "commit"}

StatusWritten(s) ==
  \/ pc[s] \in {"insertRecord", "commit"}
  \/ job[s].op # "create" /\ pc[s] \in {"balance", "saveBalance"}

RecordWritten(s) == job[s].op = "create" /\ pc[s] = "commit"

(* A booking that is past the overlap check overlaps nothing in the file.  *)
Checked(s) ==
  job[s].op = "create" /\ pc[s] # "overlap" =>
    \A k \in Keys :
      /\ file.requests[k] \in ActiveStatus
      /\ Body[k].lane = Body[job[s].key].lane
      => ~ datesOverlap(Body[job[s].key], Body[k])

(* What the connection sees in the midst of it.                            *)
TxState(s) ==
  /\ view.balances = IF BalanceWritten(s)
                       THEN [file.balances EXCEPT ![AccountOfJob(s)] = Moved(s)]
                       ELSE file.balances
  /\ view.requests = IF StatusWritten(s)
                       THEN [file.requests EXCEPT ![job[s].key] = NewStatus(s)]
                       ELSE file.requests
  /\ view.records = IF RecordWritten(s) THEN file.records \cup {job[s].key}
                                        ELSE file.records
  /\ StatusWritten(s) \/ pc[s] = "status" => file.requests[job[s].key] = OldStatus(s)
  /\ BalanceWritten(s) \/ pc[s] = "saveBalance" => CanMove(s)
  /\ pc[s] = "saveBalance" => row[s] = Moved(s)
  /\ Checked(s)

ViewRight ==
  /\ owner = None => view = file
  /\ \A s \in Sessions : pc[s] \in InTx => TxState(s)

CInv ==
  /\ TypeOK
  /\ OwnerRight
  /\ \A s \in Sessions : LocalRight(s)
  /\ ViewRight
  /\ TablesAgree
  /\ DoneIsDurable

-----------------------------------------------------------------------------
(* The arithmetic of a booked or settled number of days.                   *)

LEMMA NoneIsNothing ==
  None \notin Sessions /\ None \notin RequestStatus /\ None \notin Balance
BY NoneAssumption

LEMMA OpsAreStatuses ==
  Decisions \subseteq {"APPROVED", "REJECTED", "CANCELLED"} /\ "create" \notin Decisions
BY DecisionsAssumption DEF RequestStatus

LEMMA JobFields ==
  ASSUME NEW j \in Jobs
  PROVE  /\ j.key \in Keys /\ j.op \in Decisions \cup {"create"}
         /\ calculateDaysRequested(Body[j.key]) \in Nat
         /\ AccountOf(Body[j.key]) \in Accounts
<1>1. j.key \in Keys /\ j.op \in Decisions \cup {"create"}
  BY DEF Jobs
<1>2. Body[j.key].first \in Nat /\ Body[j.key].last \in Nat
  BY <1>1, BodyAssumption
<1>3. calculateDaysRequested(Body[j.key]) \in Nat
  BY <1>2 DEF calculateDaysRequested
<1>4. AccountOf(Body[j.key]) \in Accounts
  BY <1>1 DEF Accounts
<1>5. QED
  BY <1>1, <1>3, <1>4

LEMMA DeductedRow ==
  ASSUME NEW b \in Balance, NEW d \in Nat, CanDeduct(b, d)
  PROVE  /\ atomicDeduct(b, d) \in Balance
         /\ atomicDeduct(b, d).total = b.total
         /\ atomicDeduct(b, d).available = b.available - d
         /\ atomicDeduct(b, d).pending = b.pending + d
         /\ atomicDeduct(b, d).used = b.used
<1>1. b.available - d \in Nat /\ b.pending + d \in Nat
  BY DEF CanDeduct, Balance
<1>2. QED
  BY <1>1 DEF Balance, atomicDeduct

LEMMA SettledRow ==
  ASSUME NEW b \in Balance, NEW d \in Nat, CanSettle(b, d)
  PROVE  /\ finalizeUsed(b, d) \in Balance
         /\ finalizeUsed(b, d).total = b.total
         /\ finalizeUsed(b, d).available = b.available
         /\ finalizeUsed(b, d).pending = b.pending - d
         /\ finalizeUsed(b, d).used = b.used + d
         /\ releaseFromPending(b, d) \in Balance
         /\ releaseFromPending(b, d).total = b.total
         /\ releaseFromPending(b, d).available = b.available + d
         /\ releaseFromPending(b, d).pending = b.pending - d
         /\ releaseFromPending(b, d).used = b.used
<1>1. /\ b.pending - d \in Nat /\ b.used + d \in Nat /\ b.available + d \in Nat
  BY DEF CanSettle, Balance
<1>2. QED
  BY <1>1 DEF Balance, finalizeUsed, releaseFromPending

-----------------------------------------------------------------------------
(* Sums of days over the requests of a table.                              *)

StatusTables == [Keys -> RequestStatus \cup {None}]

DaysOf(t, k, a, statuses) ==
  IF t[k] \in statuses /\ AccountOf(Body[k]) = a
    THEN calculateDaysRequested(Body[k]) ELSE 0

LEMMA DaysOfType ==
  ASSUME NEW t, NEW k \in Keys, NEW a, NEW statuses
  PROVE  DaysOf(t, k, a, statuses) \in Nat
<1>1. Body[k].first \in Nat /\ Body[k].last \in Nat
  BY BodyAssumption
<1>2. QED
  BY <1>1 DEF DaysOf, calculateDaysRequested

LEMMA DaysUnderIsSum ==
  ASSUME NEW t, NEW a, NEW statuses
  PROVE  DaysUnder(t, a, statuses) =
           SumFunctionOnSet([k \in Keys |-> DaysOf(t, k, a, statuses)], Keys)
BY DEF DaysUnder, SumFunction, DaysOf

(* One request changes status: the sum changes by what it adds.            *)
LEMMA DaysUnderStep ==
  ASSUME NEW t, NEW u, NEW k \in Keys, \A j \in Keys \ {k} : u[j] = t[j],
         NEW a, NEW statuses
  PROVE  /\ DaysUnder(u, a, statuses) =
              DaysUnder(t, a, statuses) - DaysOf(t, k, a, statuses)
                + DaysOf(u, k, a, statuses)
         /\ DaysUnder(t, a, statuses) \in Nat
         /\ DaysOf(t, k, a, statuses) \in Nat /\ DaysOf(u, k, a, statuses) \in Nat
<1> DEFINE f == [j \in Keys |-> DaysOf(t, j, a, statuses)]
           g == [j \in Keys |-> DaysOf(u, j, a, statuses)]
<1>1. \A j \in Keys : f[j] \in Nat /\ g[j] \in Nat
  BY DaysOfType
<1>2. \A j \in Keys \ {k} : f[j] = g[j]
  BY DEF DaysOf
<1>3. f[k] = DaysOf(t, k, a, statuses) /\ g[k] = DaysOf(u, k, a, statuses)
  OBVIOUS
<1>4. /\ DaysUnder(t, a, statuses) = SumFunctionOnSet(f, Keys)
      /\ DaysUnder(u, a, statuses) = SumFunctionOnSet(g, Keys)
  BY DaysUnderIsSum
<1> HIDE DEF f, g
<1>5. \A j \in Keys : f[j] \in Int /\ g[j] \in Int
  BY <1>1
<1>6. SumFunctionOnSet(g, Keys) = SumFunctionOnSet(f, Keys) - f[k] + g[k]
  BY <1>2, <1>5, KeysAssumption, SumOfChanged
<1>7. SumFunctionOnSet(f, Keys) \in Nat
  BY <1>1, KeysAssumption, SumOfNaturals
<1>8. QED
  BY <1>1, <1>3, <1>4, <1>6, <1>7

(* The counters of one row are those of the requests of table t.           *)
Counted(b, a, t) ==
  /\ b.pending = DaysUnder(t, a, {"PENDING"})
  /\ b.used = DaysUnder(t, a, {"APPROVED"})
  /\ Balanced(b)

LEMMA BookingCounts ==
  ASSUME NEW t, NEW u, NEW k \in Keys, \A j \in Keys \ {k} : u[j] = t[j],
         t[k] = None, u[k] = "PENDING",
         NEW a, NEW b \in Balance, Counted(b, a, t)
  PROVE  LET d == calculateDaysRequested(Body[k])
         IN IF AccountOf(Body[k]) # a THEN Counted(b, a, u)
            ELSE CanDeduct(b, d) => Counted(atomicDeduct(b, d), a, u)
<1> DEFINE d == calculateDaysRequested(Body[k])
           mine == IF AccountOf(Body[k]) = a THEN d ELSE 0
<1>1. /\ DaysOf(t, k, a, {"PENDING"}) = 0 /\ DaysOf(u, k, a, {"PENDING"}) = mine
      /\ DaysOf(t, k, a, {"APPROVED"}) = 0 /\ DaysOf(u, k, a, {"APPROVED"}) = 0
  BY NoneIsNothing DEF DaysOf, RequestStatus
<1>2. /\ DaysUnder(u, a, {"PENDING"}) = DaysUnder(t, a, {"PENDING"}) + mine
      /\ DaysUnder(u, a, {"APPROVED"}) = DaysUnder(t, a, {"APPROVED"})
      /\ DaysUnder(t, a, {"PENDING"}) \in Nat /\ DaysUnder(t, a, {"APPROVED"}) \in Nat
      /\ mine \in Nat
  <2>1. \A statuses :
          /\ DaysUnder(u, a, statuses) =
               DaysUnder(t, a, statuses) - DaysOf(t, k, a, statuses)
                 + DaysOf(u, k, a, statuses)
          /\ DaysUnder(t, a, statuses) \in Nat
          /\ DaysOf(t, k, a, statuses) \in Nat /\ DaysOf(u, k, a, statuses) \in Nat
    BY DaysUnderStep
  <2> HIDE DEF mine
  <2>2. QED
    BY <1>1, <2>1
<1>3. CASE AccountOf(Body[k]) # a
  BY <1>2, <1>3 DEF Counted
<1>4. ASSUME AccountOf(Body[k]) = a, CanDeduct(b, d)
      PROVE  Counted(atomicDeduct(b, d), a, u)
  <2>1. d \in Nat /\ mine = d
    BY <1>2, <1>4
  <2>2. /\ atomicDeduct(b, d).total = b.total
        /\ atomicDeduct(b, d).available = b.available - d
        /\ atomicDeduct(b, d).pending = b.pending + d
        /\ atomicDeduct(b, d).used = b.used
    BY <1>4, <2>1, DeductedRow
  <2>3. b.available \in Nat /\ b.pending \in Nat /\ b.used \in Nat /\ b.total \in Nat
    BY DEF Balance
  <2> HIDE DEF d, mine
  <2>4. QED
    BY <1>2, <2>1, <2>2, <2>3 DEF Counted, Balanced
<1>5. QED
  BY <1>3, <1>4

LEMMA SettlementCounts ==
  ASSUME NEW t, NEW u, NEW k \in Keys, \A j \in Keys \ {k} : u[j] = t[j],
         t[k] = "PENDING", u[k] \in {"APPROVED", "REJECTED", "CANCELLED"},
         NEW a, NEW b \in Balance, Counted(b, a, t)
  PROVE  LET d == calculateDaysRequested(Body[k])
         IN IF AccountOf(Body[k]) # a THEN Counted(b, a, u)
            ELSE CanSettle(b, d) =>
                   Counted(IF u[k] = "APPROVED" THEN finalizeUsed(b, d)
                                                ELSE releaseFromPending(b, d), a, u)
<1> DEFINE d == calculateDaysRequested(Body[k])
           mine == IF AccountOf(Body[k]) = a THEN d ELSE 0
           taken == IF u[k] = "APPROVED" THEN mine ELSE 0
<1>1. /\ DaysOf(t, k, a, {"PENDING"}) = mine /\ DaysOf(u, k, a, {"PENDING"}) = 0
      /\ DaysOf(t, k, a, {"APPROVED"}) = 0 /\ DaysOf(u, k, a, {"APPROVED"}) = taken
  BY DEF DaysOf
<1>2. /\ DaysUnder(u, a, {"PENDING"}) = DaysUnder(t, a, {"PENDING"}) - mine
      /\ DaysUnder(u, a, {"APPROVED"}) = DaysUnder(t, a, {"APPROVED"}) + taken
      /\ DaysUnder(t, a, {"PENDING"}) \in Nat /\ DaysUnder(t, a, {"APPROVED"}) \in Nat
      /\ mine \in Nat /\ taken \in Nat
  <2>1. taken \in {0, mine}
    OBVIOUS
  <2> HIDE DEF mine, taken
  <2>2. QED
    BY <1>1, <2>1, DaysUnderStep
<1>3. CASE AccountOf(Body[k]) # a
  BY <1>2, <1>3 DEF Counted
<1>4. ASSUME AccountOf(Body[k]) = a, CanSettle(b, d)
      PROVE  Counted(IF u[k] = "APPROVED" THEN finalizeUsed(b, d)
                                          ELSE releaseFromPending(b, d), a, u)
  <2>1. d \in Nat /\ mine = d
    BY <1>2, <1>4
  <2>2. /\ finalizeUsed(b, d).total = b.total
        /\ finalizeUsed(b, d).available = b.available
        /\ finalizeUsed(b, d).pending = b.pending - d
        /\ finalizeUsed(b, d).used = b.used + d
        /\ releaseFromPending(b, d).total = b.total
        /\ releaseFromPending(b, d).available = b.available + d
        /\ releaseFromPending(b, d).pending = b.pending - d
        /\ releaseFromPending(b, d).used = b.used
    BY <1>4, <2>1, SettledRow
  <2>3. b.available \in Nat /\ b.pending \in Nat /\ b.used \in Nat /\ b.total \in Nat
    BY DEF Balance
  <2>4. CASE u[k] = "APPROVED"
    <3>1. taken = d
      BY <2>1, <2>4
    <3> HIDE DEF d, mine, taken
    <3>2. QED
      BY <1>2, <2>1, <2>2, <2>3, <2>4, <3>1 DEF Counted, Balanced
  <2>5. CASE u[k] # "APPROVED"
    <3>1. taken = 0
      BY <2>5
    <3> HIDE DEF d, mine, taken
    <3>2. QED
      BY <1>2, <2>1, <2>2, <2>3, <2>5, <3>1 DEF Counted, Balanced
  <2>6. QED
    BY <2>4, <2>5
<1>5. QED
  BY <1>3, <1>4

-----------------------------------------------------------------------------
(* What a step does to the handler that takes it.                          *)

HandlerTypes ==
  /\ pc \in [Sessions -> InLane \cup {"idle", "check", "locked"}]
  /\ job \in [Sessions -> Jobs \cup {None}]
  /\ row \in [Sessions -> Balance \cup {None}]
  /\ attempt \in [Sessions -> 1 .. maxAttempts]
  /\ failure \in [Sessions -> Refusals \cup {"none", "transient", "constraint"}]
  /\ reply \in [Sessions -> Refusals \cup {"none", "done", "cached", "recovered"}]

Apart(s) ==
  \A t \in Sessions \ {s} :
    pc'[t] = pc[t] /\ job'[t] = job[t] /\ row'[t] = row[t] /\ reply'[t] = reply[t]

Errors == Refusals \cup {"none", "transient", "constraint"}

LEMMA HandlerFields ==
  ASSUME CInv, NEW s \in Sessions
  PROVE  /\ HandlerTypes /\ LocalRight(s)
         /\ pc[s] # "idle" => job[s] \in Jobs /\ reply[s] = "none"
         /\ row[s] \in Balance \cup {None} /\ failure[s] \in Errors
         /\ attempt[s] \in 1 .. maxAttempts
BY DEF CInv, TypeOK, HandlerTypes, LocalRight, Errors

LEMMA AnswerEffect ==
  ASSUME CInv, NEW s \in Sessions, pc[s] # "idle",
         NEW outcome \in Refusals \cup {"done", "cached", "recovered"},
         Answer(s, outcome)
  PROVE  /\ HandlerTypes' /\ Apart(s) /\ pc'[s] = "idle" /\ LocalRight(s)'
         /\ reply'[s] = outcome
         /\ outcome = "done" => job'[s] = job[s]
<1>1. /\ HandlerTypes /\ job[s] \in Jobs
  BY HandlerFields
<1>2. /\ pc'[s] = "idle" /\ reply'[s] = outcome
      /\ job'[s] = IF outcome \in Refusals THEN None ELSE job[s]
  BY <1>1 DEF Answer, Goto, HandlerTypes
<1>3. HandlerTypes'
  BY <1>1 DEF Answer, Goto, HandlerTypes, maxAttempts
<1>4. Apart(s)
  BY <1>1 DEF Answer, Goto, HandlerTypes, Apart
<1>5. "done" \notin Refusals
  BY DEF Refusals
<1>6. LocalRight(s)'
  BY <1>1, <1>2, <1>5 DEF LocalRight
<1>7. QED
  BY <1>2, <1>3, <1>4, <1>5, <1>6

(* A handler that goes on with the locals it has, but for its row.         *)
LEMMA GotoEffect ==
  ASSUME CInv, NEW s \in Sessions, NEW label \in InLane \cup {"check", "locked"},
         Goto(s, label), UNCHANGED <<job, reply>>,
         row' = row \/ \E b \in Balance \cup {None} : row' = [row EXCEPT ![s] = b],
         attempt' \in [Sessions -> 1 .. maxAttempts],
         failure' = failure \/ \E e \in Errors : failure' = [failure EXCEPT ![s] = e]
  PROVE  HandlerTypes' /\ Apart(s) /\ pc'[s] = label
<1>1. HandlerTypes
  BY HandlerFields
<1>2. pc' \in [Sessions -> InLane \cup {"idle", "check", "locked"}] /\ pc'[s] = label
  BY <1>1 DEF Goto, HandlerTypes
<1>3. row' \in [Sessions -> Balance \cup {None}] /\ \A t \in Sessions \ {s} : row'[t] = row[t]
  BY <1>1 DEF HandlerTypes
<1>4. failure' \in [Sessions -> Refusals \cup {"none", "transient", "constraint"}]
  BY <1>1 DEF HandlerTypes, Errors
<1>5. Apart(s)
  BY <1>1, <1>3 DEF Goto, HandlerTypes, Apart
<1>6. QED
  BY <1>1, <1>2, <1>3, <1>4, <1>5 DEF HandlerTypes

LEMMA HandleEffect ==
  ASSUME CInv, NEW s \in Sessions, pc[s] # "idle", NEW error \in Errors,
         Handle(s, error)
  PROVE  /\ HandlerTypes' /\ Apart(s) /\ LocalRight(s)'
         /\ pc'[s] \in {"begin", "recoverCheck", "idle"}
         /\ reply'[s] # "done"
<1>1. /\ HandlerTypes /\ job[s] \in Jobs /\ reply[s] = "none" /\ LocalRight(s)
      /\ attempt[s] \in 1 .. maxAttempts
  BY HandlerFields
<1>2. "begin" \in InLane /\ "recoverCheck" \in InLane
  BY DEF InLane
<1>3. CASE /\ attempt[s] < maxAttempts /\ Goto(s, "begin")
           /\ attempt' = [attempt EXCEPT ![s] = @ + 1]
           /\ failure' = [failure EXCEPT ![s] = "none"]
           /\ row' = [row EXCEPT ![s] = None]
           /\ UNCHANGED <<job, reply>>
  <2>1. attempt' \in [Sessions -> 1 .. maxAttempts]
    BY <1>1, <1>3 DEF HandlerTypes, maxAttempts
  <2>2. HandlerTypes' /\ Apart(s) /\ pc'[s] = "begin"
    BY <1>2, <1>3, <2>1, GotoEffect DEF Errors
  <2>3. LocalRight(s)' /\ reply'[s] # "done"
    BY <1>1, <1>3, <2>2 DEF LocalRight
  <2>4. QED
    BY <2>2, <2>3
<1>4. CASE /\ job[s].op = "create" /\ Goto(s, "recoverCheck")
           /\ failure' = [failure EXCEPT ![s] = error]
           /\ UNCHANGED <<job, row, attempt, reply>>
  <2>1. HandlerTypes' /\ Apart(s) /\ pc'[s] = "recoverCheck"
    BY <1>1, <1>2, <1>4, GotoEffect DEF HandlerTypes
  <2>2. LocalRight(s)' /\ reply'[s] # "done"
    BY <1>1, <1>4, <2>1 DEF LocalRight
  <2>3. QED
    BY <2>1, <2>2
<1>5. CASE Answer(s, IF error \in Refusals THEN error ELSE "INTERNAL")
  <2>1. (IF error \in Refusals THEN error ELSE "INTERNAL") \in Refusals
    BY DEF Refusals
  <2>2. "done" \notin Refusals
    BY DEF Refusals
  <2>3. QED
    BY <1>5, <2>1, <2>2, AnswerEffect
<1>6. QED
  BY <1>3, <1>4, <1>5 DEF Handle

-----------------------------------------------------------------------------
(* Steps outside the transaction, and steps of the one that owns it.       *)

LEMMA InsidesDistinct ==
  /\ InTx \subseteq Inside /\ Inside \subseteq InLane
  /\ {"idle", "check", "locked", "begin", "recoverCheck", "recoverFind"}
       \cap Inside = {}
BY DEF Inside, InTx, InLane

LEMMA DurableStays ==
  ASSUME CInv, NEW s \in Sessions, Apart(s), UNCHANGED file,
         reply'[s] = "done" => reply[s] = "done" /\ job'[s] = job[s]
  PROVE  TablesAgree' /\ DoneIsDurable'
<1>1. TablesAgree'
  BY DEF CInv, TablesAgree
<1>2. DoneIsDurable'
  BY DEF CInv, DoneIsDurable, Apart
<1>3. QED
  BY <1>1, <1>2

LEMMA TxStateStays ==
  ASSUME NEW t, TxState(t), pc'[t] = pc[t], job'[t] = job[t], row'[t] = row[t],
         UNCHANGED <<file, view>>
  PROVE  TxState(t)'
<1>1. /\ AccountOfJob(t)' = AccountOfJob(t) /\ DaysOfJob(t)' = DaysOfJob(t)
      /\ BalanceWritten(t)' = BalanceWritten(t)
      /\ StatusWritten(t)' = StatusWritten(t) /\ RecordWritten(t)' = RecordWritten(t)
      /\ NewStatus(t)' = NewStatus(t) /\ OldStatus(t)' = OldStatus(t)
  BY DEF BalanceWritten, StatusWritten, RecordWritten, NewStatus, OldStatus,
     AccountOfJob, DaysOfJob
<1>2. CanMove(t)' = CanMove(t) /\ Moved(t)' = Moved(t)
  BY <1>1 DEF CanMove, Moved
<1>3. Checked(t)' = Checked(t)
  BY DEF Checked
<1>4. QED
  BY <1>1, <1>2, <1>3 DEF TxState

LEMMA OutsideKeepsCInv ==
  ASSUME CInv, NEW s \in Sessions, HandlerTypes', Apart(s), LocalRight(s)',
         pc[s] \notin Inside, pc'[s] \notin Inside,
         UNCHANGED <<file, view, owner>>, reply'[s] # "done"
  PROVE  CInv'
<1>1. TypeOK'
  BY DEF CInv, TypeOK, HandlerTypes
<1>2. OwnerRight'
  BY DEF CInv, OwnerRight, Apart
<1>3. \A t \in Sessions : LocalRight(t)'
  BY DEF CInv, LocalRight, Apart
<1>4. ViewRight'
  <2>1. \A t \in Sessions : pc'[t] \in InTx => t # s /\ pc[t] \in InTx /\ TxState(t)
    BY InsidesDistinct DEF CInv, ViewRight, Apart
  <2>2. \A t \in Sessions : pc'[t] \in InTx => TxState(t)'
    BY <2>1, TxStateStays DEF Apart
  <2>3. QED
    BY <2>2 DEF CInv, ViewRight
<1>5. TablesAgree' /\ DoneIsDurable'
  BY DurableStays
<1>6. QED
  BY <1>1, <1>2, <1>3, <1>4, <1>5 DEF CInv

LEMMA InsideKeepsCInv ==
  ASSUME CInv, NEW s \in Sessions, HandlerTypes', Apart(s), LocalRight(s)',
         pc[s] \in InTx, pc'[s] \in Inside, pc'[s] \in InTx => TxState(s)',
         view' \in Database, UNCHANGED <<file, owner>>, reply'[s] # "done"
  PROVE  CInv'
<1>1. owner = s
  BY InsidesDistinct DEF CInv, OwnerRight
<1>2. TypeOK'
  BY DEF CInv, TypeOK, HandlerTypes
<1>3. OwnerRight'
  BY <1>1 DEF CInv, OwnerRight, Apart
<1>4. \A t \in Sessions : LocalRight(t)'
  BY DEF CInv, LocalRight, Apart
<1>5. ViewRight'
  BY <1>1, <1>3, InsidesDistinct, NoneIsNothing DEF ViewRight, OwnerRight
<1>6. TablesAgree' /\ DoneIsDurable'
  BY DurableStays
<1>7. QED
  BY <1>2, <1>3, <1>4, <1>5, <1>6 DEF CInv

LEMMA InitCInv == Init => CInv
<1> SUFFICES ASSUME Init PROVE CInv
  OBVIOUS
<1>1. upsertBalance(Total) \in Balance
  BY TotalAssumption DEF upsertBalance, Balance
<1>2. file \in Database /\ view \in Database
  BY <1>1 DEF Init, Database
<1>3. TypeOK
  BY <1>2, NoneIsNothing DEF Init, TypeOK, maxAttempts
<1>4. OwnerRight /\ (\A s \in Sessions : LocalRight(s)) /\ ViewRight
  BY NoneIsNothing, InsidesDistinct DEF Init, OwnerRight, LocalRight, ViewRight
<1>5. TablesAgree
  <2>1. \A a, statuses : statuses \subseteq RequestStatus =>
          DaysUnder(file.requests, a, statuses) = 0
    <3> SUFFICES ASSUME NEW a, NEW statuses, statuses \subseteq RequestStatus
                 PROVE  DaysUnder(file.requests, a, statuses) = 0
      OBVIOUS
    <3> DEFINE f == [k \in Keys |-> DaysOf(file.requests, k, a, statuses)]
    <3>1. \A k \in Keys : f[k] = 0
      BY NoneIsNothing DEF DaysOf, Init
    <3>2. DaysUnder(file.requests, a, statuses) = SumFunctionOnSet(f, Keys)
      BY DaysUnderIsSum
    <3> HIDE DEF f
    <3>3. QED
      BY <3>1, <3>2, KeysAssumption, SumOfZeros
  <2>2. \A a \in Accounts :
          /\ file.balances[a].pending = 0 /\ file.balances[a].used = 0
          /\ Balanced(file.balances[a])
    BY TotalAssumption DEF Init, upsertBalance, Balanced
  <2>3. \A k \in Keys : file.requests[k] # None <=> k \in file.records
    BY DEF Init
  <2>4. \A a \in Accounts : /\ DaysUnder(file.requests, a, {"PENDING"}) = 0
                            /\ DaysUnder(file.requests, a, {"APPROVED"}) = 0
    BY <2>1 DEF RequestStatus
  <2>5. NoneOverlap(file.requests)
    BY NoneIsNothing DEF Init, NoneOverlap, ActiveStatus, RequestStatus
  <2>6. QED
    BY <2>2, <2>3, <2>4, <2>5 DEF TablesAgree
<1>6. DoneIsDurable
  BY DEF Init, DoneIsDurable
<1>7. QED
  BY <1>3, <1>4, <1>5, <1>6 DEF CInv

LEMMA SubmitKeepsCInv ==
  ASSUME CInv, NEW s \in Sessions, NEW j \in Jobs, Submit(s, j)
  PROVE  CInv'
<1>1. /\ HandlerTypes /\ pc[s] = "idle"
  BY HandlerFields DEF Submit
<1>2. PICK label \in {"check", "begin"} :
        /\ Goto(s, label)
        /\ label = "check" => j.op = "create"
  BY DEF Submit
<1>3. /\ job' = [job EXCEPT ![s] = j] /\ reply' = [reply EXCEPT ![s] = "none"]
      /\ UNCHANGED <<file, view, owner, row, attempt, failure>>
  BY DEF Submit
<1>4. HandlerTypes'
  BY <1>1, <1>2, <1>3, InsidesDistinct DEF HandlerTypes, Goto, InLane
<1>5. /\ pc'[s] = label /\ job'[s] = j /\ reply'[s] = "none" /\ Apart(s)
  BY <1>1, <1>2, <1>3 DEF HandlerTypes, Goto, Apart
<1>6. LocalRight(s)'
  BY <1>2, <1>5 DEF LocalRight
<1>7. QED
  BY <1>1, <1>2, <1>3, <1>4, <1>5, <1>6, InsidesDistinct, OutsideKeepsCInv

(* The handler's own checks, which read what the connection sees.          *)
LEMMA ChecksKeepCInv ==
  ASSUME CInv, NEW s \in Sessions,
         \/ CheckIdempotency(s) \/ LockedCheck(s)
         \/ RecoverCheck(s) \/ RecoverFind(s)
  PROVE  CInv'
<1>1. /\ pc[s] \in {"check", "locked", "recoverCheck", "recoverFind"}
      /\ UNCHANGED <<file, view, owner>>
      /\ \/ \E outcome \in Refusals \cup {"cached", "recovered"} : Answer(s, outcome)
         \/ \E label \in {"locked", "begin", "recoverFind"} :
              Goto(s, label) /\ UNCHANGED locals
  BY DEF CheckIdempotency, LockedCheck, RecoverCheck, RecoverFind, Refusals
<1>2. /\ HandlerTypes /\ LocalRight(s) /\ job[s] \in Jobs /\ reply[s] = "none"
      /\ job[s].op = "create"
  BY <1>1, HandlerFields DEF LocalRight
<1>3. CASE \E outcome \in Refusals \cup {"cached", "recovered"} : Answer(s, outcome)
  <2>1. PICK outcome \in Refusals \cup {"cached", "recovered"} : Answer(s, outcome)
    BY <1>3
  <2>2. outcome # "done"
    BY DEF Refusals
  <2>3. QED
    BY <1>1, <2>1, <2>2, AnswerEffect, InsidesDistinct, OutsideKeepsCInv
<1>4. CASE \E label \in {"locked", "begin", "recoverFind"} :
             Goto(s, label) /\ UNCHANGED locals
  <2>1. PICK label \in {"locked", "begin", "recoverFind"} :
          Goto(s, label) /\ UNCHANGED locals
    BY <1>4
  <2>2. label \in InLane \cup {"check", "locked"}
    BY DEF InLane
  <2>3. HandlerTypes' /\ Apart(s) /\ pc'[s] = label
    BY <1>2, <2>1, <2>2, GotoEffect DEF locals, HandlerTypes
  <2>4. job'[s] = job[s] /\ reply'[s] = "none"
    BY <1>2, <2>1 DEF locals
  <2>5. LocalRight(s)'
    BY <1>2, <2>3, <2>4 DEF LocalRight
  <2>6. QED
    BY <1>1, <2>3, <2>4, <2>5, InsidesDistinct, OutsideKeepsCInv
<1>5. QED
  BY <1>1, <1>3, <1>4

(* BEGIN: when it is granted, what the connection sees is the file.        *)
LEMMA BeginKeepsCInv ==
  ASSUME CInv, NEW s \in Sessions, Begin(s)
  PROVE  CInv'
<1>1. /\ pc[s] = "begin" /\ UNCHANGED <<file, view>>
      /\ HandlerTypes /\ LocalRight(s) /\ job[s] \in Jobs /\ reply[s] = "none"
      /\ job[s].op \in Decisions \cup {"create"}
  BY HandlerFields, JobFields DEF Begin
<1>2. CASE owner # None
  <2>1. Handle(s, "transient") /\ UNCHANGED owner
    BY <1>2 DEF Begin
  <2>2. QED
    BY <1>1, <2>1, HandleEffect, InsidesDistinct, OutsideKeepsCInv DEF Errors
<1>3. CASE owner = None
  <2>1. PICK label \in {"overlap", "find"} :
          /\ Goto(s, label)
          /\ label = "overlap" => job[s].op = "create"
          /\ label = "find" => job[s].op # "create"
    BY <1>3 DEF Begin
  <2>2. owner' = s /\ UNCHANGED locals
    BY <1>3 DEF Begin
  <2>3. label \in InTx /\ label \in InLane \cup {"check", "locked"} /\ label \in Inside
    BY DEF InTx, InLane, Inside
  <2>4. HandlerTypes' /\ Apart(s) /\ pc'[s] = label
    BY <1>1, <2>1, <2>2, <2>3, GotoEffect DEF locals, HandlerTypes
  <2>5. job'[s] = job[s] /\ reply'[s] = "none" /\ reply' = reply
    BY <1>1, <2>2 DEF locals
  <2>6. LocalRight(s)'
    BY <1>1, <2>1, <2>4, <2>5 DEF LocalRight
  <2>7. view = file
    BY <1>3 DEF CInv, ViewRight
  <2>8. TxState(s)'
    BY <1>1, <2>1, <2>2, <2>4, <2>5, <2>7
       DEF TxState, BalanceWritten, StatusWritten, RecordWritten, Checked
  <2>9. \A t \in Sessions \ {s} : pc'[t] \notin Inside
    BY <1>3, <2>4, NoneIsNothing DEF CInv, OwnerRight, Apart
  <2>10. TypeOK'
    BY <1>1, <2>2, <2>4 DEF CInv, TypeOK, HandlerTypes
  <2>11. OwnerRight'
    BY <2>2, <2>3, <2>4, <2>9 DEF OwnerRight
  <2>12. \A t \in Sessions : LocalRight(t)'
    BY <2>4, <2>6 DEF CInv, LocalRight, Apart
  <2>13. ViewRight'
    BY <2>2, <2>8, <2>9, InsidesDistinct, NoneIsNothing DEF ViewRight
  <2>14. TablesAgree' /\ DoneIsDurable'
    BY <1>1, <2>4, <2>5, DurableStays
  <2>15. QED
    BY <2>10, <2>11, <2>12, <2>13, <2>14 DEF CInv
<1>4. QED
  BY <1>2, <1>3

-----------------------------------------------------------------------------
(* The statements of a transaction.                                        *)

(* An error inside leads to a ROLLBACK.                                    *)
LEMMA ThrowKeepsCInv ==
  ASSUME CInv, NEW s \in Sessions, pc[s] \in InTx, NEW error \in Errors,
         Throw(s, error), UNCHANGED <<file, owner>>
  PROVE  CInv'
<1>1. /\ HandlerTypes /\ LocalRight(s) /\ job[s] \in Jobs /\ reply[s] = "none"
  BY HandlerFields, InsidesDistinct DEF InTx
<1>2. /\ "rollback" \in InLane \cup {"check", "locked"} /\ "rollback" \in Inside
      /\ "rollback" \notin InTx
  BY DEF InLane, Inside, InTx
<1>3. HandlerTypes' /\ Apart(s) /\ pc'[s] = "rollback"
  BY <1>1, <1>2, GotoEffect DEF Throw, HandlerTypes
<1>4. job'[s] = job[s] /\ reply'[s] = "none"
  BY <1>1 DEF Throw
<1>5. LocalRight(s)'
  BY <1>1, <1>3, <1>4 DEF LocalRight
<1>6. view' \in Database
  BY DEF Throw, CInv, TypeOK
<1>7. QED
  BY <1>2, <1>3, <1>4, <1>5, <1>6, InsideKeepsCInv

(* A statement is executed: what is left to show is its transaction.       *)
LEMMA ExecuteKeepsCInv ==
  ASSUME CInv, NEW s \in Sessions, pc[s] \in InTx, NEW db \in Database,
         NEW label \in InTx, Execute(s, db, label), UNCHANGED <<file, owner>>,
         label \in {"overlap", "insertRequest", "insertRecord"} => job[s].op = "create",
         label \in {"find", "status"} => job[s].op \in Decisions,
         TxState(s)'
  PROVE  CInv'
<1>1. /\ HandlerTypes /\ LocalRight(s) /\ job[s] \in Jobs /\ reply[s] = "none"
  BY HandlerFields, InsidesDistinct DEF InTx
<1>2. label \in InLane \cup {"check", "locked"} /\ label \in Inside
  BY DEF InLane, Inside
<1>3. HandlerTypes' /\ Apart(s) /\ pc'[s] = label
  BY <1>1, <1>2, GotoEffect DEF Execute, HandlerTypes
<1>4. job'[s] = job[s] /\ reply'[s] = "none" /\ view' = db
  BY <1>1 DEF Execute
<1>5. LocalRight(s)'
  BY <1>1, <1>3, <1>4, InsidesDistinct DEF LocalRight, InTx
<1>6. QED
  BY <1>2, <1>3, <1>4, <1>5, InsideKeepsCInv

(* What a handler in a transaction works with.                             *)
LEMMA InsideFields ==
  ASSUME CInv, NEW s \in Sessions, pc[s] \in InTx
  PROVE  /\ owner = s /\ TxState(s) /\ LocalRight(s)
         /\ job[s] \in Jobs /\ job[s].key \in Keys
         /\ job[s].op \in Decisions \cup {"create"}
         /\ DaysOfJob(s) \in Nat /\ AccountOfJob(s) \in Accounts
         /\ file \in Database /\ view \in Database
         /\ file.balances[AccountOfJob(s)] \in Balance
         /\ NewStatus(s) \in RequestStatus
         /\ CanMove(s) => Moved(s) \in Balance
<1>1. job[s] \in Jobs /\ LocalRight(s)
  BY HandlerFields, InsidesDistinct DEF InTx
<1>2. /\ owner = s /\ TxState(s) /\ file \in Database /\ view \in Database
  BY InsidesDistinct DEF CInv, OwnerRight, ViewRight, TypeOK
<1>3. /\ job[s].key \in Keys /\ job[s].op \in Decisions \cup {"create"}
      /\ DaysOfJob(s) \in Nat /\ AccountOfJob(s) \in Accounts
  BY <1>1, JobFields DEF DaysOfJob, AccountOfJob
<1>4. file.balances[AccountOfJob(s)] \in Balance
  BY <1>2, <1>3 DEF Database
<1>5. NewStatus(s) \in RequestStatus
  BY <1>3, OpsAreStatuses DEF NewStatus, RequestStatus
<1>6. CanMove(s) => Moved(s) \in Balance
  BY <1>3, <1>4, DeductedRow, SettledRow DEF CanMove, Moved
<1>7. QED
  BY <1>1, <1>2, <1>3, <1>4, <1>5, <1>6

(* What does not depend on the statement the handler has come to.          *)
LEMMA SameTransaction ==
  ASSUME NEW s, UNCHANGED <<file, job>>
  PROVE  /\ AccountOfJob(s)' = AccountOfJob(s) /\ DaysOfJob(s)' = DaysOfJob(s)
         /\ NewStatus(s)' = NewStatus(s) /\ OldStatus(s)' = OldStatus(s)
         /\ CanMove(s)' = CanMove(s) /\ Moved(s)' = Moved(s)
<1>1. /\ AccountOfJob(s)' = AccountOfJob(s) /\ DaysOfJob(s)' = DaysOfJob(s)
      /\ NewStatus(s)' = NewStatus(s) /\ OldStatus(s)' = OldStatus(s)
  BY DEF AccountOfJob, DaysOfJob, NewStatus, OldStatus
<1>2. QED
  BY <1>1 DEF CanMove, Moved

LEMMA CheckedStays ==
  ASSUME NEW s, Checked(s), pc[s] # "overlap", UNCHANGED <<file, job>>
  PROVE  Checked(s)'
BY DEF Checked

LEMMA ReadsKeepCInv ==
  ASSUME CInv, NEW s \in Sessions, AssertNoOverlap(s) \/ FindRequest(s)
  PROVE  CInv'
<1>1. /\ pc[s] \in {"overlap", "find"} /\ pc[s] \in InTx /\ UNCHANGED <<file, owner>>
  BY DEF AssertNoOverlap, FindRequest, InTx
<1>2. /\ TxState(s) /\ LocalRight(s) /\ view \in Database /\ job[s] \in Jobs
      /\ job[s].op \in Decisions \cup {"create"} /\ job[s].key \in Keys
  BY <1>1, InsideFields
<1>3. CASE \E error \in Errors : Throw(s, error)
  BY <1>1, <1>3, ThrowKeepsCInv
<1>4. CASE /\ pc[s] = "overlap" /\ Execute(s, view, "balance")
           /\ ~ \E k \in Keys : /\ view.requests[k] \in ActiveStatus
                                /\ Body[k].lane = Body[job[s].key].lane
                                /\ datesOverlap(Body[job[s].key], Body[k])
  <2>1. /\ pc'[s] = "balance" /\ view' = view /\ job' = job /\ "balance" \in InTx
        /\ job[s].op = "create"
    BY <1>2, <1>4, HandlerFields DEF Execute, Goto, HandlerTypes, LocalRight, InTx
  <2>2. view.requests = file.requests
    BY <1>2, <1>4, <2>1 DEF TxState, StatusWritten
  <2>3. Checked(s)'
    BY <1>1, <1>4, <2>1, <2>2 DEF Checked
  <2>4. TxState(s)'
    BY <1>1, <1>2, <1>4, <2>1, <2>3
       DEF TxState, BalanceWritten, StatusWritten, RecordWritten
  <2>5. QED
    BY <1>1, <1>2, <1>4, <2>1, <2>4, ExecuteKeepsCInv
<1>5. CASE /\ pc[s] = "find" /\ Execute(s, view, "status")
           /\ view.requests[job[s].key] # None
           /\ job[s].op \in VALID_TRANSITIONS[view.requests[job[s].key]]
  <2>1. /\ pc'[s] = "status" /\ view' = view /\ job' = job /\ "status" \in InTx
        /\ job[s].op \in Decisions /\ job[s].op # "create"
    BY <1>2, <1>5, HandlerFields, OpsAreStatuses
       DEF Execute, Goto, HandlerTypes, LocalRight, InTx
  <2>2. view.requests[job[s].key] = "PENDING"
    <3>1. view.requests[job[s].key] \in RequestStatus
      BY <1>2, <1>5 DEF Database
    <3>2. QED
      BY <1>5, <3>1 DEF VALID_TRANSITIONS
  <2>3. view.requests = file.requests
    BY <1>2, <1>5, <2>1 DEF TxState, StatusWritten
  <2>4. Checked(s)'
    BY <1>1, <1>2, <1>5, <2>1, CheckedStays DEF TxState
  <2>5. TxState(s)'
    BY <1>1, <1>2, <1>5, <2>1, <2>2, <2>3, <2>4
       DEF TxState, BalanceWritten, StatusWritten, RecordWritten, OldStatus
  <2>6. QED
    BY <1>1, <1>2, <1>5, <2>1, <2>5, ExecuteKeepsCInv
<1>6. QED
  BY <1>3, <1>4, <1>5 DEF AssertNoOverlap, FindRequest, Errors, Refusals

LEMMA SaveStatusKeepsCInv ==
  ASSUME CInv, NEW s \in Sessions, SaveStatus(s)
  PROVE  CInv'
<1> DEFINE db == [view EXCEPT !.requests[job[s].key] = job[s].op]
<1>1. /\ pc[s] = "status" /\ pc[s] \in InTx /\ UNCHANGED <<file, owner>>
      /\ Execute(s, db, "balance")
  BY DEF SaveStatus, InTx
<1>2. /\ TxState(s) /\ LocalRight(s) /\ view \in Database /\ job[s] \in Jobs
      /\ job[s].key \in Keys /\ NewStatus(s) \in RequestStatus
  BY <1>1, InsideFields
<1>3. job[s].op \in Decisions /\ job[s].op # "create" /\ NewStatus(s) = job[s].op
  BY <1>1, <1>2, OpsAreStatuses DEF LocalRight, NewStatus
<1>4. /\ db \in Database
      /\ db.requests = [view.requests EXCEPT ![job[s].key] = job[s].op]
      /\ db.balances = view.balances /\ db.records = view.records
  BY <1>2, <1>3 DEF Database
<1> HIDE DEF db
<1>5. /\ pc'[s] = "balance" /\ view' = db /\ job' = job /\ "balance" \in InTx
  BY <1>1, HandlerFields DEF Execute, Goto, HandlerTypes, InTx
<1>6. /\ view.requests = file.requests /\ view.balances = file.balances
      /\ view.records = file.records
      /\ file.requests[job[s].key] = OldStatus(s)
  BY <1>1, <1>2, <1>3 DEF TxState, BalanceWritten, StatusWritten, RecordWritten
<1>7. TxState(s)'
  <2>1. /\ NewStatus(s)' = NewStatus(s) /\ OldStatus(s)' = OldStatus(s)
    BY <1>1, <1>5, SameTransaction
  <2>2. /\ ~ BalanceWritten(s)' /\ ~ RecordWritten(s)' /\ StatusWritten(s)'
    BY <1>3, <1>5 DEF BalanceWritten, RecordWritten, StatusWritten
  <2>3. Checked(s)'
    BY <1>1, <1>2, <1>5, CheckedStays DEF TxState
  <2>4. QED
    BY <1>1, <1>3, <1>4, <1>5, <1>6, <2>1, <2>2, <2>3 DEF TxState
<1>8. QED
  BY <1>1, <1>2, <1>3, <1>4, <1>5, <1>7, ExecuteKeepsCInv

LEMMA FindBalanceKeepsCInv ==
  ASSUME CInv, NEW s \in Sessions, FindBalance(s)
  PROVE  CInv'
<1>1. /\ pc[s] = "balance" /\ pc[s] \in InTx /\ UNCHANGED <<file, owner>>
  BY DEF FindBalance, InTx
<1>2. /\ TxState(s) /\ LocalRight(s) /\ view \in Database /\ job[s] \in Jobs
      /\ job[s].op \in Decisions \cup {"create"} /\ reply[s] = "none"
      /\ CanMove(s) => Moved(s) \in Balance
  BY <1>1, InsideFields, HandlerFields
<1>3. view.balances = file.balances
  BY <1>1, <1>2 DEF TxState, BalanceWritten
<1>4. \/ \E error \in Errors : Throw(s, error)
      \/ /\ CanMove(s) /\ row' = [row EXCEPT ![s] = Moved(s)]
         /\ Goto(s, "saveBalance") /\ UNCHANGED <<view, job, attempt, failure, reply>>
  BY <1>3, OpsAreStatuses
     DEF FindBalance, CanMove, Moved, AccountOfJob, DaysOfJob, Errors, Refusals
<1>5. CASE \E error \in Errors : Throw(s, error)
  BY <1>1, <1>5, ThrowKeepsCInv
<1>6. CASE /\ CanMove(s) /\ row' = [row EXCEPT ![s] = Moved(s)]
           /\ Goto(s, "saveBalance") /\ UNCHANGED <<view, job, attempt, failure, reply>>
  <2>1. /\ "saveBalance" \in InLane \cup {"check", "locked"}
        /\ "saveBalance" \in InTx /\ "saveBalance" \in Inside
    BY DEF InLane, InTx, Inside
  <2>2. HandlerTypes' /\ Apart(s) /\ pc'[s] = "saveBalance"
    BY <1>2, <1>6, <2>1, HandlerFields, GotoEffect DEF HandlerTypes
  <2>3. row'[s] = Moved(s)
    BY <1>6, HandlerFields DEF HandlerTypes
  <2>4. LocalRight(s)'
    BY <1>2, <1>6, <2>2 DEF LocalRight
  <2>5. TxState(s)'
    <3>1. /\ NewStatus(s)' = NewStatus(s) /\ OldStatus(s)' = OldStatus(s)
          /\ CanMove(s)' = CanMove(s) /\ Moved(s)' = Moved(s)
      BY <1>1, <1>6, SameTransaction
    <3>2. /\ ~ BalanceWritten(s)' /\ ~ RecordWritten(s)'
          /\ StatusWritten(s)' <=> StatusWritten(s)
      BY <1>1, <1>6, <2>2 DEF BalanceWritten, RecordWritten, StatusWritten
    <3>3. /\ view.balances = file.balances /\ view.records = file.records
          /\ view.requests = IF StatusWritten(s)
                               THEN [file.requests EXCEPT ![job[s].key] = NewStatus(s)]
                               ELSE file.requests
          /\ StatusWritten(s) => file.requests[job[s].key] = OldStatus(s)
      BY <1>1, <1>2, <1>3 DEF TxState, RecordWritten
    <3>4. Checked(s)'
      BY <1>1, <1>2, <1>6, CheckedStays DEF TxState
    <3>5. QED
      BY <1>1, <1>6, <2>2, <2>3, <3>1, <3>2, <3>3, <3>4 DEF TxState
  <2>6. view' \in Database /\ reply'[s] # "done"
    BY <1>2, <1>6
  <2>7. QED
    BY <1>1, <2>1, <2>2, <2>4, <2>5, <2>6, InsideKeepsCInv
<1>7. QED
  BY <1>4, <1>5, <1>6

LEMMA SaveBalanceKeepsCInv ==
  ASSUME CInv, NEW s \in Sessions, SaveBalance(s)
  PROVE  CInv'
<1> DEFINE db == [view EXCEPT !.balances[AccountOfJob(s)] = row[s]]
           label == IF job[s].op = "create" THEN "insertRequest" ELSE "commit"
<1>1. /\ pc[s] = "saveBalance" /\ pc[s] \in InTx /\ UNCHANGED <<file, owner>>
      /\ Execute(s, db, label)
  BY DEF SaveBalance, InTx, AccountOfJob
<1>2. /\ TxState(s) /\ LocalRight(s) /\ view \in Database /\ job[s] \in Jobs
      /\ AccountOfJob(s) \in Accounts /\ (CanMove(s) => Moved(s) \in Balance)
  BY <1>1, InsideFields
<1>3. /\ CanMove(s) /\ row[s] = Moved(s) /\ Moved(s) \in Balance
      /\ view.balances = file.balances /\ view.records = file.records
      /\ view.requests = IF StatusWritten(s)
                           THEN [file.requests EXCEPT ![job[s].key] = NewStatus(s)]
                           ELSE file.requests
      /\ StatusWritten(s) => file.requests[job[s].key] = OldStatus(s)
  BY <1>1, <1>2 DEF TxState, BalanceWritten, RecordWritten
<1>4. /\ db \in Database
      /\ db.balances = [view.balances EXCEPT ![AccountOfJob(s)] = Moved(s)]
      /\ db.requests = view.requests /\ db.records = view.records
  BY <1>2, <1>3 DEF Database
<1>5. /\ label \in {"insertRequest", "commit"} /\ label \in InTx
      /\ label = "insertRequest" <=> job[s].op = "create"
  BY DEF InTx
<1> HIDE DEF db, label
<1>6. pc'[s] = label /\ view' = db /\ job' = job
  BY <1>1, HandlerFields DEF Execute, Goto, HandlerTypes
<1>7. TxState(s)'
  <2>1. /\ NewStatus(s)' = NewStatus(s) /\ OldStatus(s)' = OldStatus(s)
        /\ CanMove(s)' = CanMove(s) /\ Moved(s)' = Moved(s)
        /\ AccountOfJob(s)' = AccountOfJob(s)
    BY <1>1, <1>6, SameTransaction
  <2>2. /\ BalanceWritten(s)' /\ ~ RecordWritten(s)'
        /\ StatusWritten(s)' <=> StatusWritten(s)
    BY <1>1, <1>5, <1>6 DEF BalanceWritten, RecordWritten, StatusWritten
  <2>3. pc'[s] # "status" /\ pc'[s] # "saveBalance"
    BY <1>5, <1>6
  <2>4. Checked(s)'
    BY <1>1, <1>2, <1>6, CheckedStays DEF TxState
  <2>5. QED
    BY <1>1, <1>3, <1>4, <1>6, <2>1, <2>2, <2>3, <2>4 DEF TxState
<1>8. QED
  BY <1>1, <1>4, <1>5, <1>7, ExecuteKeepsCInv

LEMMA InsertRequestKeepsCInv ==
  ASSUME CInv, NEW s \in Sessions, InsertRequest(s)
  PROVE  CInv'
<1> DEFINE db == [view EXCEPT !.requests[job[s].key] = "PENDING"]
<1>1. /\ pc[s] = "insertRequest" /\ pc[s] \in InTx /\ UNCHANGED <<file, owner>>
      /\ \/ Throw(s, "constraint")
         \/ view.requests[job[s].key] = None /\ Execute(s, db, "insertRecord")
  BY DEF InsertRequest, InTx
<1>2. /\ TxState(s) /\ LocalRight(s) /\ view \in Database /\ job[s] \in Jobs
      /\ job[s].key \in Keys
  BY <1>1, InsideFields
<1>3. job[s].op = "create" /\ NewStatus(s) = "PENDING" /\ OldStatus(s) = None
  BY <1>1, <1>2 DEF LocalRight, NewStatus, OldStatus
<1>4. /\ CanMove(s) /\ view.requests = file.requests /\ view.records = file.records
      /\ view.balances = [file.balances EXCEPT ![AccountOfJob(s)] = Moved(s)]
  BY <1>1, <1>2, <1>3 DEF TxState, BalanceWritten, StatusWritten, RecordWritten
<1>5. CASE Throw(s, "constraint")
  BY <1>1, <1>5, ThrowKeepsCInv DEF Errors
<1>6. CASE view.requests[job[s].key] = None /\ Execute(s, db, "insertRecord")
  <2>1. /\ db \in Database /\ db.balances = view.balances /\ db.records = view.records
        /\ db.requests = [view.requests EXCEPT ![job[s].key] = "PENDING"]
    BY <1>2 DEF Database, RequestStatus
  <2> HIDE DEF db
  <2>2. pc'[s] = "insertRecord" /\ view' = db /\ job' = job /\ "insertRecord" \in InTx
    BY <1>6, HandlerFields DEF Execute, Goto, HandlerTypes, InTx
  <2>3. TxState(s)'
    <3>1. /\ NewStatus(s)' = NewStatus(s) /\ OldStatus(s)' = OldStatus(s)
          /\ CanMove(s)' = CanMove(s) /\ Moved(s)' = Moved(s)
          /\ AccountOfJob(s)' = AccountOfJob(s)
      BY <1>1, <2>2, SameTransaction
    <3>2. BalanceWritten(s)' /\ ~ RecordWritten(s)' /\ StatusWritten(s)'
      BY <2>2 DEF BalanceWritten, RecordWritten, StatusWritten
    <3>3. Checked(s)'
      BY <1>1, <1>2, <2>2, CheckedStays DEF TxState
    <3>4. QED
      BY <1>1, <1>3, <1>4, <1>6, <2>1, <2>2, <3>1, <3>2, <3>3 DEF TxState
  <2>4. QED
    BY <1>1, <1>3, <1>6, <2>1, <2>2, <2>3, ExecuteKeepsCInv
<1>7. QED
  BY <1>1, <1>5, <1>6

LEMMA InsertRecordKeepsCInv ==
  ASSUME CInv, NEW s \in Sessions, InsertRecord(s)
  PROVE  CInv'
<1> DEFINE db == [view EXCEPT !.records = @ \cup {job[s].key}]
<1>1. /\ pc[s] = "insertRecord" /\ pc[s] \in InTx /\ UNCHANGED <<file, owner>>
      /\ Throw(s, "constraint") \/ Execute(s, db, "commit")
  BY DEF InsertRecord, InTx
<1>2. /\ TxState(s) /\ LocalRight(s) /\ view \in Database /\ job[s] \in Jobs
      /\ job[s].key \in Keys
  BY <1>1, InsideFields
<1>3. job[s].op = "create"
  BY <1>1, <1>2 DEF LocalRight
<1>4. /\ CanMove(s) /\ view.records = file.records
      /\ view.requests = [file.requests EXCEPT ![job[s].key] = NewStatus(s)]
      /\ view.balances = [file.balances EXCEPT ![AccountOfJob(s)] = Moved(s)]
      /\ file.requests[job[s].key] = OldStatus(s)
  BY <1>1, <1>2, <1>3 DEF TxState, BalanceWritten, StatusWritten, RecordWritten
<1>5. CASE Throw(s, "constraint")
  BY <1>1, <1>5, ThrowKeepsCInv DEF Errors
<1>6. CASE Execute(s, db, "commit")
  <2>1. /\ db \in Database /\ db.balances = view.balances /\ db.requests = view.requests
        /\ db.records = view.records \cup {job[s].key}
    BY <1>2 DEF Database
  <2> HIDE DEF db
  <2>2. pc'[s] = "commit" /\ view' = db /\ job' = job /\ "commit" \in InTx
    BY <1>6, HandlerFields DEF Execute, Goto, HandlerTypes, InTx
  <2>3. TxState(s)'
    <3>1. /\ NewStatus(s)' = NewStatus(s) /\ OldStatus(s)' = OldStatus(s)
          /\ CanMove(s)' = CanMove(s) /\ Moved(s)' = Moved(s)
          /\ AccountOfJob(s)' = AccountOfJob(s)
      BY <1>1, <2>2, SameTransaction
    <3>2. BalanceWritten(s)' /\ RecordWritten(s)' /\ StatusWritten(s)'
      BY <1>3, <2>2 DEF BalanceWritten, RecordWritten, StatusWritten
    <3>3. Checked(s)'
      BY <1>1, <1>2, <2>2, CheckedStays DEF TxState
    <3>4. QED
      BY <1>1, <1>4, <2>1, <2>2, <3>1, <3>2, <3>3 DEF TxState
  <2>4. QED
    BY <1>1, <1>6, <2>1, <2>2, <2>3, ExecuteKeepsCInv
<1>7. QED
  BY <1>1, <1>5, <1>6

-----------------------------------------------------------------------------
(* The end of a transaction.                                               *)

(* Nobody is inside any more, and the connection sees the file.            *)
LEMMA OutKeepsCInv ==
  ASSUME CInv, HandlerTypes', file' \in Database, view' = file', owner' = None,
         \A t \in Sessions : pc'[t] \notin Inside /\ LocalRight(t)',
         TablesAgree', DoneIsDurable'
  PROVE  CInv'
<1>1. TypeOK'
  BY DEF TypeOK, HandlerTypes
<1>2. OwnerRight' /\ ViewRight'
  BY NoneIsNothing, InsidesDistinct DEF OwnerRight, ViewRight
<1>3. QED
  BY <1>1, <1>2 DEF CInv

LEMMA RollbackKeepsCInv ==
  ASSUME CInv, NEW s \in Sessions, Rollback(s)
  PROVE  CInv'
<1>1. /\ pc[s] = "rollback" /\ pc[s] \in Inside /\ pc[s] # "idle" /\ failure[s] \in Errors
      /\ view' = file /\ owner' = None /\ file' = file /\ Handle(s, failure[s])
  BY HandlerFields DEF Rollback, Inside
<1>2. /\ HandlerTypes' /\ Apart(s) /\ LocalRight(s)'
      /\ pc'[s] \in {"begin", "recoverCheck", "idle"} /\ reply'[s] # "done"
  BY <1>1, HandleEffect
<1>3. \A t \in Sessions : pc'[t] \notin Inside
  BY <1>1, <1>2, InsidesDistinct DEF CInv, OwnerRight, Apart
<1>4. \A t \in Sessions : LocalRight(t)'
  BY <1>2 DEF CInv, LocalRight, Apart
<1>5. TablesAgree' /\ DoneIsDurable'
  BY <1>1, <1>2, DurableStays
<1>6. file' \in Database /\ view' = file'
  BY <1>1 DEF CInv, TypeOK
<1>7. QED
  BY <1>1, <1>2, <1>3, <1>4, <1>5, <1>6, OutKeepsCInv

LEMMA RestartKeepsCInv ==
  ASSUME CInv, Restart
  PROVE  CInv'
<1>1. HandlerTypes'
  BY NoneIsNothing DEF Restart, CInv, TypeOK, HandlerTypes, maxAttempts
<1>2. \A t \in Sessions :
        /\ pc'[t] = "idle" /\ reply'[t] = reply[t]
        /\ job'[t] = IF pc[t] = "idle" THEN job[t] ELSE None
  BY DEF Restart
<1>3. \A t \in Sessions : reply'[t] = "done" =>
        reply[t] = "done" /\ job'[t] = job[t] /\ job[t] \in Jobs
  BY <1>2 DEF CInv, LocalRight
<1>4. \A t \in Sessions : pc'[t] \notin Inside /\ LocalRight(t)'
  BY <1>2, <1>3, InsidesDistinct DEF LocalRight
<1>5. TablesAgree' /\ DoneIsDurable'
  BY <1>3 DEF Restart, CInv, TablesAgree, DoneIsDurable
<1>6. file' \in Database /\ view' = file' /\ owner' = None
  BY DEF Restart, CInv, TypeOK
<1>7. QED
  BY <1>1, <1>4, <1>5, <1>6, OutKeepsCInv

(* COMMIT: the statements of the transaction, all of them, reach the file. *)
LEMMA CommitTables ==
  ASSUME CInv, NEW s \in Sessions, pc[s] = "commit", file' = view
  PROVE  TablesAgree'
<1> DEFINE k == job[s].key
           acc == AccountOfJob(s)
           t == file.requests
           u == view.requests
<1>1. pc[s] \in InTx
  BY DEF InTx
<1>2. /\ k \in Keys /\ acc \in Accounts /\ acc = AccountOf(Body[k])
      /\ DaysOfJob(s) = calculateDaysRequested(Body[k])
      /\ job[s].op \in Decisions \cup {"create"}
      /\ file \in Database /\ file.balances[acc] \in Balance
  BY <1>1, InsideFields DEF AccountOfJob, DaysOfJob
<1>3. /\ view.balances = [file.balances EXCEPT ![acc] = Moved(s)]
      /\ u = [t EXCEPT ![k] = NewStatus(s)] /\ t[k] = OldStatus(s) /\ CanMove(s)
      /\ view.records = IF job[s].op = "create" THEN file.records \cup {k}
                                                ELSE file.records
  <2>1. TxState(s)
    BY <1>1, InsideFields
  <2>2. BalanceWritten(s) /\ StatusWritten(s) /\ (RecordWritten(s) <=> job[s].op = "create")
    BY DEF BalanceWritten, StatusWritten, RecordWritten
  <2>3. QED
    BY <2>1, <2>2 DEF TxState
<1>4. /\ u[k] = NewStatus(s) /\ \A j \in Keys \ {k} : u[j] = t[j]
      /\ view.balances[acc] = Moved(s)
      /\ \A a \in Accounts \ {acc} : view.balances[a] = file.balances[a]
  BY <1>2, <1>3 DEF Database
<1>5. \A a \in Accounts : file.balances[a] \in Balance /\ Counted(file.balances[a], a, t)
  BY <1>2 DEF CInv, TablesAgree, Counted, Database
<1>6. ASSUME NEW a \in Accounts
      PROVE  Counted(view.balances[a], a, u)
  <2> DEFINE b == file.balances[a]
             d == calculateDaysRequested(Body[k])
  <2>1. b \in Balance /\ Counted(b, a, t)
    BY <1>5
  <2>2. acc = a => (CanMove(s) => IF job[s].op = "create" THEN CanDeduct(b, d)
                                                          ELSE CanSettle(b, d))
    BY <1>2 DEF CanMove
  <2>3. acc = a => Moved(s) = IF job[s].op = "create" THEN atomicDeduct(b, d)
                              ELSE IF job[s].op = "APPROVED" THEN finalizeUsed(b, d)
                              ELSE releaseFromPending(b, d)
    BY <1>2 DEF Moved
  <2> HIDE DEF b, d, t, u, k, acc
  <2>4. CASE job[s].op = "create"
    <3>1. t[k] = None /\ u[k] = "PENDING"
      BY <1>3, <1>4, <2>4 DEF OldStatus, NewStatus
    <3>2. IF AccountOf(Body[k]) # a THEN Counted(b, a, u)
          ELSE CanDeduct(b, d) => Counted(atomicDeduct(b, d), a, u)
      BY <1>2, <1>4, <2>1, <3>1, BookingCounts DEF d
    <3>3. view.balances[a] = IF acc = a THEN Moved(s) ELSE b
      BY <1>4 DEF b
    <3>4. QED
      BY <1>2, <1>3, <2>2, <2>3, <2>4, <3>2, <3>3
  <2>5. CASE job[s].op # "create"
    <3>1. /\ t[k] = "PENDING" /\ u[k] = job[s].op
          /\ u[k] \in {"APPROVED", "REJECTED", "CANCELLED"}
      BY <1>2, <1>3, <1>4, <2>5, OpsAreStatuses DEF OldStatus, NewStatus
    <3>2. IF AccountOf(Body[k]) # a THEN Counted(b, a, u)
          ELSE CanSettle(b, d) =>
                 Counted(IF u[k] = "APPROVED" THEN finalizeUsed(b, d)
                                              ELSE releaseFromPending(b, d), a, u)
      BY <1>2, <1>4, <2>1, <3>1, SettlementCounts DEF d
    <3>3. view.balances[a] = IF acc = a THEN Moved(s) ELSE b
      BY <1>4 DEF b
    <3>4. QED
      BY <1>2, <1>3, <2>2, <2>3, <2>5, <3>1, <3>2, <3>3
  <2>6. QED
    BY <2>4, <2>5
<1>7. \A j \in Keys : u[j] # None <=> j \in view.records
  <2>1. \A j \in Keys : t[j] # None <=> j \in file.records
    BY DEF CInv, TablesAgree
  <2>2. NewStatus(s) # None
    BY <1>1, InsideFields, NoneIsNothing
  <2>3. job[s].op # "create" => t[k] # None
    BY <1>3, NoneIsNothing DEF OldStatus, RequestStatus
  <2> HIDE DEF t, u, k
  <2>4. QED
    BY <1>2, <1>3, <1>4, <2>1, <2>2, <2>3
<1>8. NoneOverlap(u)
  <2>1. NoneOverlap(t)
    BY DEF CInv, TablesAgree
  <2>2. Checked(s) /\ pc[s] # "overlap"
    BY <1>1, InsideFields DEF TxState
  <2>3. CASE job[s].op = "create"
    <3>1. \A q \in Keys : t[q] \in ActiveStatus /\ Body[q].lane = Body[k].lane =>
            ~ datesOverlap(Body[k], Body[q])
      BY <2>2, <2>3 DEF Checked
    <3> HIDE DEF t, u, k
    <3>2. \A q \in Keys : t[q] \in ActiveStatus /\ Body[q].lane = Body[k].lane =>
            ~ datesOverlap(Body[q], Body[k])
      BY <3>1 DEF datesOverlap
    <3>3. QED
      BY <1>2, <1>4, <2>1, <3>1, <3>2 DEF NoneOverlap
  <2>4. CASE job[s].op # "create"
    <3>1. t[k] = "PENDING"
      BY <1>3, <2>4 DEF OldStatus
    <3> HIDE DEF t, u, k
    <3>2. t[k] \in ActiveStatus
      BY <3>1 DEF ActiveStatus
    <3>3. QED
      BY <1>2, <1>4, <2>1, <3>2 DEF NoneOverlap
  <2>5. QED
    BY <2>3, <2>4
<1>9. QED
  BY <1>6, <1>7, <1>8 DEF TablesAgree, Counted

LEMMA CommitKeepsCInv ==
  ASSUME CInv, NEW s \in Sessions, Commit(s)
  PROVE  CInv'
<1>1. /\ pc[s] = "commit" /\ pc[s] \in InTx /\ pc[s] # "idle"
      /\ file' = view /\ view' = view /\ owner' = None /\ Answer(s, "done")
  BY DEF Commit, InTx
<1>2. /\ HandlerTypes' /\ Apart(s) /\ pc'[s] = "idle" /\ LocalRight(s)'
      /\ job'[s] = job[s] /\ reply'[s] = "done"
  BY <1>1, AnswerEffect
<1>3. TablesAgree'
  BY <1>1, CommitTables
<1>4. \A t \in Sessions : pc'[t] \notin Inside /\ LocalRight(t)'
  BY <1>1, <1>2, InsidesDistinct DEF CInv, OwnerRight, LocalRight, Apart
<1>5. /\ job[s].key \in Keys /\ job[s].op \in Decisions \cup {"create"}
      /\ NewStatus(s) \in RequestStatus
      /\ file \in Database /\ view \in Database
      /\ view.requests = [file.requests EXCEPT ![job[s].key] = NewStatus(s)]
      /\ file.requests[job[s].key] = OldStatus(s)
  BY <1>1, InsideFields DEF TxState, StatusWritten
<1>6. /\ view.requests[job[s].key] = NewStatus(s)
      /\ \A k \in Keys \ {job[s].key} : view.requests[k] = file.requests[k]
  BY <1>5 DEF Database
<1>7. ASSUME NEW t \in Sessions, reply'[t] = "done"
      PROVE  LET status == file'.requests[job'[t].key]
             IN IF job'[t].op = "create" THEN status # None ELSE status = job'[t].op
  <2>1. CASE t = s
    BY <1>1, <1>2, <1>5, <1>6, <2>1, NoneIsNothing DEF NewStatus
  <2>2. CASE t # s
    <3>1. job'[t] = job[t] /\ reply[t] = "done" /\ job[t] \in Jobs
      BY <1>2, <1>7, <2>2 DEF Apart, CInv, LocalRight
    <3>2. LET status == file.requests[job[t].key]
          IN IF job[t].op = "create" THEN status # None ELSE status = job[t].op
      BY <3>1 DEF CInv, DoneIsDurable
    <3>3. job[t].key \in Keys /\ job[t].op \in Decisions \cup {"create"}
      BY <3>1, JobFields
    <3>4. CASE job[t].key # job[s].key
      BY <1>1, <1>6, <3>1, <3>2, <3>3, <3>4
    <3>5. CASE job[t].key = job[s].key
      <4>1. job[t].op = "create"
        BY <1>5, <3>2, <3>3, <3>5, OpsAreStatuses, NoneIsNothing DEF OldStatus, RequestStatus
      <4>2. QED
        BY <1>1, <1>5, <1>6, <3>1, <3>5, <4>1, NoneIsNothing
    <3>6. QED
      BY <3>4, <3>5
  <2>3. QED
    BY <2>1, <2>2
<1>8. DoneIsDurable'
  BY <1>7 DEF DoneIsDurable
<1>9. QED
  BY <1>1, <1>2, <1>3, <1>4, <1>5, <1>8, OutKeepsCInv

LEMMA StepKeepsCInv == CInv /\ [Next]_vars => CInv'
<1> SUFFICES ASSUME CInv, [Next]_vars PROVE CInv'
  OBVIOUS
<1>1. ASSUME NEW s \in Sessions, Step(s)
      PROVE  CInv'
  <2>1. CASE Fault(s)
    BY <2>1, ThrowKeepsCInv DEF Fault, Errors
  <2>2. QED
    BY <1>1, <2>1, ChecksKeepCInv, BeginKeepsCInv, ReadsKeepCInv, SaveStatusKeepsCInv,
       FindBalanceKeepsCInv, SaveBalanceKeepsCInv, InsertRequestKeepsCInv,
       InsertRecordKeepsCInv, CommitKeepsCInv, RollbackKeepsCInv DEF Step
<1>2. CASE UNCHANGED vars
  <2>1. UNCHANGED <<file, view, owner, pc, job, row, attempt, failure, reply>>
    BY <1>2 DEF vars
  <2>2. ViewRight'
    BY <2>1, TxStateStays DEF CInv, ViewRight
  <2>3. TypeOK' /\ OwnerRight' /\ (\A s \in Sessions : LocalRight(s)')
    BY <2>1 DEF CInv, TypeOK, OwnerRight, LocalRight
  <2>4. TablesAgree' /\ DoneIsDurable'
    BY <2>1 DEF CInv, TablesAgree, DoneIsDurable
  <2>5. QED
    BY <2>2, <2>3, <2>4 DEF CInv
<1>3. QED
  BY <1>1, <1>2, SubmitKeepsCInv, RestartKeepsCInv DEF Next

-----------------------------------------------------------------------------
(* Types: the two states of the database and the locals of every handler;  *)
(* no counter of a balance row goes below zero, in the file or in the view.*)
THEOREM TypeCorrect == Spec => []TypeOK
<1>1. CInv => TypeOK
  BY DEF CInv
<1>2. QED
  BY <1>1, InitCInv, StepKeepsCInv, PTL DEF Spec

(* The three tables agree in the file, however the statements of any       *)
(* number of handlers interleave, fail and are cut short by restarts.      *)
THEOREM FileAgrees == Spec => []TablesAgree
<1>1. CInv => TablesAgree
  BY DEF CInv
<1>2. QED
  BY <1>1, InitCInv, StepKeepsCInv, PTL DEF Spec

(* What a caller was told is done stays done.                              *)
THEOREM AnswersAreDurable == Spec => []DoneIsDurable
<1>1. CInv => DoneIsDurable
  BY DEF CInv
<1>2. QED
  BY <1>1, InitCInv, StepKeepsCInv, PTL DEF Spec
====
