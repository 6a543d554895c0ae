-------------------------- MODULE BatchSync_proofs ---------------------------
(***************************************************************************)
(* Proofs about BatchSync, for every set of accounts and runs and whatever *)
(* HCM reports.                                                            *)
(*                                                                         *)
(* BInv, the types, the turn-taking of the runs, what a run in its loop    *)
(* knows, what an open transaction has found and the days booked on each   *)
(* row, is inductive by itself.  RowsRight adds the total and the flag of  *)
(* every row.  No theorem keeps the runs and the transactions apart: a clean    *)
(* write keeps a row right, and after one that is not, race says so.       *)
(***************************************************************************)
EXTENDS BatchSync, TLAPS

(* Where each run stands. *)
RunsInTurn ==
  /\ OneRun
  /\ \A r \in Runs : pc[r] \in Active => _batchRunning

(* What a run in its loops knows: the accounts left and the one in hand    *)
(* are HCM's, and a row that was there is there still.                     *)
LoopState ==
  \A r \in Runs :
    /\ pc[r] \in {"looping", "reconciling"} => todo[r] \subseteq DOMAIN hcmBalances[r]
    /\ pc[r] = "reconciling" =>
         /\ localBalance[r] # None
         /\ localBalance[r].account \in DOMAIN hcmBalances[r]
         /\ localBalance[r].row # None => balances[localBalance[r].account] # None
    /\ pc[r] = "marking" => \A a \in todo[r] : balances[a] # None

(* The row an open transaction has found is still there and may have been  *)
(* written since, but the days that are pending and used are the same.     *)
FoundStands ==
  transaction # None =>
    LET a == transaction.account
        found == transaction.found
    IN /\ CanMove(transaction.op, found)
       /\ balances[a] # None
       /\ balances[a].pending = found.pending /\ balances[a].used = found.used

(* Days are only booked on a row that is there.                            *)
NoneBooked ==
  \A a \in Accounts : balances[a] = None => booked[a].pending = 0 /\ booked[a].used = 0

Booking == BookedDaysSurvive /\ NoneBooked

BInv == TypeOK /\ RunsInTurn /\ LoopState /\ FoundStands /\ Booking

RowsRight == AddsUpUntilRace /\ ExcessIsFlagged

Covered(r, a) ==
  /\ balances[a] # None
  /\ balances[a].hcmTotal = hcmBalances[r][a] \/ race[a] = "saved over"

(* A run none of whose records has failed has dealt with those it is past. *)
PastIsCovered ==
  \A r \in Runs : counts[r].failed = 0 =>
    /\ pc[r] = "looping" =>
         \A a \in DOMAIN hcmBalances[r] \ todo[r] : Covered(r, a)
    /\ pc[r] = "reconciling" =>
         \A a \in DOMAIN hcmBalances[r] \ todo[r] :
           a # localBalance[r].account => Covered(r, a)
    /\ pc[r] = "marking" => \A a \in DOMAIN hcmBalances[r] : Covered(r, a)

-----------------------------------------------------------------------------
(* The arithmetic of a row.                                                *)

LEMMA NewRowIsRow ==
  ASSUME NEW t \in Nat
  PROVE  /\ NewRow(t) \in Row /\ NewRow(t).hcmTotal = t
         /\ Balanced(NewRow(t)) /\ Tracked(NewRow(t)) = t
BY DEF NewRow, Row, Balanced, Tracked

(* A transaction moves a day and changes nothing else: the days a row      *)
(* tracks stay as many.                                                    *)
DaysPending(op) == IF op = "create" THEN 1 ELSE -1
DaysUsed(op) == IF op = "approve" THEN 1 ELSE 0

LEMMA MovedFields ==
  ASSUME NEW b \in Row, NEW op \in {"create", "approve", "withdraw"}, CanMove(op, b)
  PROVE  LET n == Moved(op, b)
         IN /\ n \in Row /\ n.total = b.total
            /\ n.pending = b.pending + DaysPending(op) /\ n.used = b.used + DaysUsed(op)
            /\ n.hcmTotal = b.hcmTotal /\ n.hasDiscrepancy = b.hasDiscrepancy
            /\ Tracked(n) = Tracked(b)
            /\ Balanced(b) => Balanced(n)
<1> DEFINE n == Moved(op, b)
<1>0. /\ b.total \in Nat /\ b.available \in Nat /\ b.pending \in Nat
      /\ b.used \in Nat /\ b.hcmTotal \in Nat /\ b.hasDiscrepancy \in BOOLEAN
  BY DEF Row
<1>1. CASE op = "create"
  <2>1. n = [total |-> b.total, available |-> b.available - 1,
             pending |-> b.pending + 1, used |-> b.used,
             hcmTotal |-> b.hcmTotal, hasDiscrepancy |-> b.hasDiscrepancy]
    BY <1>1 DEF Moved, atomicDeduct, Row
  <2>2. b.available - 1 \in Nat /\ b.pending + 1 \in Nat
    BY <1>0, <1>1 DEF CanMove, CanDeduct
  <2> HIDE DEF n
  <2>3. QED
    BY <1>0, <1>1, <2>1, <2>2 DEF Row, Tracked, Balanced, DaysPending, DaysUsed, n
<1>2. CASE op = "approve"
  <2>1. n = [total |-> b.total, available |-> b.available,
             pending |-> b.pending - 1, used |-> b.used + 1,
             hcmTotal |-> b.hcmTotal, hasDiscrepancy |-> b.hasDiscrepancy]
    BY <1>2 DEF Moved, finalizeUsed, Row
  <2>2. b.pending - 1 \in Nat /\ b.used + 1 \in Nat
    BY <1>0, <1>2 DEF CanMove, CanSettle
  <2> HIDE DEF n
  <2>3. QED
    BY <1>0, <1>2, <2>1, <2>2 DEF Row, Tracked, Balanced, DaysPending, DaysUsed, n
<1>3. CASE op = "withdraw"
  <2>1. n = [total |-> b.total, available |-> b.available + 1,
             pending |-> b.pending - 1, used |-> b.used,
             hcmTotal |-> b.hcmTotal, hasDiscrepancy |-> b.hasDiscrepancy]
    BY <1>3 DEF Moved, releaseFromPending, Row
  <2>2. b.pending - 1 \in Nat /\ b.available + 1 \in Nat
    BY <1>0, <1>3 DEF CanMove, CanSettle
  <2> HIDE DEF n
  <2>3. QED
    BY <1>0, <1>3, <2>1, <2>2 DEF Row, Tracked, Balanced, DaysPending, DaysUsed, n
<1>4. QED
  BY <1>1, <1>2, <1>3

(* The columns a transaction has moved, in a row as it is.                 *)
MovedColumns(b, e) ==
  [b EXCEPT !.available = e.available, !.pending = e.pending, !.used = e.used]

LEMMA MovedColumnsFields ==
  ASSUME NEW b \in Row, NEW e \in Row
  PROVE  LET n == MovedColumns(b, e)
         IN /\ n \in Row /\ n.total = b.total /\ n.available = e.available
            /\ n.pending = e.pending /\ n.used = e.used
            /\ n.hcmTotal = b.hcmTotal /\ n.hasDiscrepancy = b.hasDiscrepancy
<1> DEFINE n == MovedColumns(b, e)
<1>1. e.available \in Nat /\ e.pending \in Nat /\ e.used \in Nat
  BY DEF Row
<1> DEFINE first == [b EXCEPT !.available = e.available]
           second == [first EXCEPT !.pending = e.pending]
<1>2. first = [total |-> b.total, available |-> e.available, pending |-> b.pending,
               used |-> b.used, hcmTotal |-> b.hcmTotal,
               hasDiscrepancy |-> b.hasDiscrepancy]
  BY DEF Row
<1> HIDE DEF first
<1>3. second = [total |-> b.total, available |-> e.available, pending |-> e.pending,
                used |-> b.used, hcmTotal |-> b.hcmTotal,
                hasDiscrepancy |-> b.hasDiscrepancy]
  BY <1>2
<1>4. n = [second EXCEPT !.used = e.used]
  BY DEF MovedColumns, first
<1> HIDE DEF second, n
<1>5. n = [total |-> b.total, available |-> e.available, pending |-> e.pending,
           used |-> e.used, hcmTotal |-> b.hcmTotal,
           hasDiscrepancy |-> b.hasDiscrepancy]
  BY <1>3, <1>4
<1>6. QED
  BY <1>1, <1>5 DEF Row, n

(* What the batch writes, field by field, whichever rows it read and found. *)
LEMMA ReconciledFields ==
  ASSUME NEW b \in Row, NEW read \in Row, NEW t \in Nat
  PROVE  LET drift == t - Tracked(read)
             n == Reconciled(b, read, t)
         IN /\ n \in Row
            /\ n.total = IF drift > 0 THEN t ELSE b.total
            /\ n.available = IF drift > 0 THEN read.available + drift
                             ELSE b.available
            /\ n.pending = b.pending /\ n.used = b.used
            /\ n.hcmTotal = t /\ (n.hasDiscrepancy <=> drift < 0)
<1> DEFINE drift == t - Tracked(read)
           low == drift < 0
           seen == [b EXCEPT !.hcmTotal = t, !.hasDiscrepancy = low]
           n == Reconciled(b, read, t)
<1>1. n = IF drift > 0
            THEN [seen EXCEPT !.total = t, !.available = read.available + drift]
            ELSE seen
  BY DEF Reconciled
<1>2. Tracked(read) \in Nat /\ read.available \in Nat
  BY DEF Tracked, Row
<1>3. drift \in Int /\ (drift > 0 => read.available + drift \in Nat)
  BY <1>2
<1>4. low \in BOOLEAN /\ (low <=> drift < 0)
  OBVIOUS
<1> HIDE DEF low, drift, n
<1>5. /\ seen \in Row
      /\ seen.total = b.total /\ seen.available = b.available
      /\ seen.pending = b.pending /\ seen.used = b.used
      /\ seen.hcmTotal = t /\ seen.hasDiscrepancy = low
  BY <1>4 DEF Row
<1> HIDE DEF seen
<1>6. CASE drift > 0
  <2>1. n = [seen EXCEPT !.total = t, !.available = read.available + drift]
    BY <1>1, <1>6
  <2>2. /\ n \in Row /\ n.total = t /\ n.available = read.available + drift
        /\ n.pending = b.pending /\ n.used = b.used
        /\ n.hcmTotal = t /\ n.hasDiscrepancy = low
    BY <1>3, <1>5, <1>6, <2>1 DEF Row
  <2>3. QED
    BY <1>4, <1>6, <2>2 DEF drift, n
<1>7. CASE ~ (drift > 0)
  <2>1. n = seen
    BY <1>1, <1>7
  <2>2. QED
    BY <1>4, <1>5, <1>7, <2>1 DEF drift, n
<1>8. QED
  BY <1>6, <1>7

(* When the row it read is the row it writes, a balanced row stays so, and *)
(* it is flagged if HCM reports fewer days than it tracks.                 *)
LEMMA ReconciledIsRight ==
  ASSUME NEW b \in Row, NEW t \in Nat
  PROVE  LET n == Reconciled(b, b, t)
         IN /\ Balanced(b) => Balanced(n)
            /\ Tracked(n) > n.hcmTotal => n.hasDiscrepancy
<1> DEFINE drift == t - Tracked(b)
           n == Reconciled(b, b, t)
<1>0. /\ b.total \in Nat /\ b.available \in Nat /\ b.pending \in Nat
      /\ b.used \in Nat
  BY DEF Row
<1>1. /\ n.total = IF drift > 0 THEN t ELSE b.total
      /\ n.available = IF drift > 0 THEN b.available + drift ELSE b.available
      /\ n.pending = b.pending /\ n.used = b.used
      /\ n.hcmTotal = t /\ (n.hasDiscrepancy <=> drift < 0)
  BY ReconciledFields
<1>2. drift = t - (b.used + b.pending + b.available) /\ drift \in Int
  BY <1>0 DEF Tracked
<1> HIDE DEF n, drift
<1>3. b.available + b.pending + b.used = b.total =>
        n.available + n.pending + n.used = n.total
  BY <1>0, <1>1, <1>2
<1>4. n.used + n.pending + n.available > n.hcmTotal => drift < 0
  BY <1>0, <1>1, <1>2
<1>5. QED
  BY <1>1, <1>3, <1>4 DEF Balanced, Tracked, n

LEMMA MarkedFields ==
  ASSUME NEW b \in Row, NEW n, n = [b EXCEPT !.hasDiscrepancy = TRUE]
  PROVE  /\ n \in Row
         /\ n.total = b.total /\ n.available = b.available
         /\ n.pending = b.pending /\ n.used = b.used
         /\ n.hcmTotal = b.hcmTotal /\ n.hasDiscrepancy = TRUE
BY DEF Row

-----------------------------------------------------------------------------
LEMMA EmptySnapshot == \A f : f = <<>> => DOMAIN f = {}
OBVIOUS

LEMMA InitBInv == Init => BInv
<1> SUFFICES ASSUME Init PROVE BInv
  OBVIOUS
<1>1. TypeOK
  <2>1. NoCounts \in [processed : Nat, failed : Nat]
    BY DEF NoCounts
  <2>2. \A r \in Runs : DOMAIN hcmBalances[r] = {}
    <3>1. \A r \in Runs : hcmBalances[r] = <<>>
      BY DEF Init
    <3>2. QED
      BY <3>1, EmptySnapshot
  <2>3. /\ counts \in [Runs -> [processed : Nat, failed : Nat]]
        /\ DOMAIN hcmBalances = Runs
        /\ triggers \in 0 .. MaxTriggers
    BY <2>1, BatchSyncAssumption DEF Init
  <2>4. QED
    BY <2>2, <2>3 DEF Init, TypeOK
<1>2. RunsInTurn /\ LoopState /\ FoundStands /\ Booking
  BY DEF Init, RunsInTurn, OneRun, Active, LoopState, FoundStands, Booking,
     BookedDaysSurvive, NoneBooked
<1>3. QED
  BY <1>1, <1>2 DEF BInv

(* A step that leaves alone the days that are pending and used in any row, *)
(* and creates rows without any.                                           *)
DaysStay ==
  \A a \in Accounts :
    /\ balances[a] # None =>
         /\ balances'[a] # None
         /\ balances'[a].pending = balances[a].pending
         /\ balances'[a].used = balances[a].used
    /\ balances[a] = None /\ balances'[a] # None =>
         balances'[a].pending = 0 /\ balances'[a].used = 0

LEMMA BookingStays ==
  ASSUME BInv, DaysStay, booked' = booked
  PROVE  Booking'
BY DEF BInv, Booking, BookedDaysSurvive, NoneBooked, DaysStay

LEMMA FoundKeepsStanding ==
  ASSUME BInv, DaysStay, transaction' = transaction
  PROVE  FoundStands'
<1> SUFFICES ASSUME transaction # None
             PROVE  LET a == transaction.account
                        found == transaction.found
                    IN /\ CanMove(transaction.op, found)
                       /\ balances'[a] # None
                       /\ balances'[a].pending = found.pending
                       /\ balances'[a].used = found.used
  BY DEF FoundStands
<1>1. transaction.account \in Accounts
  BY DEF BInv, TypeOK, Transaction
<1>2. QED
  BY <1>1 DEF BInv, FoundStands, DaysStay

LEMMA BalancesStay ==
  ASSUME BInv, UNCHANGED <<balances, locals>>
  PROVE  /\ FoundStands' /\ Booking'
         /\ transaction' = transaction /\ booked' = booked /\ race' = race
<1>1. DaysStay
  BY DEF DaysStay
<1>2. transaction' = transaction /\ booked' = booked /\ race' = race
  BY DEF locals
<1>3. QED
  BY <1>1, <1>2, BookingStays, FoundKeepsStanding

(* A run ends.                                                             *)
LEMMA FinishKeepsBInv ==
  ASSUME BInv, NEW r \in Runs, pc[r] \in Active,
         NEW status \in {"COMPLETED", "PARTIAL", "FAILED"}, Finish(r, status)
  PROVE  BInv'
<1>1. \A q \in Runs : pc'[q] = IF q = r THEN "idle" ELSE pc[q]
  BY DEF Finish, BInv, TypeOK
<1>2. \A q \in Runs : pc'[q] \notin Active
  BY <1>1 DEF BInv, RunsInTurn, OneRun, Active
<1>3. syncLog' \in [Runs -> {None, "STARTED", "COMPLETED", "PARTIAL", "FAILED"}]
  BY DEF Finish, BInv, TypeOK
<1>4. TypeOK'
  <2>1. NoCounts \in [processed : Nat, failed : Nat]
    BY DEF NoCounts
  <2>2. /\ DOMAIN hcmBalances' = Runs /\ DOMAIN hcmBalances'[r] = {}
        /\ \A q \in Runs \ {r} : hcmBalances'[q] = hcmBalances[q]
    BY EmptySnapshot DEF Finish, BInv, TypeOK
  <2>3. /\ pc' \in [Runs -> Active \cup {"idle"}]
        /\ todo' \in [Runs -> SUBSET Accounts]
        /\ counts' \in [Runs -> [processed : Nat, failed : Nat]]
    BY <2>1 DEF Finish, BInv, TypeOK
  <2>4. QED
    BY <1>3, <2>2, <2>3, BalancesStay DEF Finish, BInv, TypeOK
<1>5. RunsInTurn' /\ LoopState'
  BY <1>2 DEF RunsInTurn, OneRun, LoopState, Active
<1>6. QED
  BY <1>4, <1>5, BalancesStay DEF BInv, Finish

(* A run begins, only if none is at work.                                  *)
LEMMA BeginKeepsBInv ==
  ASSUME BInv, NEW r \in Runs, Begin(r), triggers' \in 0 .. MaxTriggers,
         UNCHANGED <<balances, hcmBalances, todo, localBalance, counts, locals>>
  PROVE  BInv'
<1>1. \A q \in Runs : pc[q] \notin Active
  BY DEF Begin, BInv, RunsInTurn
<1>2. \A q \in Runs : pc'[q] = IF q = r THEN "saving" ELSE pc[q]
  BY DEF Begin, BInv, TypeOK
<1>3. TypeOK'
  BY BalancesStay DEF Begin, BInv, TypeOK, Unfinished, Active
<1>4. RunsInTurn' /\ LoopState'
  BY <1>1, <1>2 DEF Begin, RunsInTurn, OneRun, LoopState, Active
<1>5. QED
  BY <1>3, <1>4, BalancesStay DEF BInv

(* A step of a run at work that does not end it: the others are idle, so   *)
(* what must be shown is about this run.                                   *)
LEMMA WorkKeepsTurns ==
  ASSUME BInv, NEW r \in Runs, pc[r] \in Active,
         NEW label \in Active, pc' = [pc EXCEPT ![r] = label],
         _batchRunning' = _batchRunning
  PROVE  /\ RunsInTurn'
         /\ \A q \in Runs : pc'[q] = IF q = r THEN label ELSE pc[q]
         /\ \A q \in Runs \ {r} : pc'[q] \notin Active
<1>1. \A q \in Runs : pc'[q] = IF q = r THEN label ELSE pc[q]
  BY DEF BInv, TypeOK
<1>2. QED
  BY <1>1 DEF BInv, RunsInTurn, OneRun

LEMMA FetchKeepsBInv ==
  ASSUME BInv, NEW r \in Runs, Fetch(r)
  PROVE  BInv'
<1>1. CASE Finish(r, "FAILED")
  BY <1>1, FinishKeepsBInv DEF Fetch, Active
<1>2. ASSUME NEW known \in SUBSET Accounts, NEW snapshot \in Snapshots(known),
             hcmBalances' = [hcmBalances EXCEPT ![r] = snapshot],
             todo' = [todo EXCEPT ![r] = known],
             pc' = [pc EXCEPT ![r] = "looping"],
             UNCHANGED <<balances, _batchRunning, triggers, localBalance, counts,
                         syncLog, locals>>
      PROVE  BInv'
  <2>1. DOMAIN snapshot = known /\ \A a \in known : snapshot[a] \in Totals[a]
    BY DEF Snapshots
  <2>2. pc[r] \in Active /\ "looping" \in Active
    BY DEF Fetch, Active
  <2>3. /\ RunsInTurn'
        /\ \A q \in Runs : pc'[q] = IF q = r THEN "looping" ELSE pc[q]
        /\ \A q \in Runs \ {r} : pc'[q] \notin Active
    BY <1>2, <2>2, WorkKeepsTurns
  <2>4. /\ hcmBalances'[r] = snapshot /\ DOMAIN hcmBalances' = Runs
        /\ \A q \in Runs \ {r} : hcmBalances'[q] = hcmBalances[q]
        /\ todo'[r] = known
    BY <1>2 DEF BInv, TypeOK
  <2>5. TypeOK'
    <3>1. todo' \in [Runs -> SUBSET Accounts]
      BY <1>2 DEF BInv, TypeOK
    <3>2. pc' \in [Runs -> Active \cup {"idle"}]
      BY <1>2, <2>2 DEF BInv, TypeOK
    <3>3. QED
      BY <1>2, <2>1, <2>4, <3>1, <3>2, BalancesStay DEF BInv, TypeOK
  <2>6. LoopState'
    BY <2>1, <2>3, <2>4 DEF LoopState, Active
  <2>7. QED
    BY <1>2, <2>3, <2>5, <2>6, BalancesStay DEF BInv
<1>3. QED
  BY <1>1, <1>2 DEF Fetch

LEMMA ProcessedIsCounted ==
  ASSUME BInv, NEW r \in Runs
  PROVE  LET n == [counts EXCEPT ![r].processed = @ + 1]
         IN n \in [Runs -> [processed : Nat, failed : Nat]] /\ n[r].failed = counts[r].failed
<1> DEFINE T == [processed : Nat, failed : Nat]
           n == [counts[r] EXCEPT !.processed = @ + 1]
<1>1. counts \in [Runs -> T]
  BY DEF BInv, TypeOK
<1>2. n \in T /\ n.failed = counts[r].failed
  BY <1>1
<1> HIDE DEF T, n
<1>3. [counts EXCEPT ![r] = n] \in [Runs -> T] /\ [counts EXCEPT ![r] = n][r] = n
  BY <1>1, <1>2
<1>4. QED
  BY <1>2, <1>3 DEF T, n

LEMMA ReadKeepsBInv ==
  ASSUME BInv, NEW r \in Runs, ReadRecord(r)
  PROVE  BInv'
<1>1. PICK a \in todo[r] :
        /\ localBalance' = [localBalance EXCEPT ![r] = [account |-> a, row |-> balances[a]]]
        /\ todo' = [todo EXCEPT ![r] = @ \ {a}]
  BY DEF ReadRecord
<1>2. a \in Accounts /\ balances[a] \in Row \cup {None}
  BY DEF BInv, TypeOK
<1>3. [account |-> a, row |-> balances[a]] \in ReadRow
  BY <1>2 DEF ReadRow
<1>4. pc[r] = "looping" /\ pc[r] \in Active /\ "reconciling" \in Active
  BY DEF ReadRecord, Active
<1>5. /\ RunsInTurn'
      /\ \A q \in Runs : pc'[q] = IF q = r THEN "reconciling" ELSE pc[q]
      /\ \A q \in Runs \ {r} : pc'[q] \notin Active
  BY <1>4, WorkKeepsTurns DEF ReadRecord
<1>6. TypeOK'
  <2>1. counts' \in [Runs -> [processed : Nat, failed : Nat]]
    BY ProcessedIsCounted DEF ReadRecord
  <2>2. QED
    BY <1>1, <1>3, <1>4, <2>1, BalancesStay DEF ReadRecord, BInv, TypeOK
<1>7. LoopState'
  <2>1. /\ localBalance'[r].account = a /\ localBalance'[r].row = balances[a]
        /\ localBalance'[r] # None
        /\ todo'[r] \subseteq todo[r] /\ a \in DOMAIN hcmBalances[r]
        /\ todo[r] \subseteq DOMAIN hcmBalances[r]
        /\ balances' = balances /\ hcmBalances' = hcmBalances
    BY <1>1, <1>3, <1>4, BatchSyncAssumption DEF ReadRecord, BInv, TypeOK, LoopState
  <2>2. QED
    BY <1>5, <2>1 DEF LoopState, Active
<1>8. QED
  BY <1>5, <1>6, <1>7, BalancesStay DEF BInv, ReadRecord

LEMMA FailureIsCounted ==
  ASSUME BInv, NEW r \in Runs, CountFailed(r)
  PROVE  /\ counts' \in [Runs -> [processed : Nat, failed : Nat]]
         /\ counts'[r].failed = counts[r].failed + 1
         /\ \A q \in Runs \ {r} : counts'[q] = counts[q]
<1>1. counts[r] \in [processed : Nat, failed : Nat]
  BY DEF BInv, TypeOK
<1>2. [counts[r] EXCEPT !.failed = @ + 1] \in [processed : Nat, failed : Nat]
  BY <1>1
<1>3. counts' = [counts EXCEPT ![r] = [counts[r] EXCEPT !.failed = @ + 1]]
  BY DEF CountFailed
<1>4. [counts[r] EXCEPT !.failed = @ + 1].failed = counts[r].failed + 1
  BY <1>1
<1>5. QED
  BY <1>2, <1>3, <1>4 DEF BInv, TypeOK

(* The three ways a reconciliation ends, for the account in hand.          *)
LEMMA WriteEffect ==
  ASSUME BInv, NEW r \in Runs, WriteRecord(r)
  PROVE  LET a == localBalance[r].account
             read == localBalance[r].row
             t == hcmBalances[r][a]
         IN /\ a \in Accounts /\ a \in DOMAIN hcmBalances[r] /\ t \in Nat
            /\ read \in Row \cup {None}
            /\ \/ /\ read = None /\ balances[a] = None
                  /\ balances' = [balances EXCEPT ![a] = NewRow(t)]
                  /\ UNCHANGED <<counts, race>>
               \/ /\ read \in Row /\ balances[a] \in Row
                  /\ balances' = [balances EXCEPT ![a] = Reconciled(@, read, t)]
                  /\ race' = [race EXCEPT ![a] = Met(@, balances[a] = read)]
                  /\ UNCHANGED counts
               \/ CountFailed(r) /\ UNCHANGED <<balances, race>>
<1> DEFINE a == localBalance[r].account
           read == localBalance[r].row
           t == hcmBalances[r][a]
<1>1. pc[r] = "reconciling" /\ localBalance[r] \in ReadRow
  BY DEF WriteRecord, BInv, TypeOK, LoopState
<1>2. a \in Accounts /\ read \in Row \cup {None} /\ a \in DOMAIN hcmBalances[r]
  BY <1>1 DEF ReadRow, BInv, LoopState
<1>3. t \in Nat
  BY <1>2, BatchSyncAssumption DEF BInv, TypeOK
<1>4. read # None => balances[a] \in Row
  BY <1>1, <1>2 DEF BInv, TypeOK, LoopState
<1>5. QED
  BY <1>2, <1>3, <1>4 DEF WriteRecord

LEMMA WriteKeepsBInv ==
  ASSUME BInv, NEW r \in Runs, WriteRecord(r)
  PROVE  BInv'
<1> DEFINE a == localBalance[r].account
           read == localBalance[r].row
           t == hcmBalances[r][a]
<1>1. pc[r] = "reconciling" /\ pc[r] \in Active /\ "looping" \in Active
  BY DEF WriteRecord, Active
<1>2. /\ RunsInTurn'
      /\ \A q \in Runs : pc'[q] = IF q = r THEN "looping" ELSE pc[q]
      /\ \A q \in Runs \ {r} : pc'[q] \notin Active
  BY <1>1, WorkKeepsTurns DEF WriteRecord
<1>3. /\ balances' \in [Accounts -> Row \cup {None}]
      /\ DaysStay
      /\ race' \in [Accounts -> {"never", "written over", "saved over", "since reconciled"}]
      /\ counts' \in [Runs -> [processed : Nat, failed : Nat]]
  <2>0. /\ a \in Accounts /\ t \in Nat /\ balances \in [Accounts -> Row \cup {None}]
        /\ race \in [Accounts -> {"never", "written over", "saved over", "since reconciled"}]
        /\ counts \in [Runs -> [processed : Nat, failed : Nat]]
    BY WriteEffect DEF BInv, TypeOK
  <2> HIDE DEF a, read, t
  <2>1. CASE /\ balances[a] = None /\ balances' = [balances EXCEPT ![a] = NewRow(t)]
             /\ UNCHANGED <<counts, race>>
    BY <2>0, <2>1, NewRowIsRow DEF DaysStay, NewRow
  <2>2. CASE /\ read \in Row /\ balances[a] \in Row
             /\ balances' = [balances EXCEPT ![a] = Reconciled(@, read, t)]
             /\ race' = [race EXCEPT ![a] = Met(@, balances[a] = read)]
             /\ UNCHANGED counts
    <3> DEFINE n == Reconciled(balances[a], read, t)
    <3>1. n \in Row /\ n.pending = balances[a].pending /\ n.used = balances[a].used
      <4>1. \A c, d \in Row : \A u \in Nat :
              /\ Reconciled(c, d, u) \in Row
              /\ Reconciled(c, d, u).pending = c.pending
              /\ Reconciled(c, d, u).used = c.used
        BY ReconciledFields
      <4>2. QED
        BY <2>0, <2>2, <4>1
    <3>2. balances' = [balances EXCEPT ![a] = n]
      BY <2>2
    <3> HIDE DEF n
    <3>3. balances' \in [Accounts -> Row \cup {None}] /\ DaysStay
      <4>1. \A c \in Accounts : balances'[c] = IF c = a THEN n ELSE balances[c]
        BY <2>0, <3>2
      <4>2. balances[a] # None /\ n # None
        BY <2>2, <3>1, BatchSyncAssumption
      <4>3. balances' \in [Accounts -> Row \cup {None}]
        BY <2>0, <3>1, <3>2
      <4>4. QED
        BY <3>1, <4>1, <4>2, <4>3 DEF DaysStay
    <3>4. race' \in [Accounts -> {"never", "written over", "saved over", "since reconciled"}]
      BY <2>0, <2>2 DEF Met
    <3>5. QED
      BY <2>0, <2>2, <3>3, <3>4
  <2>3. CASE CountFailed(r) /\ UNCHANGED <<balances, race>>
    BY <2>0, <2>3, FailureIsCounted DEF DaysStay
  <2>4. QED
    BY <2>1, <2>2, <2>3, WriteEffect DEF a, read, t
<1>4. TypeOK'
  BY <1>1, <1>3 DEF WriteRecord, BInv, TypeOK
<1>5. LoopState'
  <2>1. todo' = todo /\ hcmBalances' = hcmBalances /\ todo[r] \subseteq DOMAIN hcmBalances[r]
    BY <1>1 DEF WriteRecord, BInv, LoopState
  <2>2. QED
    BY <1>2, <2>1 DEF LoopState, Active
<1>6. FoundStands' /\ Booking'
  BY <1>3, FoundKeepsStanding, BookingStays DEF WriteRecord
<1>7. QED
  BY <1>2, <1>4, <1>5, <1>6 DEF BInv

LEMMA MarkKeepsBInv ==
  ASSUME BInv, NEW r \in Runs, MarkMissing(r)
  PROVE  /\ BInv'
         /\ \E a \in Accounts :
              /\ balances[a] \in Row
              /\ balances' = [balances EXCEPT ![a].hasDiscrepancy = TRUE]
<1>1. pc[r] = "marking" /\ pc[r] \in Active
  BY DEF MarkMissing, Active
<1>2. PICK a \in todo[r] :
        /\ balances' = [balances EXCEPT ![a].hasDiscrepancy = TRUE]
        /\ todo' = [todo EXCEPT ![r] = @ \ {a}]
  BY DEF MarkMissing
<1>3. a \in Accounts /\ balances[a] \in Row
  BY <1>1 DEF BInv, TypeOK, LoopState
<1>4. balances' \in [Accounts -> Row \cup {None}] /\ DaysStay
  <2> DEFINE n == [balances[a] EXCEPT !.hasDiscrepancy = TRUE]
  <2>1. n \in Row /\ n.pending = balances[a].pending /\ n.used = balances[a].used
    BY <1>3 DEF Row
  <2>2. balances' = [balances EXCEPT ![a] = n]
    BY <1>2
  <2> HIDE DEF n
  <2>3. QED
    BY <1>3, <2>1, <2>2, BatchSyncAssumption DEF BInv, TypeOK, DaysStay
<1>5. counts' \in [Runs -> [processed : Nat, failed : Nat]]
  <2> DEFINE mid == [counts EXCEPT ![r].processed = @ + 1]
  <2>1. mid \in [Runs -> [processed : Nat, failed : Nat]]
    BY ProcessedIsCounted
  <2>2. counts' = [mid EXCEPT ![r].failed = @ + 1]
    BY DEF MarkMissing
  <2> HIDE DEF mid
  <2>3. QED
    BY <2>1, <2>2
<1>6. pc' = pc /\ _batchRunning' = _batchRunning
  BY DEF MarkMissing
<1>7. TypeOK'
  BY <1>2, <1>4, <1>5 DEF MarkMissing, BInv, TypeOK, locals
<1>8. \A q \in Runs \ {r} : pc[q] \notin Active
  BY <1>1 DEF BInv, RunsInTurn, OneRun
<1>9. LoopState' /\ RunsInTurn'
  <2>1. todo'[r] \subseteq todo[r] /\ \A b \in todo[r] : b \in Accounts
    BY <1>2 DEF BInv, TypeOK
  <2>2. LoopState'
    BY <1>1, <1>4, <1>6, <1>8, <2>1 DEF BInv, LoopState, Active, DaysStay
  <2>3. RunsInTurn'
    BY <1>6 DEF BInv, RunsInTurn, OneRun
  <2>4. QED
    BY <2>2, <2>3
<1>10. FoundStands' /\ Booking'
  BY <1>4, FoundKeepsStanding, BookingStays DEF MarkMissing, locals
<1>11. QED
  BY <1>2, <1>3, <1>7, <1>9, <1>10 DEF BInv

LEMMA ListKeepsBInv ==
  ASSUME BInv, NEW r \in Runs, ListLocal(r)
  PROVE  BInv'
<1>1. pc[r] = "looping" /\ pc[r] \in Active /\ "marking" \in Active
  BY DEF ListLocal, Active
<1>2. /\ RunsInTurn'
      /\ \A q \in Runs : pc'[q] = IF q = r THEN "marking" ELSE pc[q]
      /\ \A q \in Runs \ {r} : pc'[q] \notin Active
  BY <1>1, WorkKeepsTurns DEF ListLocal
<1>3. TypeOK'
  BY <1>1, BalancesStay DEF ListLocal, BInv, TypeOK
<1>4. todo'[r] = {a \in Accounts : balances[a] # None} \ DOMAIN hcmBalances[r]
  BY DEF ListLocal, BInv, TypeOK
<1>5. LoopState'
  BY <1>2, <1>4 DEF ListLocal, LoopState, Active
<1>6. QED
  BY <1>2, <1>3, <1>5, BalancesStay DEF BInv, ListLocal

LEMMA SaveLogKeepsBInv ==
  ASSUME BInv, NEW r \in Runs, SaveLog(r)
  PROVE  BInv'
<1>1. pc[r] = "saving" /\ pc[r] \in Active /\ "fetching" \in Active
  BY DEF SaveLog, Active
<1>2. PICK label \in {"fetching", "idle"} : pc' = [pc EXCEPT ![r] = label]
  BY DEF SaveLog
<1>3. /\ \A q \in Runs : pc'[q] = IF q = r THEN label ELSE pc[q]
      /\ \A q \in Runs \ {r} : pc[q] \notin Active
  BY <1>1, <1>2 DEF BInv, TypeOK, RunsInTurn, OneRun
<1>4. TypeOK'
  BY <1>1, <1>2, BalancesStay DEF SaveLog, BInv, TypeOK
<1>5. _batchRunning' = _batchRunning /\ _batchRunning
  BY <1>1 DEF SaveLog, BInv, RunsInTurn
<1>6. RunsInTurn'
  BY <1>3, <1>5 DEF RunsInTurn, OneRun, Active
<1>7. LoopState'
  BY <1>3 DEF LoopState, Active
<1>8. QED
  BY <1>4, <1>6, <1>7, BalancesStay DEF BInv, SaveLog

(* What the save of a transaction leaves in its row.  If the row is the    *)
(* one found, both forms of the save are the entity.                       *)
LEMMA SaveEffect ==
  ASSUME BInv, SaveBalance
  PROVE  LET a == transaction.account
             op == transaction.op
             b == balances[a]
         IN /\ transaction \in Transaction /\ a \in Accounts /\ b \in Row
            /\ op \in {"create", "approve", "withdraw"}
            /\ booked' = [booked EXCEPT ![a] = [pending |-> @.pending + DaysPending(op),
                                                used |-> @.used + DaysUsed(op)]]
            /\ \E n \in Row :
                 /\ balances' = [balances EXCEPT ![a] = n]
                 /\ n.pending = b.pending + DaysPending(op)
                 /\ n.used = b.used + DaysUsed(op)
                 /\ b = transaction.found =>
                      /\ n.hcmTotal = b.hcmTotal /\ n.hasDiscrepancy = b.hasDiscrepancy
                      /\ Tracked(n) = Tracked(b)
                      /\ Balanced(b) => Balanced(n)
<1> DEFINE a == transaction.account
           op == transaction.op
           b == balances[a]
           found == transaction.found
           e == Moved(op, found)
           m == MovedColumns(b, e)
<1>1. /\ transaction \in Transaction /\ a \in Accounts /\ found \in Row
      /\ op \in {"create", "approve", "withdraw"}
  BY DEF SaveBalance, BInv, TypeOK, Transaction
<1>2. /\ CanMove(op, found) /\ b \in Row
      /\ b.pending = found.pending /\ b.used = found.used
  BY <1>1 DEF SaveBalance, BInv, TypeOK, FoundStands
<1>3. booked' = [booked EXCEPT ![a] = [pending |-> @.pending + DaysPending(op),
                                       used |-> @.used + DaysUsed(op)]]
  BY DEF SaveBalance, DaysPending, DaysUsed
<1>4. PICK n \in {e, m} : balances' = [balances EXCEPT ![a] = n]
  BY DEF SaveBalance, MovedColumns
<1>5. /\ e \in Row
      /\ e.pending = found.pending + DaysPending(op)
      /\ e.used = found.used + DaysUsed(op)
      /\ e.total = found.total
      /\ e.hcmTotal = found.hcmTotal /\ e.hasDiscrepancy = found.hasDiscrepancy
      /\ Tracked(e) = Tracked(found)
      /\ Balanced(found) => Balanced(e)
  BY <1>1, <1>2, MovedFields
<1> HIDE DEF e
<1>6. /\ m \in Row /\ m.total = b.total /\ m.available = e.available
      /\ m.pending = e.pending /\ m.used = e.used
      /\ m.hcmTotal = b.hcmTotal /\ m.hasDiscrepancy = b.hasDiscrepancy
  <2>1. b \in Row /\ e \in Row
    BY <1>2, <1>5
  <2> HIDE DEF b
  <2>2. QED
    BY <2>1, MovedColumnsFields
<1> HIDE DEF m, b, found, op, a
<1>7. /\ n \in Row
      /\ n.pending = b.pending + DaysPending(op)
      /\ n.used = b.used + DaysUsed(op)
  BY <1>2, <1>4, <1>5, <1>6
<1>8. ASSUME b = found
      PROVE  /\ n.hcmTotal = b.hcmTotal /\ n.hasDiscrepancy = b.hasDiscrepancy
             /\ Tracked(n) = Tracked(b)
             /\ Balanced(b) => Balanced(n)
  BY <1>4, <1>5, <1>6, <1>8 DEF Tracked, Balanced
<1>9. QED
  BY <1>1, <1>2, <1>3, <1>4, <1>7, <1>8 DEF a, op, b, found

(* Steps that change rows and transactions, and no run.                    *)
LEMMA RowsKeepBInv ==
  ASSUME BInv, UNCHANGED <<memory, syncLog>>,
         balances' \in [Accounts -> Row \cup {None}],
         \A b \in Accounts : balances[b] # None => balances'[b] # None,
         transaction' \in Transaction \cup {None},
         booked' \in [Accounts -> [pending : Nat, used : Nat]],
         race' \in [Accounts -> {"never", "written over", "saved over", "since reconciled"}],
         FoundStands', Booking'
  PROVE  BInv'
<1>0. UNCHANGED <<_batchRunning, triggers, pc, hcmBalances, todo, localBalance, counts,
                  syncLog>>
  BY DEF memory
<1>1. TypeOK'
  BY <1>0 DEF BInv, TypeOK
<1>2. RunsInTurn'
  BY <1>0 DEF BInv, RunsInTurn, OneRun
<1>3. LoopState'
  <2>1. \A r \in Runs : todo[r] \subseteq Accounts
    BY DEF BInv, TypeOK
  <2>2. \A r \in Runs : pc[r] = "reconciling" => localBalance[r].account \in Accounts
    BY DEF BInv, TypeOK, LoopState, ReadRow
  <2>3. QED
    BY <1>0, <2>1, <2>2 DEF BInv, LoopState
<1>4. QED
  BY <1>1, <1>2, <1>3 DEF BInv

LEMMA FindKeepsBInv ==
  ASSUME BInv, NEW a \in Accounts, NEW op \in {"create", "approve", "withdraw"},
         FindBalance(a, op)
  PROVE  BInv'
<1>1. balances[a] \in Row /\ CanMove(op, balances[a])
  BY DEF FindBalance, BInv, TypeOK
<1> DEFINE t == [account |-> a, op |-> op, found |-> balances[a]]
<1>2. t \in Transaction /\ t # None
  BY <1>1, BatchSyncAssumption DEF Transaction
<1>3. transaction' = t /\ balances' = balances /\ booked' = booked /\ race' = race
  BY DEF FindBalance
<1>4. FoundStands'
  BY <1>1, <1>3 DEF FindBalance, FoundStands
<1>5. Booking'
  BY <1>3, BookingStays DEF DaysStay
<1>6. QED
  BY <1>2, <1>3, <1>4, <1>5, RowsKeepBInv DEF FindBalance, BInv, TypeOK

LEMMA SaveKeepsBInv ==
  ASSUME BInv, SaveBalance
  PROVE  BInv'
<1> DEFINE a == transaction.account
           op == transaction.op
           b == balances[a]
           now == [pending |-> booked[a].pending + DaysPending(op),
                   used |-> booked[a].used + DaysUsed(op)]
<1>1. /\ a \in Accounts /\ b \in Row /\ op \in {"create", "approve", "withdraw"}
      /\ booked' = [booked EXCEPT ![a] = now]
  BY SaveEffect
<1>2. PICK n \in Row :
        /\ balances' = [balances EXCEPT ![a] = n]
        /\ n.pending = b.pending + DaysPending(op)
        /\ n.used = b.used + DaysUsed(op)
  BY SaveEffect
<1>3. b.pending = booked[a].pending /\ b.used = booked[a].used
  BY <1>1, BatchSyncAssumption DEF BInv, Booking, BookedDaysSurvive
<1>4. now.pending = n.pending /\ now.used = n.used
  BY <1>2, <1>3
<1>5. now \in [pending : Nat, used : Nat]
  BY <1>4 DEF Row
<1>6. transaction' = None /\ UNCHANGED <<memory, syncLog>>
  BY DEF SaveBalance
<1>7. race' \in [Accounts -> {"never", "written over", "saved over", "since reconciled"}]
  BY <1>1 DEF SaveBalance, BInv, TypeOK
<1>8. FoundStands'
  BY <1>6 DEF FoundStands
<1> HIDE DEF now, a, op, b
<1>9. Booking'
  BY <1>1, <1>2, <1>4, BatchSyncAssumption
     DEF BInv, TypeOK, Booking, BookedDaysSurvive, NoneBooked
<1>10. /\ balances' \in [Accounts -> Row \cup {None}]
       /\ \A c \in Accounts : balances[c] # None => balances'[c] # None
       /\ booked' \in [Accounts -> [pending : Nat, used : Nat]]
  BY <1>1, <1>2, <1>5, BatchSyncAssumption DEF BInv, TypeOK
<1>11. QED
  BY <1>6, <1>7, <1>8, <1>9, <1>10, RowsKeepBInv

LEMMA SeedKeepsBInv ==
  ASSUME BInv, NEW a \in Accounts, NEW total \in Seeds[a], SeedBalance(a, total)
  PROVE  BInv'
<1>1. total \in Nat
  BY BatchSyncAssumption
<1>2. /\ balances' = [balances EXCEPT ![a] = NewRow(total)] /\ balances[a] = None
      /\ UNCHANGED <<memory, syncLog, transaction, booked, race>>
  BY DEF SeedBalance, locals
<1>3. balances' \in [Accounts -> Row \cup {None}] /\ DaysStay
  BY <1>1, <1>2, NewRowIsRow DEF BInv, TypeOK, DaysStay, NewRow
<1>4. FoundStands' /\ Booking'
  BY <1>2, <1>3, FoundKeepsStanding, BookingStays
<1>5. QED
  BY <1>2, <1>3, <1>4, RowsKeepBInv DEF BInv, TypeOK, DaysStay

LEMMA RestartKeepsBInv ==
  ASSUME BInv, Restart
  PROVE  BInv'
<1>1. NoCounts \in [processed : Nat, failed : Nat]
  BY DEF NoCounts
<1>2. /\ DOMAIN hcmBalances' = Runs
      /\ \A r \in Runs : DOMAIN hcmBalances'[r] = {}
  <2>1. \A r \in Runs : hcmBalances'[r] = <<>>
    BY DEF Restart
  <2>2. QED
    BY <2>1, EmptySnapshot DEF Restart
<1>3. /\ triggers' \in 0 .. MaxTriggers
      /\ counts' \in [Runs -> [processed : Nat, failed : Nat]]
  BY <1>1, BatchSyncAssumption DEF Restart
<1>4. TypeOK'
  BY <1>2, <1>3 DEF Restart, BInv, TypeOK
<1>5. RunsInTurn' /\ LoopState' /\ FoundStands'
  BY DEF Restart, RunsInTurn, OneRun, LoopState, Active, FoundStands
<1>6. Booking'
  BY BookingStays DEF Restart, DaysStay
<1>7. QED
  BY <1>4, <1>5, <1>6 DEF BInv

LEMMA StepKeepsBInv == BInv /\ [Next]_vars => BInv'
<1> SUFFICES ASSUME BInv, [Next]_vars PROVE BInv'
  OBVIOUS
<1>1. ASSUME NEW r \in Runs, CronFires(r)
      PROVE  BInv'
  BY <1>1, BeginKeepsBInv DEF CronFires, BInv, TypeOK
<1>2. ASSUME NEW r \in Runs, DeferredRun(r)
      PROVE  BInv'
  <2>1. triggers' \in 0 .. MaxTriggers
    <3>1. triggers \in 0 .. MaxTriggers /\ triggers > 0 /\ triggers' = triggers - 1
      BY <1>2 DEF DeferredRun, BInv, TypeOK
    <3>2. QED
      BY <3>1, BatchSyncAssumption
  <2>2. CASE Begin(r)
    BY <1>2, <2>1, <2>2, BeginKeepsBInv DEF DeferredRun
  <2>3. CASE UNCHANGED <<_batchRunning, pc, syncLog>>
    <3>1. UNCHANGED <<balances, hcmBalances, todo, localBalance, counts, locals>>
      BY <1>2 DEF DeferredRun
    <3>2. QED
      BY <2>1, <2>3, <3>1, BalancesStay DEF BInv, TypeOK, RunsInTurn, OneRun, LoopState
  <2>4. QED
    BY <1>2, <2>2, <2>3 DEF DeferredRun
<1>3. ASSUME NEW r \in Runs, RunStep(r)
      PROVE  BInv'
  <2>1. CASE Throw(r) \/ Complete(r)
    <3>1. \A n : finalStatus(n) \in {"COMPLETED", "PARTIAL", "FAILED"}
      BY DEF finalStatus
    <3>2. QED
      BY <2>1, <3>1, FinishKeepsBInv DEF Throw, Complete, Active
  <2>2. QED
    BY <1>3, <2>1, SaveLogKeepsBInv, FetchKeepsBInv, ReadKeepsBInv, WriteKeepsBInv,
       ListKeepsBInv, MarkKeepsBInv DEF RunStep
<1>4. CASE triggerManualBatchSync
  <2>1. triggers' \in 0 .. MaxTriggers
    <3>1. /\ triggers \in 0 .. MaxTriggers /\ triggers < MaxTriggers
          /\ triggers' = triggers + 1
      BY <1>4 DEF triggerManualBatchSync, BInv, TypeOK
    <3>2. QED
      BY <3>1, BatchSyncAssumption
  <2>2. QED
    BY <1>4, <2>1, BalancesStay
       DEF triggerManualBatchSync, BInv, TypeOK, RunsInTurn, OneRun, LoopState
<1>5. CASE Rollback
  <2>1. /\ transaction' = None
        /\ UNCHANGED <<balances, memory, syncLog, booked, race>>
    BY <1>5 DEF Rollback
  <2>2. FoundStands' /\ Booking'
    BY <2>1, BookingStays DEF FoundStands, DaysStay
  <2>3. QED
    BY <2>1, <2>2, RowsKeepBInv DEF BInv, TypeOK
<1>6. CASE UNCHANGED vars
  BY <1>6, BalancesStay
     DEF vars, memory, BInv, TypeOK, RunsInTurn, OneRun, LoopState
<1>7. QED
  BY <1>1, <1>2, <1>3, <1>4, <1>5, <1>6, FindKeepsBInv, SaveKeepsBInv, SeedKeepsBInv,
     RestartKeepsBInv DEF Next

(* Types of every variable, for every set of accounts and runs.            *)
THEOREM TypeCorrect == Spec => []TypeOK
<1>1. BInv => TypeOK
  BY DEF BInv
<1>2. QED
  BY <1>1, InitBInv, StepKeepsBInv, PTL DEF Spec

(* The guard, looked at twice, lets one run work at a time, also when the  *)
(* insert of a log row fails and leaves it set.                            *)
THEOREM OneRunAtATime == Spec => []OneRun
<1>1. BInv => OneRun
  BY DEF BInv, RunsInTurn
<1>2. QED
  BY <1>1, InitBInv, StepKeepsBInv, PTL DEF Spec

(* However the reads and writes of a run and of the transactions cross,    *)
(* the batch takes no booking away: the days pending and used in a row are *)
(* those that committed transactions have moved there.                     *)
THEOREM BookingsSurvive == Spec => []BookedDaysSurvive
<1>1. BInv => BookedDaysSurvive
  BY DEF BInv, Booking
<1>2. QED
  BY <1>1, InitBInv, StepKeepsBInv, PTL DEF Spec

-----------------------------------------------------------------------------
(* The five things a step can do to a row.                                 *)
Same(a) == balances'[a] = balances[a] /\ race'[a] = race[a]

Created(a) ==
  /\ balances[a] = None /\ race'[a] = race[a]
  /\ \E t \in Nat : balances'[a] = NewRow(t)

Marked(a) ==
  /\ balances[a] \in Row /\ race'[a] = race[a]
  /\ balances'[a] = [balances[a] EXCEPT !.hasDiscrepancy = TRUE]

Saved(a) ==
  /\ balances[a] \in Row /\ balances'[a] \in Row
  /\ \/ race'[a] = "saved over"
     \/ /\ race'[a] = race[a]
        /\ balances'[a].hcmTotal = balances[a].hcmTotal
        /\ balances'[a].hasDiscrepancy = balances[a].hasDiscrepancy
        /\ Tracked(balances'[a]) = Tracked(balances[a])
        /\ Balanced(balances[a]) => Balanced(balances'[a])

Adjusted(a) ==
  \E r \in Runs :
    /\ WriteRecord(r) /\ localBalance[r].account = a
    /\ balances[a] \in Row /\ localBalance[r].row \in Row
    /\ hcmBalances[r][a] \in Nat
    /\ balances'[a] =
         Reconciled(balances[a], localBalance[r].row, hcmBalances[r][a])
    /\ race'[a] = Met(race[a], balances[a] = localBalance[r].row)

LEMMA WriteOnRow ==
  ASSUME BInv, NEW r \in Runs, WriteRecord(r), NEW a \in Accounts
  PROVE  Same(a) \/ Created(a) \/ Adjusted(a)
<1> DEFINE b == localBalance[r].account
           read == localBalance[r].row
           t == hcmBalances[r][b]
<1>0. /\ balances \in [Accounts -> Row \cup {None}]
      /\ DOMAIN race = Accounts
  BY DEF BInv, TypeOK
<1>1. /\ b \in Accounts /\ t \in Nat
      /\ \/ /\ balances[b] = None /\ balances' = [balances EXCEPT ![b] = NewRow(t)]
            /\ race' = race
         \/ /\ read \in Row /\ balances[b] \in Row
            /\ balances' = [balances EXCEPT ![b] = Reconciled(@, read, t)]
            /\ race' = [race EXCEPT ![b] = Met(@, balances[b] = read)]
         \/ balances' = balances /\ race' = race
  BY WriteEffect
<1>2. CASE balances' = balances /\ race' = race
  BY <1>2 DEF Same
<1>3. CASE /\ balances[b] = None /\ balances' = [balances EXCEPT ![b] = NewRow(t)]
           /\ race' = race
  BY <1>0, <1>1, <1>3 DEF Same, Created
<1>4. CASE /\ read \in Row /\ balances[b] \in Row
           /\ balances' = [balances EXCEPT ![b] = Reconciled(@, read, t)]
           /\ race' = [race EXCEPT ![b] = Met(@, balances[b] = read)]
  <2>1. CASE a # b
    BY <1>0, <1>1, <1>4, <2>1 DEF Same
  <2>2. CASE a = b
    <3>1. balances'[a] = Reconciled(balances[a], read, t)
      BY <1>0, <1>1, <1>4, <2>2
    <3>2. race'[a] = Met(race[a], balances[a] = read)
      BY <1>0, <1>1, <1>4, <2>2
    <3>3. QED
      BY <1>1, <1>4, <2>2, <3>1, <3>2 DEF Adjusted
  <2>3. QED
    BY <2>1, <2>2
<1>5. QED
  BY <1>1, <1>2, <1>3, <1>4

LEMMA MarkOnRow ==
  ASSUME BInv, NEW r \in Runs, MarkMissing(r), NEW a \in Accounts
  PROVE  Same(a) \/ Marked(a)
<1>0. balances \in [Accounts -> Row \cup {None}]
  BY DEF BInv, TypeOK
<1>1. PICK b \in Accounts :
        /\ balances[b] \in Row
        /\ balances' = [balances EXCEPT ![b].hasDiscrepancy = TRUE]
  BY MarkKeepsBInv
<1>2. race' = race
  BY DEF MarkMissing, locals
<1>3. CASE a # b
  BY <1>0, <1>1, <1>2, <1>3 DEF Same
<1>4. CASE a = b
  BY <1>0, <1>1, <1>2, <1>4 DEF Marked
<1>5. QED
  BY <1>3, <1>4

LEMMA SaveOnRow ==
  ASSUME BInv, SaveBalance, NEW a \in Accounts
  PROVE  Same(a) \/ Saved(a)
<1> DEFINE b == transaction.account
<1>0. balances \in [Accounts -> Row \cup {None}] /\ DOMAIN race = Accounts
  BY DEF BInv, TypeOK
<1>1. b \in Accounts /\ balances[b] \in Row
  BY SaveEffect
<1>2. PICK n \in Row :
        /\ balances' = [balances EXCEPT ![b] = n]
        /\ balances[b] = transaction.found =>
             /\ n.hcmTotal = balances[b].hcmTotal
             /\ n.hasDiscrepancy = balances[b].hasDiscrepancy
             /\ Tracked(n) = Tracked(balances[b])
             /\ Balanced(balances[b]) => Balanced(n)
  BY SaveEffect
<1>3. race' = IF balances[b] = transaction.found THEN race
              ELSE [race EXCEPT ![b] = "saved over"]
  BY DEF SaveBalance
<1> HIDE DEF b
<1>4. CASE a # b
  BY <1>0, <1>1, <1>2, <1>3, <1>4 DEF Same
<1>5. CASE a = b
  <2>1. balances'[a] = n
    BY <1>0, <1>1, <1>2, <1>5
  <2>2. CASE balances[b] = transaction.found
    BY <1>1, <1>2, <1>3, <1>5, <2>1, <2>2 DEF Saved
  <2>3. CASE balances[b] # transaction.found
    BY <1>0, <1>1, <1>3, <1>5, <2>1, <2>3 DEF Saved
  <2>4. QED
    BY <2>2, <2>3
<1>6. QED
  BY <1>4, <1>5

LEMMA RowStep ==
  ASSUME BInv, [Next]_vars, NEW a \in Accounts
  PROVE  Same(a) \/ Created(a) \/ Marked(a) \/ Saved(a) \/ Adjusted(a)
<1>0. balances \in [Accounts -> Row \cup {None}]
  BY DEF BInv, TypeOK
<1>1. ASSUME NEW b \in Accounts, NEW total \in Seeds[b], SeedBalance(b, total)
      PROVE  Same(a) \/ Created(a)
  <2>1. total \in Nat
    BY BatchSyncAssumption
  <2>2. QED
    BY <1>0, <1>1, <2>1 DEF SeedBalance, locals, Same, Created
<1>2. CASE balances' = balances /\ race' = race
  BY <1>2 DEF Same
<1>3. \/ balances' = balances /\ race' = race
      \/ \E r \in Runs : WriteRecord(r) \/ MarkMissing(r)
      \/ SaveBalance
      \/ \E b \in Accounts : \E total \in Seeds[b] : SeedBalance(b, total)
  BY DEF Next, vars, locals, CronFires, DeferredRun, RunStep, SaveLog, Fetch, Finish,
     ReadRecord, ListLocal, Throw, Complete, triggerManualBatchSync,
     FindBalance, Rollback, Restart
<1>4. QED
  BY <1>1, <1>2, <1>3, WriteOnRow, MarkOnRow, SaveOnRow

LEMMA StepKeepsRows == BInv /\ RowsRight /\ [Next]_vars => RowsRight'
<1> SUFFICES ASSUME BInv, RowsRight, [Next]_vars,
                    NEW a \in Accounts, balances'[a] # None
             PROVE  /\ race'[a] = "never" => Balanced(balances'[a])
                    /\ /\ race'[a] \in {"never", "since reconciled"}
                       /\ Tracked(balances'[a]) > balances'[a].hcmTotal
                       => balances'[a].hasDiscrepancy
  BY DEF RowsRight, AddsUpUntilRace, ExcessIsFlagged
<1>1. balances[a] \in Row =>
        /\ race[a] = "never" => Balanced(balances[a])
        /\ /\ race[a] \in {"never", "since reconciled"}
           /\ Tracked(balances[a]) > balances[a].hcmTotal
           => balances[a].hasDiscrepancy
  BY BatchSyncAssumption DEF RowsRight, AddsUpUntilRace, ExcessIsFlagged
<1>2. CASE Same(a)
  <2>1. balances[a] \in Row
    BY <1>2 DEF Same, BInv, TypeOK
  <2>2. QED
    BY <1>1, <1>2, <2>1 DEF Same
<1>3. CASE Created(a)
  <2>1. PICK t \in Nat : balances'[a] = NewRow(t)
    BY <1>3 DEF Created
  <2>2. Balanced(balances'[a]) /\ balances'[a].hcmTotal = t /\ Tracked(balances'[a]) = t
    BY <2>1, NewRowIsRow
  <2>3. ~ (t > t)
    BY <2>1
  <2>4. QED
    BY <2>2, <2>3
<1>4. CASE Marked(a)
  <2>1. /\ balances[a] \in Row /\ race'[a] = race[a]
        /\ balances'[a] = [balances[a] EXCEPT !.hasDiscrepancy = TRUE]
    BY <1>4 DEF Marked
  <2>2. /\ balances'[a].total = balances[a].total
        /\ balances'[a].available = balances[a].available
        /\ balances'[a].pending = balances[a].pending
        /\ balances'[a].used = balances[a].used
        /\ balances'[a].hasDiscrepancy = TRUE
    BY <2>1, MarkedFields
  <2>3. QED
    BY <1>1, <2>1, <2>2 DEF Balanced
<1>5. CASE Saved(a)
  BY <1>1, <1>5 DEF Saved
<1>6. CASE Adjusted(a)
  <2>1. PICK r \in Runs :
          /\ balances[a] \in Row /\ localBalance[r].row \in Row
          /\ hcmBalances[r][a] \in Nat
          /\ balances'[a] =
               Reconciled(balances[a], localBalance[r].row, hcmBalances[r][a])
          /\ race'[a] = Met(race[a], balances[a] = localBalance[r].row)
    BY <1>6 DEF Adjusted
  <2>2. CASE localBalance[r].row # balances[a]
    BY <2>1, <2>2 DEF Met
  <2>3. CASE localBalance[r].row = balances[a]
    <3>1. race'[a] = "never" => race[a] = "never"
      BY <2>1, <2>3 DEF Met
    <3>2. balances'[a] = Reconciled(balances[a], balances[a], hcmBalances[r][a])
      BY <2>1, <2>3
    <3>3. QED
      BY <1>1, <2>1, <3>1, <3>2, ReconciledIsRight
  <2>4. QED
    BY <2>2, <2>3
<1>7. QED
  BY <1>2, <1>3, <1>4, <1>5, <1>6, RowStep

LEMMA InitRows == Init => RowsRight
BY DEF Init, RowsRight, AddsUpUntilRace, ExcessIsFlagged

(* A row adds up until a run has written over a transaction or a           *)
(* transaction over a run, whatever HCM reports, fails to report or omits. *)
THEOREM RowsAddUpUntilRace == Spec => []AddsUpUntilRace
<1>1. RowsRight => AddsUpUntilRace
  BY DEF RowsRight
<1>2. QED
  BY <1>1, InitBInv, StepKeepsBInv, InitRows, StepKeepsRows, PTL DEF Spec

(* A row tracking more days than HCM last reported carries the flag, and   *)
(* after a crossing of reads and writes it does so again from the first    *)
(* run that reconciles the row as it is.                                   *)
THEOREM ExcessStaysFlagged == Spec => []ExcessIsFlagged
<1>1. RowsRight => ExcessIsFlagged
  BY DEF RowsRight
<1>2. QED
  BY <1>1, InitBInv, StepKeepsBInv, InitRows, StepKeepsRows, PTL DEF Spec

-----------------------------------------------------------------------------
(* What a run logs.                                                        *)

RunStays(r) ==
  /\ pc'[r] = pc[r] /\ hcmBalances'[r] = hcmBalances[r] /\ todo'[r] = todo[r]
  /\ localBalance'[r] = localBalance[r] /\ counts'[r] = counts[r]

(* What can become of one run in a step.                                   *)
LEMMA RunMoves ==
  ASSUME BInv, [Next]_vars, NEW r \in Runs
  PROVE  \/ RunStays(r)
         \/ pc'[r] \in {"idle", "saving", "fetching"}
         \/ pc'[r] = "looping" /\ todo'[r] = DOMAIN hcmBalances'[r]
         \/ ReadRecord(r) \/ WriteRecord(r) \/ ListLocal(r) \/ MarkMissing(r)
<1>1. ASSUME NEW q \in Runs, CronFires(q) \/ DeferredRun(q) \/ SaveLog(q)
      PROVE  RunStays(r) \/ pc'[r] \in {"idle", "saving", "fetching"}
  BY <1>1 DEF CronFires, DeferredRun, Begin, SaveLog, BInv, TypeOK, RunStays
<1>2. ASSUME NEW q \in Runs, NEW s, Finish(q, s)
      PROVE  RunStays(r) \/ pc'[r] = "idle"
  BY <1>2 DEF Finish, BInv, TypeOK, RunStays
<1>3. ASSUME NEW q \in Runs, Fetch(q)
      PROVE  \/ RunStays(r) \/ pc'[r] = "idle"
             \/ pc'[r] = "looping" /\ todo'[r] = DOMAIN hcmBalances'[r]
  <2>1. CASE Finish(q, "FAILED")
    BY <1>2, <2>1
  <2>2. CASE \E known \in SUBSET Accounts : \E snapshot \in Snapshots(known) :
               /\ hcmBalances' = [hcmBalances EXCEPT ![q] = snapshot]
               /\ todo' = [todo EXCEPT ![q] = known]
               /\ pc' = [pc EXCEPT ![q] = "looping"]
               /\ UNCHANGED <<localBalance, counts>>
    <3>1. PICK known \in SUBSET Accounts : \E snapshot \in Snapshots(known) :
            /\ hcmBalances' = [hcmBalances EXCEPT ![q] = snapshot]
            /\ todo' = [todo EXCEPT ![q] = known]
            /\ pc' = [pc EXCEPT ![q] = "looping"]
            /\ UNCHANGED <<localBalance, counts>>
      BY <2>2
    <3>2. PICK snapshot \in Snapshots(known) :
            /\ hcmBalances' = [hcmBalances EXCEPT ![q] = snapshot]
            /\ todo' = [todo EXCEPT ![q] = known]
            /\ pc' = [pc EXCEPT ![q] = "looping"]
            /\ UNCHANGED <<localBalance, counts>>
      BY <3>1
    <3>3. DOMAIN snapshot = known
      BY DEF Snapshots
    <3>4. QED
      BY <3>2, <3>3 DEF BInv, TypeOK, RunStays
  <2>3. QED
    BY <1>3, <2>1, <2>2 DEF Fetch
<1>4. ASSUME NEW q \in Runs, q # r,
             ReadRecord(q) \/ WriteRecord(q) \/ ListLocal(q) \/ MarkMissing(q)
      PROVE  RunStays(r)
  <2>1. CASE ReadRecord(q)
    BY <1>4, <2>1 DEF ReadRecord, BInv, TypeOK, RunStays
  <2>2. CASE WriteRecord(q)
    <3>1. counts'[r] = counts[r]
      BY <1>4, <2>2, WriteEffect, FailureIsCounted
    <3>2. QED
      BY <1>4, <2>2, <3>1 DEF WriteRecord, BInv, TypeOK, RunStays
  <2>3. CASE ListLocal(q)
    BY <1>4, <2>3 DEF ListLocal, BInv, TypeOK, RunStays
  <2>4. CASE MarkMissing(q)
    BY <1>4, <2>4 DEF MarkMissing, BInv, TypeOK, RunStays
  <2>5. QED
    BY <1>4, <2>1, <2>2, <2>3, <2>4
<1>5. ASSUME NEW q \in Runs, RunStep(q)
      PROVE  \/ RunStays(r)
             \/ pc'[r] \in {"idle", "saving", "fetching"}
             \/ pc'[r] = "looping" /\ todo'[r] = DOMAIN hcmBalances'[r]
             \/ ReadRecord(r) \/ WriteRecord(r) \/ ListLocal(r) \/ MarkMissing(r)
  BY <1>1, <1>2, <1>3, <1>4, <1>5 DEF RunStep, Throw, Complete
<1>6. CASE \/ triggerManualBatchSync \/ SaveBalance \/ Rollback
           \/ \E a \in Accounts, op \in {"create", "approve", "withdraw"} : FindBalance(a, op)
           \/ \E a \in Accounts : \E total \in Seeds[a] : SeedBalance(a, total)
           \/ UNCHANGED vars
  BY <1>6 DEF triggerManualBatchSync, FindBalance, SaveBalance, Rollback, SeedBalance,
     vars, memory, RunStays
<1>7. CASE Restart
  BY <1>7 DEF Restart
<1>8. QED
  BY <1>1, <1>5, <1>6, <1>7 DEF Next

(* What has HCM's figure keeps it: the run's own writes give the figure,   *)
(* and a transaction that takes it back has found the row before.          *)
LEMMA CoveredStays ==
  ASSUME BInv, [Next]_vars, NEW r \in Runs, pc[r] \in Active,
         NEW a \in Accounts, Covered(r, a), hcmBalances'[r] = hcmBalances[r]
  PROVE  Covered(r, a)'
<1>0. /\ balances[a] \in Row
      /\ balances[a].hcmTotal = hcmBalances[r][a] \/ race[a] = "saved over"
  BY DEF Covered, BInv, TypeOK
<1>1. CASE Same(a)
  BY <1>0, <1>1, BatchSyncAssumption DEF Same, Covered
<1>2. CASE Created(a)
  BY <1>0, <1>2, BatchSyncAssumption DEF Created
<1>3. CASE Marked(a)
  <2>1. /\ balances'[a] = [balances[a] EXCEPT !.hasDiscrepancy = TRUE]
        /\ race'[a] = race[a]
    BY <1>3 DEF Marked
  <2>2. balances'[a] \in Row /\ balances'[a].hcmTotal = balances[a].hcmTotal
    BY <1>0, <2>1, MarkedFields
  <2>3. QED
    BY <1>0, <2>1, <2>2, BatchSyncAssumption DEF Covered
<1>4. CASE Saved(a)
  BY <1>0, <1>4, BatchSyncAssumption DEF Saved, Covered
<1>5. CASE Adjusted(a)
  <2>1. PICK q \in Runs :
          /\ pc[q] = "reconciling"
          /\ balances[a] \in Row /\ localBalance[q].row \in Row
          /\ hcmBalances[q][a] \in Nat
          /\ balances'[a] =
               Reconciled(balances[a], localBalance[q].row, hcmBalances[q][a])
    BY <1>5 DEF Adjusted, WriteRecord
  <2>2. q = r
    BY <2>1 DEF BInv, RunsInTurn, OneRun, Active
  <2>3. \A b, read \in Row : \A t \in Nat :
          Reconciled(b, read, t) \in Row /\ Reconciled(b, read, t).hcmTotal = t
    BY ReconciledFields
  <2>4. LET n == Reconciled(balances[a], localBalance[q].row, hcmBalances[q][a])
        IN n \in Row /\ n.hcmTotal = hcmBalances[q][a]
    BY <2>1, <2>3, Zenon
  <2>5. balances'[a] \in Row /\ balances'[a].hcmTotal = hcmBalances[r][a]
    BY <2>1, <2>2, <2>4, Zenon
  <2>6. QED
    BY <2>5, BatchSyncAssumption DEF Covered
<1>6. QED
  BY <1>1, <1>2, <1>3, <1>4, <1>5, RowStep

LEMMA StepKeepsPast ==
  BInv /\ PastIsCovered /\ [Next]_vars => PastIsCovered'
<1> SUFFICES ASSUME BInv, PastIsCovered, [Next]_vars, NEW r \in Runs,
                    counts'[r].failed = 0
             PROVE  /\ pc'[r] = "looping" =>
                         \A a \in DOMAIN hcmBalances'[r] \ todo'[r] : Covered(r, a)'
                    /\ pc'[r] = "reconciling" =>
                         \A a \in DOMAIN hcmBalances'[r] \ todo'[r] :
                           a # localBalance'[r].account => Covered(r, a)'
                    /\ pc'[r] = "marking" =>
                         \A a \in DOMAIN hcmBalances'[r] : Covered(r, a)'
  BY DEF PastIsCovered, Covered
<1>0. /\ DOMAIN hcmBalances[r] \subseteq Accounts
      /\ counts[r] \in [processed : Nat, failed : Nat]
  BY DEF BInv, TypeOK
<1>1. ASSUME pc[r] \in Active, hcmBalances'[r] = hcmBalances[r],
             NEW a \in DOMAIN hcmBalances[r], Covered(r, a)
      PROVE  Covered(r, a)'
  BY <1>0, <1>1, CoveredStays
<1>2. CASE RunStays(r)
  <2>1. counts[r].failed = 0
    BY <1>2 DEF RunStays
  <2>2. /\ pc[r] = "looping" =>
             \A a \in DOMAIN hcmBalances[r] \ todo[r] : Covered(r, a)
        /\ pc[r] = "reconciling" =>
             \A a \in DOMAIN hcmBalances[r] \ todo[r] :
               a # localBalance[r].account => Covered(r, a)
        /\ pc[r] = "marking" => \A a \in DOMAIN hcmBalances[r] : Covered(r, a)
    BY <2>1 DEF PastIsCovered
  <2>3. QED
    BY <1>1, <1>2, <2>2 DEF RunStays, Active
<1>3. CASE pc'[r] \in {"idle", "saving", "fetching"}
  BY <1>3
<1>4. CASE pc'[r] = "looping" /\ todo'[r] = DOMAIN hcmBalances'[r]
  BY <1>4
<1>5. CASE ReadRecord(r)
  <2>1. PICK a \in todo[r] :
          /\ localBalance' = [localBalance EXCEPT ![r] = [account |-> a, row |-> balances[a]]]
          /\ todo' = [todo EXCEPT ![r] = @ \ {a}]
    BY <1>5 DEF ReadRecord
  <2>2. /\ pc[r] = "looping" /\ pc'[r] = "reconciling"
        /\ hcmBalances' = hcmBalances
        /\ localBalance'[r].account = a /\ todo'[r] = todo[r] \ {a}
    BY <1>5, <2>1 DEF ReadRecord, BInv, TypeOK
  <2>3. counts[r].failed = 0
    BY <1>5, ProcessedIsCounted DEF ReadRecord
  <2>4. \A b \in DOMAIN hcmBalances[r] \ todo[r] : Covered(r, b)
    BY <2>2, <2>3 DEF PastIsCovered
  <2>5. QED
    BY <1>1, <2>2, <2>4 DEF Active
<1>6. CASE WriteRecord(r)
  <2>0. PICK a \in Accounts : a = localBalance[r].account
    BY <1>6, WriteEffect
  <2> DEFINE read == localBalance[r].row
             t == hcmBalances[r][a]
  <2>1. /\ pc[r] = "reconciling" /\ pc'[r] = "looping"
        /\ hcmBalances' = hcmBalances /\ todo' = todo
    BY <1>6 DEF WriteRecord, BInv, TypeOK
  <2>2. /\ a \in Accounts /\ a \in DOMAIN hcmBalances[r] /\ t \in Nat
        /\ \/ /\ read = None /\ balances[a] = None
              /\ balances' = [balances EXCEPT ![a] = NewRow(t)]
              /\ counts' = counts
           \/ /\ read \in Row /\ balances[a] \in Row
              /\ balances' = [balances EXCEPT ![a] = Reconciled(@, read, t)]
              /\ counts' = counts
           \/ balances' = balances /\ CountFailed(r)
    BY <1>6, <2>0, WriteEffect
  <2>3. ~ CountFailed(r)
    BY <1>0, FailureIsCounted
  <2>4. counts[r].failed = 0
    BY <2>2, <2>3
  <2>5. Covered(r, a)'
    <3>0. balances \in [Accounts -> Row \cup {None}]
      BY DEF BInv, TypeOK
    <3> HIDE DEF read, t
    <3>1. \E n \in Row : n.hcmTotal = t /\ balances' = [balances EXCEPT ![a] = n]
      <4>1. CASE balances' = [balances EXCEPT ![a] = NewRow(t)]
        BY <2>2, <4>1, NewRowIsRow
      <4>2. CASE /\ read \in Row /\ balances[a] \in Row
                 /\ balances' = [balances EXCEPT ![a] = Reconciled(@, read, t)]
        <5>1. \A b, d \in Row : \A u \in Nat :
                Reconciled(b, d, u) \in Row /\ Reconciled(b, d, u).hcmTotal = u
          BY ReconciledFields
        <5>2. QED
          BY <2>2, <3>0, <4>2, <5>1
      <4>3. QED
        BY <2>2, <2>3, <4>1, <4>2
    <3>2. balances'[a] \in Row /\ balances'[a].hcmTotal = t
      BY <2>2, <3>0, <3>1
    <3>3. hcmBalances'[r][a] = t
      BY <2>1 DEF t
    <3>4. QED
      BY <3>2, <3>3, BatchSyncAssumption DEF Covered
  <2>6. \A b \in DOMAIN hcmBalances[r] \ todo[r] : b # a => Covered(r, b)
    BY <2>0, <2>1, <2>4 DEF PastIsCovered
  <2>7. QED
    BY <1>1, <2>1, <2>5, <2>6 DEF Active
<1>7. CASE ListLocal(r)
  <2>1. /\ pc[r] = "looping" /\ todo[r] = {} /\ pc'[r] = "marking"
        /\ hcmBalances' = hcmBalances /\ counts' = counts
    BY <1>7 DEF ListLocal, BInv, TypeOK
  <2>2. \A b \in DOMAIN hcmBalances[r] : Covered(r, b)
    BY <2>1 DEF PastIsCovered
  <2>3. QED
    BY <1>1, <2>1, <2>2 DEF Active
<1>8. CASE MarkMissing(r)
  <2> DEFINE mid == [counts EXCEPT ![r].processed = @ + 1]
  <2>1. mid \in [Runs -> [processed : Nat, failed : Nat]]
    BY ProcessedIsCounted
  <2>2. counts' = [mid EXCEPT ![r].failed = @ + 1]
    BY <1>8 DEF MarkMissing
  <2> HIDE DEF mid
  <2>3. mid[r].failed \in Nat /\ counts'[r].failed = mid[r].failed + 1
    BY <2>1, <2>2
  <2>4. QED
    BY <2>3
<1>9. QED
  BY <1>2, <1>3, <1>4, <1>5, <1>6, <1>7, <1>8, RunMoves

LEMMA InitPast == Init => PastIsCovered
BY DEF Init, PastIsCovered

(* A run is logged COMPLETED by its last step alone, with none failed.     *)
LEMMA OnlyCompleteLogs ==
  ASSUME BInv, [Next]_vars, NEW r \in Runs,
         syncLog[r] = "STARTED", syncLog'[r] = "COMPLETED"
  PROVE  pc[r] = "marking" /\ counts[r].failed = 0
<1>1. ASSUME NEW q \in Runs, NEW s, Finish(q, s)
      PROVE  q = r /\ s = "COMPLETED"
  BY <1>1 DEF Finish, BInv, TypeOK
<1>2. ASSUME NEW q \in Runs, Complete(q)
      PROVE  pc[r] = "marking" /\ counts[r].failed = 0
  <2>1. q = r /\ finalStatus(counts[q]) = "COMPLETED"
    BY <1>1, <1>2 DEF Complete
  <2>2. QED
    BY <1>2, <2>1 DEF Complete, finalStatus
<1>3. ASSUME NEW q \in Runs, Throw(q) \/ Finish(q, "FAILED")
      PROVE  FALSE
  BY <1>1, <1>3 DEF Throw
<1>4. ASSUME NEW q \in Runs,
             \/ CronFires(q) \/ DeferredRun(q) \/ SaveLog(q)
             \/ ReadRecord(q) \/ WriteRecord(q) \/ ListLocal(q) \/ MarkMissing(q)
      PROVE  FALSE
  <2>1. CASE syncLog' = Unfinished \/ syncLog' = syncLog
    BY <2>1, BatchSyncAssumption DEF Unfinished, BInv, TypeOK
  <2>2. CASE syncLog' = [syncLog EXCEPT ![q] = "STARTED"]
    BY <2>2 DEF BInv, TypeOK
  <2>3. QED
    BY <1>4, <2>1, <2>2 DEF CronFires, DeferredRun, Begin, SaveLog, ReadRecord,
       WriteRecord, ListLocal, MarkMissing
<1>5. ASSUME NEW q \in Runs, Fetch(q)
      PROVE  FALSE
  BY <1>3, <1>5 DEF Fetch
<1>6. CASE \/ triggerManualBatchSync \/ SaveBalance \/ Rollback \/ Restart
           \/ \E a \in Accounts, op \in {"create", "approve", "withdraw"} : FindBalance(a, op)
           \/ \E a \in Accounts : \E total \in Seeds[a] : SeedBalance(a, total)
           \/ UNCHANGED vars
  BY <1>6 DEF triggerManualBatchSync, FindBalance, SaveBalance, Rollback, SeedBalance,
     Restart, vars
<1>7. QED
  BY <1>2, <1>3, <1>4, <1>5, <1>6 DEF Next, RunStep

(* COMPLETED means every account HCM reported has its figure, unless a     *)
(* transaction that found the row before has saved over it.                *)
THEOREM CompletedMeansCovered == Spec => CompletedCovers
<1> DEFINE Told == \A r \in Runs :
                     syncLog[r] = "STARTED" /\ syncLog'[r] = "COMPLETED" =>
                       \A a \in DOMAIN hcmBalances[r] :
                         /\ balances[a] # None
                         /\ \/ balances[a].hcmTotal = hcmBalances[r][a]
                            \/ race[a] = "saved over"
<1>1. BInv /\ PastIsCovered /\ [Next]_vars => [Told]_vars
  BY OnlyCompleteLogs DEF PastIsCovered, Covered
<1>2. QED
  BY <1>1, InitBInv, StepKeepsBInv, InitPast, StepKeepsPast, PTL
     DEF Spec, CompletedCovers
====
