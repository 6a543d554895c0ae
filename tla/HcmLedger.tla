------------------------------ MODULE HcmLedger ------------------------------
(***************************************************************************)
(* Two ledgers of one entitlement: the balance row of the service and the  *)
(* record of HCM (mock-hcm), with everything that passes between them.     *)
(* Approved days reach HCM as debits, grants made in HCM reach the service *)
(* through the batch's snapshot.                                           *)
(*                                                                         *)
(* The service changes the row in two ways: in transactions, which find    *)
(* it, save it and may still be rolled back, and by the batch, which reads *)
(* it and later updates it.  Nothing keeps the two apart, and since SQLite *)
(* has one connection, a rollback takes back whatever else was written     *)
(* while the transaction was open (see Connection).  A debit is scheduled  *)
(* before its approval commits.                                            *)
(*                                                                         *)
(* HcmSync has the chains of HCM calls in detail.  What matters of them    *)
(* here is the PUT that debits HCM, so of a chain that may send one only   *)
(* that is left: the validation before it, a refusal or giving up can but  *)
(* prevent it, and what becomes of its answer decides no more than whether *)
(* the worker sends another.  Here it may, for any approved request.       *)
(* Accounts are independent of each other on both sides, so there is one.  *)
(***************************************************************************)
EXTENDS Reconciliation, FiniteSets, Functions

CONSTANTS
  Requests,     \* leave requests against the account
  Days,         \* days each of them asks for
  Total,        \* what HCM has granted at the start
  Seeds,        \* totals that POST seed may have given the row
  None,         \* no snapshot, no row read, no transaction
  Grants,       \* days an anniversary refresh may add
  TxMayFail,    \* whether transactions fail, or are cut off by a restart
  MaxEntitled,  \* bound: what HCM may grant altogether
  MaxDebits     \* bound: debits HCM applies for one request

Row == [total : Nat, available : Nat, pending : Nat, used : Nat,
        hcmTotal : Nat, hasDiscrepancy : BOOLEAN]

Transaction ==
  [id : Requests, op : {"create", "approve", "withdraw"}, stage : {"found", "saved"},
   found : Row, seen : Nat, settled : BOOLEAN]

ASSUME RequestsAssumption == IsFiniteSet(Requests)
ASSUME HcmLedgerAssumption ==
  /\ Days \in [Requests -> Nat \ {0}]
  /\ Total \in Nat /\ MaxEntitled \in Nat
  /\ Seeds \subseteq Nat /\ Grants \subseteq Nat
  /\ None \notin [total : Nat, entitled : Nat] \cup Row \cup Transaction
  /\ TxMayFail \in BOOLEAN
  /\ MaxDebits \in Nat

VARIABLES
  balance,    \* the account's row in employee_balances
  status,     \* of each request; "none" before it is created
  calls,      \* requests with HCM call chains in flight that may send a PUT
  record,     \* HCM's totalBalance and availableBalance
  debits,     \* how often HCM has debited each request
  snapshot,   \* what the batch in progress has fetched
  read,       \* the row it has read
  tx,         \* the transaction in progress, and what it found
  entitled,   \* history: all HCM has ever granted
  seen,       \* history: the part of it granted before the last snapshot applied
  settled,    \* history: no write has used a stale row since a batch last got it right
  unearned    \* history: days the row may track that HCM has not granted

row == <<balance, status, snapshot, read, tx, seen, settled, unearned>>
vars == <<row, calls, record, debits, entitled>>

Larger(m, n) == IF m < n THEN n ELSE m

Init ==
  /\ \E seed \in Seeds :
       /\ balance = NewRow(seed)
       /\ unearned = Larger(0, seed - Total)
  /\ status = [i \in Requests |-> "none"]
  /\ calls = {}
  /\ record = [totalBalance |-> Total, availableBalance |-> Total]
  /\ debits = [i \in Requests |-> 0]
  /\ snapshot = None /\ read = None /\ tx = None
  /\ entitled = Total
  /\ seen = 0 /\ settled = TRUE

-----------------------------------------------------------------------------
(* The service's own transactions, with the HCM calls they schedule.       *)

StatusBefore(op) == IF op = "create" THEN "none" ELSE "PENDING"

StatusAfter(op) ==
  CASE op = "create"   -> "PENDING"
    [] op = "approve"  -> "APPROVED"
    [] op = "withdraw" -> "WITHDRAWN"

CanMove(op, b, days) ==
  IF op = "create" THEN CanDeduct(b, days) ELSE CanSettle(b, days)

Moved(op, b, days) ==
  CASE op = "create"   -> atomicDeduct(b, days)
    [] op = "approve"  -> finalizeUsed(b, days)
    [] op = "withdraw" -> releaseFromPending(b, days)

(* BEGIN, and the reads of createRequest, approveRequest, or rejectRequest *)
(* and cancelRequest.  A request they refuse changes nothing.              *)
FindBalance(i, op) ==
  /\ tx = None
  /\ status[i] = StatusBefore(op)
  /\ CanMove(op, balance, Days[i])
  /\ tx' = [id |-> i, op |-> op, stage |-> "found", found |-> balance,
            seen |-> seen, settled |-> settled]
  /\ UNCHANGED <<balance, status, snapshot, read, seen, settled, unearned,
                 calls, record, debits, entitled>>

(* The saves of both entities.  TypeORM writes each column that differs    *)
(* from the row as it reads it once more: all that others have changed     *)
(* since the find, or, if they came after that read, the changed ones.     *)
(* The debit of an approval is handed to setImmediate here.                *)
SaveBalance ==
  LET i == tx.id
      entity == Moved(tx.op, tx.found, Days[i])
      movedColumns == [balance EXCEPT !.available = entity.available,
                         !.pending = entity.pending, !.used = entity.used]
  IN /\ tx # None /\ tx.stage = "found"
     /\ balance' \in {entity, movedColumns}
     /\ status' = [status EXCEPT ![i] = StatusAfter(tx.op)]
     /\ calls' = IF tx.op = "approve"
                   THEN calls \cup {i}
                   ELSE calls
     /\ settled' = (settled /\ balance = tx.found)
     /\ tx' = [tx EXCEPT !.stage = "saved"]
     /\ UNCHANGED <<snapshot, read, seen, unearned, record, debits, entitled>>

Commit ==
  /\ tx # None /\ tx.stage = "saved"
  /\ tx' = None
  /\ UNCHANGED <<balance, status, snapshot, read, seen, settled, unearned,
                 calls, record, debits, entitled>>

(* The database is as it was at BEGIN, the batch's and the callbacks'      *)
(* writes since then included; what has been scheduled stays so.           *)
Undo ==
  /\ balance' = tx.found
  /\ status' = [status EXCEPT ![tx.id] = StatusBefore(tx.op)]
  /\ seen' = tx.seen /\ settled' = tx.settled
  /\ tx' = None
  /\ UNCHANGED <<unearned, record, debits, entitled>>

(* A later statement, or COMMIT itself, fails.                             *)
Rollback ==
  /\ TxMayFail
  /\ tx # None
  /\ Undo
  /\ UNCHANGED <<snapshot, read, calls>>

(* The worker takes up an approved request.                                *)
RetryApproval(i) ==
  /\ status[i] = "APPROVED"
  /\ calls' = calls \cup {i}
  /\ UNCHANGED <<row, record, debits, entitled>>

-----------------------------------------------------------------------------
(* HCM.                                                                    *)

(* PUT /hcm/balance with action APPROVE.                                   *)
Debit(i) ==
  /\ record.availableBalance >= Days[i]
  /\ debits[i] < MaxDebits
  /\ record' = [totalBalance |-> record.totalBalance - Days[i],
                availableBalance |-> record.availableBalance - Days[i]]
  /\ debits' = [debits EXCEPT ![i] = @ + 1]

(* A PUT is applied, or it is refused, never sent, or lost; the approval's *)
(* own chain and the worker's may both be in flight.                       *)
Put(i) ==
  /\ i \in calls
  /\ calls' \in {calls, calls \ {i}}
  /\ Debit(i) \/ UNCHANGED <<record, debits>>
  /\ UNCHANGED <<row, entitled>>

(* POST /admin/anniversary-refresh.                                        *)
AnniversaryRefresh(days) ==
  /\ entitled + days <= MaxEntitled
  /\ record' = [totalBalance |-> record.totalBalance + days,
                availableBalance |-> record.availableBalance + days]
  /\ entitled' = entitled + days
  /\ UNCHANGED <<row, calls, debits>>

-----------------------------------------------------------------------------
(* The batch: GET /hcm/batch-sync, and later this account's turn.          *)

FetchSnapshot ==
  /\ snapshot = None
  /\ snapshot' = [total |-> record.totalBalance, entitled |-> entitled]
  /\ UNCHANGED <<balance, status, read, tx, seen, settled, unearned,
                 calls, record, debits, entitled>>

ReadRecord ==
  /\ snapshot # None /\ read = None
  /\ read' = balance
  /\ UNCHANGED <<balance, status, snapshot, tx, seen, settled, unearned,
                 calls, record, debits, entitled>>

(* Days that have become pending or used since the row was read.           *)
BookedSince(b, before) == (b.pending + b.used) - (before.pending + before.used)

(* The update succeeds or throws.  An accrual computed from a stale row    *)
(* gives the days booked since then back as available.                     *)
WriteRecord ==
  /\ read # None
  /\ \/ /\ balance' = Reconciled(balance, read, snapshot.total)
        /\ seen' = snapshot.entitled
        /\ settled' = (balance = read)
        /\ unearned' = Larger(unearned, BookedSince(balance, read))
     \/ UNCHANGED <<balance, seen, settled, unearned>>
  /\ snapshot' = None /\ read' = None
  /\ UNCHANGED <<status, tx, calls, record, debits, entitled>>

(* The service dies; SQLite drops what was not committed, and HCM does not *)
(* notice.                                                                 *)
Restart ==
  /\ calls' = {} /\ snapshot' = None /\ read' = None
  /\ \/ /\ tx = None
        /\ UNCHANGED <<balance, status, tx, seen, settled, unearned, record,
                       debits, entitled>>
     \/ TxMayFail /\ tx # None /\ Undo

-----------------------------------------------------------------------------
Next ==
  \/ \E i \in Requests, op \in {"create", "approve", "withdraw"} : FindBalance(i, op)
  \/ SaveBalance \/ Commit \/ Rollback
  \/ \E i \in Requests : RetryApproval(i) \/ Put(i)
  \/ \E days \in Grants : AnniversaryRefresh(days)
  \/ FetchSnapshot \/ ReadRecord \/ WriteRecord
  \/ Restart

Spec == Init /\ [][Next]_vars

-----------------------------------------------------------------------------
(* Types; in particular neither ledger ever goes below zero. *)
TypeOK ==
  /\ balance \in Row
  /\ status \in [Requests -> {"none", "PENDING", "APPROVED", "WITHDRAWN"}]
  /\ calls \subseteq Requests
  /\ record \in [totalBalance : Nat, availableBalance : Nat]
  /\ debits \in [Requests -> 0 .. MaxDebits]
  /\ snapshot \in [total : Nat, entitled : Nat] \cup {None}
  /\ read \in Row \cup {None}
  /\ tx \in Transaction \cup {None}
  /\ entitled \in Nat /\ seen \in Nat /\ unearned \in Nat
  /\ settled \in BOOLEAN

(* The days that a set of requests asks for altogether. *)
DaysOver(S) == SumFunction([i \in Requests |-> IF i \in S THEN Days[i] ELSE 0])

(* Debits that no approval stands for: of a request that is not approved,  *)
(* or once more than once.                                                 *)
Spurious(i) == debits[i] - (IF status[i] = "APPROVED" /\ debits[i] > 0 THEN 1 ELSE 0)

Misdebited == SumFunction([i \in Requests |-> Spurious(i) * Days[i]])

(* What the service has approved and HCM has not yet been told of, HCM can *)
(* still pay, short only of what it was debited without an approval (twice *)
(* for one, or for one rolled back) and of the days that a seed or a batch *)
(* that crossed a booking gave out beyond HCM's grants.  No accrual, stale *)
(* save, old snapshot, withdrawal or rollback widens the gap further.      *)
ApprovalsAreCovered ==
  DaysOver({i \in Requests : status[i] = "APPROVED" /\ debits[i] = 0})
    <= record.availableBalance + Misdebited + unearned

(* Until HCM has debited an approval, the batch does what README says of   *)
(* drift: the row tracks all that had been granted when the last snapshot  *)
(* was taken, and is flagged only when it tracks more.  A batch whose read *)
(* was stale, or a stale save, may undo that until the next batch.         *)
AccrualsArriveFirst ==
  (\A i \in Requests : debits[i] = 0) /\ settled =>
    /\ balance.used + balance.pending + balance.available >= seen
    /\ balance.hasDiscrepancy =>
         balance.used + balance.pending + balance.available > seen

(* README's recovery matrix and hcm-sync.service.js: a grant made in HCM   *)
(* is positive drift, and the batch adds it to available and total.        *)
AccrualsArrive == tx = None /\ settled => balance.total >= seen
=============================================================================
