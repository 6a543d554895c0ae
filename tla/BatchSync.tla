------------------------------ MODULE BatchSync ------------------------------
(***************************************************************************)
(* HcmSyncService.runBatchSync: the nightly (or manually triggered)        *)
(* comparison of every balance row with HCM's snapshot, one await at a     *)
(* time, while the transactions of TimeOffService change the same rows.    *)
(*                                                                         *)
(* A row is reconciled by a read and, a database round trip later, an      *)
(* update computed from what was read; a local transaction finds a row,    *)
(* and later saves it as an entity, the columns it did not mean to change  *)
(* included.  Either may fall into the middle of the other: no             *)
(* transaction, lock or version check keeps them apart.                    *)
(*                                                                         *)
(* HCM's snapshot is external: any totals for any of the accounts, or no   *)
(* answer.  Of the local transactions only what they do to a balance row   *)
(* is here, one day at a time.  One is open at a time (see Connection).    *)
(***************************************************************************)
EXTENDS Reconciliation

CONSTANTS
  Accounts,       \* (employee, location, leave type) triples
  Totals,         \* by account: entitlements HCM may report
  Seeds,          \* by account: totals POST seed may give
  Runs,           \* invocations of runBatchSync that may coexist
  Scheduled,      \* those among them that the cron makes
  None,           \* no row, no log row, no transaction
  SaveMayFail,    \* whether inserting the sync log may fail
  MaxTriggers     \* bound: manual triggers waiting for the event loop

Row == [total : Nat, available : Nat, pending : Nat, used : Nat,
        hcmTotal : Nat, hasDiscrepancy : BOOLEAN]

ReadRow == [account : Accounts, row : Row \cup {None}]

Transaction == [account : Accounts, op : {"create", "approve", "withdraw"}, found : Row]

ASSUME BatchSyncAssumption ==
  /\ Totals \in [Accounts -> SUBSET Nat]
  /\ Seeds \in [Accounts -> SUBSET Nat]
  /\ Scheduled \subseteq Runs
  /\ None \notin Nat \cup Row \cup ReadRow \cup Transaction
  /\ None \notin {"STARTED", "COMPLETED", "PARTIAL", "FAILED"}
  /\ SaveMayFail \in BOOLEAN
  /\ MaxTriggers \in Nat

VARIABLES
  balances,       \* employee_balances
  _batchRunning,  \* the in-process guard
  triggers,       \* manual runs handed to setImmediate
  pc,             \* where each run is
  hcmBalances,    \* HCM's snapshot, a function from some accounts
  todo,           \* accounts of the current loop not yet done
  localBalance,   \* the row a run has read, or the account with None
  counts,         \* recordsProcessed and recordsFailed
  syncLog,        \* status of each run's log row
  transaction,    \* the local transaction in progress
  booked,         \* history: days that transactions have made pending and used
  race            \* history: how a row's two kinds of writers last met

memory == <<_batchRunning, triggers, pc, hcmBalances, todo,
            localBalance, counts>>
locals == <<transaction, booked, race>>
vars == <<balances, memory, syncLog, locals>>

Active == {"saving", "fetching", "looping", "reconciling", "marking"}

NoCounts == [processed |-> 0, failed |-> 0]

Init ==
  /\ balances = [a \in Accounts |-> None]
  /\ _batchRunning = FALSE
  /\ triggers = 0
  /\ pc = [r \in Runs |-> "idle"]
  /\ hcmBalances = [r \in Runs |-> <<>>]
  /\ todo = [r \in Runs |-> {}]
  /\ localBalance = [r \in Runs |-> None]
  /\ counts = [r \in Runs |-> NoCounts]
  /\ syncLog = [r \in Runs |-> None]
  /\ transaction = None
  /\ booked = [a \in Accounts |-> [pending |-> 0, used |-> 0]]
  /\ race = [a \in Accounts |-> "never"]

-----------------------------------------------------------------------------
(* Starting a run *)

(* The log rows of the runs in progress: nobody reads the others again.    *)
Unfinished == [r \in Runs |-> IF pc[r] \in Active THEN syncLog[r] ELSE None]

\* Mutant: the run does not look at the flag again.
Begin_Unguarded(r) ==
  /\ pc[r] = "idle"
  /\ _batchRunning' = TRUE
  /\ pc' = [pc EXCEPT ![r] = "saving"]
  /\ syncLog' = Unfinished

Begin(r) ==
  /\ pc[r] = "idle"
  /\ ~ _batchRunning
  /\ _batchRunning' = TRUE
  /\ pc' = [pc EXCEPT ![r] = "saving"]
  /\ syncLog' = Unfinished

(* The cron fires.  When the flag is set, it logs and returns.             *)
CronFires(r) ==
  /\ r \in Scheduled
  /\ Begin(r)
  /\ UNCHANGED <<balances, triggers, hcmBalances, todo,
                 localBalance, counts, locals>>

(* triggerManualBatchSync looks at the flag now and leaves the run to a    *)
(* later turn of the event loop, which looks again.                        *)
triggerManualBatchSync ==
  /\ ~ _batchRunning
  /\ triggers < MaxTriggers
  /\ triggers' = triggers + 1
  /\ UNCHANGED <<balances, _batchRunning, pc, hcmBalances, todo,
                 localBalance, counts, syncLog, locals>>

DeferredRun(r) ==
  /\ r \notin Scheduled
  /\ triggers > 0
  /\ triggers' = triggers - 1
  /\ \/ Begin(r)
     \/ /\ _batchRunning
        /\ UNCHANGED <<_batchRunning, pc, syncLog>>
  /\ UNCHANGED <<balances, hcmBalances, todo, localBalance, counts,
                 locals>>

(* The log row is inserted outside the try block.  A failure there leaves  *)
(* runBatchSync at once: the scheduler catches it for the cron; for a      *)
(* manual run nobody does, and the process dies (Restart).                 *)
SaveLog(r) ==
  /\ pc[r] = "saving"
  /\ \/ /\ pc' = [pc EXCEPT ![r] = "fetching"]
        /\ syncLog' = [syncLog EXCEPT ![r] = "STARTED"]
     \/ /\ SaveMayFail /\ r \in Scheduled
        /\ pc' = [pc EXCEPT ![r] = "idle"]
        /\ UNCHANGED syncLog
  /\ UNCHANGED <<balances, _batchRunning, triggers, hcmBalances,
                 todo, localBalance, counts, locals>>

-----------------------------------------------------------------------------
\* Mutant: the flag is cleared only once the log row is updated.
Finish_Unsafe(r, status) ==
  /\ pc' = [pc EXCEPT ![r] = "idle"]
  /\ \/ syncLog' = [syncLog EXCEPT ![r] = status] /\ _batchRunning' = FALSE
     \/ UNCHANGED <<syncLog, _batchRunning>>
  /\ hcmBalances' = [hcmBalances EXCEPT ![r] = <<>>]
  /\ todo' = [todo EXCEPT ![r] = {}]
  /\ counts' = [counts EXCEPT ![r] = NoCounts]
  /\ UNCHANGED <<balances, triggers, localBalance, locals>>

(* Ending a run: the log row is updated, or that fails as well, and the    *)
(* finally block clears the flag either way.                               *)
Finish(r, status) ==
  /\ pc' = [pc EXCEPT ![r] = "idle"]
  /\ syncLog' \in {syncLog, [syncLog EXCEPT ![r] = status]}
  /\ _batchRunning' = FALSE
  /\ hcmBalances' = [hcmBalances EXCEPT ![r] = <<>>]
  /\ todo' = [todo EXCEPT ![r] = {}]
  /\ counts' = [counts EXCEPT ![r] = NoCounts]
  /\ UNCHANGED <<balances, triggers, localBalance, locals>>

(* What HCM may report of a set of accounts. *)
Snapshots(known) ==
  {s \in [known -> UNION {Totals[a] : a \in known}] :
     \A a \in known : s[a] \in Totals[a]}

(* getBatchBalances returns a snapshot, or null: the catch block.          *)
Fetch(r) ==
  /\ pc[r] = "fetching"
  /\ \/ \E known \in SUBSET Accounts : \E snapshot \in Snapshots(known) :
          /\ hcmBalances' = [hcmBalances EXCEPT ![r] = snapshot]
          /\ todo' = [todo EXCEPT ![r] = known]
          /\ pc' = [pc EXCEPT ![r] = "looping"]
          /\ UNCHANGED <<balances, _batchRunning, triggers,
                         localBalance, counts, syncLog, locals>>
     \/ Finish(r, "FAILED")

-----------------------------------------------------------------------------
(* The loop over HCM's records *)

\* Mutant: a failing record is not counted.
CountFailed_Swallowed(r) == UNCHANGED counts

CountFailed(r) == counts' = [counts EXCEPT ![r].failed = @ + 1]

(* _reconcileRecord up to the row it reads.                                *)
ReadRecord(r) ==
  /\ pc[r] = "looping"
  /\ \E a \in todo[r] :
       /\ localBalance' = [localBalance EXCEPT ![r] = [account |-> a, row |-> balances[a]]]
       /\ todo' = [todo EXCEPT ![r] = @ \ {a}]
  /\ counts' = [counts EXCEPT ![r].processed = @ + 1]
  /\ pc' = [pc EXCEPT ![r] = "reconciling"]
  /\ UNCHANGED <<balances, _batchRunning, triggers, hcmBalances,
                 syncLog, locals>>

(* A row as it was read is reconciled for good; one that a transaction has *)
(* written in between is not.                                              *)
Met(before, current) ==
  IF ~ current THEN "written over"
  ELSE IF before = "never" THEN "never" ELSE "since reconciled"

(* The rest of _reconcileRecord: its write succeeds, or it throws and is   *)
(* counted.  An insert throws when the row has come into being meanwhile.  *)
WriteRecord(r) ==
  LET a == localBalance[r].account
      read == localBalance[r].row
      hcmTotal == hcmBalances[r][a]
  IN /\ pc[r] = "reconciling"
     /\ \/ /\ read = None
           /\ balances[a] = None
           /\ balances' = [balances EXCEPT ![a] = NewRow(hcmTotal)]
           /\ UNCHANGED <<counts, race>>
        \/ /\ read # None
           /\ balances' = [balances EXCEPT ![a] = Reconciled(@, read, hcmTotal)]
           /\ race' = [race EXCEPT ![a] = Met(@, balances[a] = read)]
           /\ UNCHANGED counts
        \/ /\ CountFailed(r)
           /\ UNCHANGED <<balances, race>>
     /\ pc' = [pc EXCEPT ![r] = "looping"]
     /\ localBalance' = [localBalance EXCEPT ![r] = None]
     /\ UNCHANGED <<_batchRunning, triggers, hcmBalances, todo,
                    syncLog, transaction, booked>>

-----------------------------------------------------------------------------
(* The loop over the local rows HCM's snapshot omits *)

ListLocal(r) ==
  /\ pc[r] = "looping" /\ todo[r] = {}
  /\ todo' = [todo EXCEPT
       ![r] = {a \in Accounts : balances[a] # None} \ DOMAIN hcmBalances[r]]
  /\ pc' = [pc EXCEPT ![r] = "marking"]
  /\ UNCHANGED <<balances, _batchRunning, triggers, hcmBalances,
                 localBalance, counts, syncLog, locals>>

(* A failing read or update is caught by the outer catch block.            *)
MarkMissing(r) ==
  /\ pc[r] = "marking"
  /\ \E a \in todo[r] :
       /\ balances' = [balances EXCEPT ![a].hasDiscrepancy = TRUE]
       /\ todo' = [todo EXCEPT ![r] = @ \ {a}]
  /\ counts' = [counts EXCEPT ![r].processed = @ + 1, ![r].failed = @ + 1]
  /\ UNCHANGED <<_batchRunning, triggers, pc, hcmBalances,
                 localBalance, syncLog, locals>>

Throw(r) ==
  /\ \/ pc[r] = "looping" /\ todo[r] = {}
     \/ pc[r] = "marking"
  /\ Finish(r, "FAILED")

finalStatus(n) ==
  IF n.failed = 0 THEN "COMPLETED"
  ELSE IF n.failed < n.processed THEN "PARTIAL" ELSE "FAILED"

Complete(r) ==
  /\ pc[r] = "marking" /\ todo[r] = {}
  /\ Finish(r, finalStatus(counts[r]))

-----------------------------------------------------------------------------
(* The transactions of TimeOffService, as a balance row sees them.         *)

CanMove(op, b) == IF op = "create" THEN CanDeduct(b, 1) ELSE CanSettle(b, 1)

Moved(op, b) ==
  CASE op = "create"   -> atomicDeduct(b, 1)
    [] op = "approve"  -> finalizeUsed(b, 1)
    [] op = "withdraw" -> releaseFromPending(b, 1)

(* findOne of atomicDeduct, finalizeUsed and releaseFromPending.  A row    *)
(* without the days is an error: nothing is saved, and it is no step.      *)
FindBalance(a, op) ==
  /\ transaction = None
  /\ balances[a] # None
  /\ CanMove(op, balances[a])
  /\ transaction' = [account |-> a, op |-> op, found |-> balances[a]]
  /\ UNCHANGED <<balances, memory, syncLog, booked, race>>

(* manager.save of the entity found: TypeORM reads the row once more and   *)
(* writes the columns that differ, which are all that a batch update has   *)
(* changed since the find, or only the moved ones if that update came      *)
(* after TypeORM's read.                                                   *)
SaveBalance ==
  LET a == transaction.account
      entity == Moved(transaction.op, transaction.found)
      movedColumns == [balances[a] EXCEPT !.available = entity.available,
                         !.pending = entity.pending, !.used = entity.used]
  IN /\ transaction # None
     /\ \E saved \in {entity, movedColumns} :
          balances' = [balances EXCEPT ![a] = saved]
     /\ booked' = [booked EXCEPT ![a] =
          [pending |-> @.pending + (IF transaction.op = "create" THEN 1 ELSE -1),
           used |-> @.used + (IF transaction.op = "approve" THEN 1 ELSE 0)]]
     /\ race' = IF balances[a] = transaction.found THEN race
                 ELSE [race EXCEPT ![a] = "saved over"]
     /\ transaction' = None
     /\ UNCHANGED <<memory, syncLog>>

(* A statement before the save fails, and the transaction is rolled back.  *)
Rollback ==
  /\ transaction # None
  /\ transaction' = None
  /\ UNCHANGED <<balances, memory, syncLog, booked, race>>

-----------------------------------------------------------------------------
(* The balance controller.                                                 *)

(* upsertBalance: an existing row is returned as it is.  Between the read   *)
(* that finds none and the insert lies a round trip, in which only a row   *)
(* may come into being, and then the unique index rejects the insert: the  *)
(* row is new if and only if there is none at the time of the insert.      *)
SeedBalance(a, total) ==
  /\ balances[a] = None
  /\ balances' = [balances EXCEPT ![a] = NewRow(total)]
  /\ UNCHANGED <<memory, syncLog, locals>>

Restart ==
  /\ _batchRunning' = FALSE
  /\ triggers' = 0
  /\ pc' = [r \in Runs |-> "idle"]
  /\ hcmBalances' = [r \in Runs |-> <<>>]
  /\ todo' = [r \in Runs |-> {}]
  /\ localBalance' = [r \in Runs |-> None]
  /\ counts' = [r \in Runs |-> NoCounts]
  /\ transaction' = None
  /\ UNCHANGED <<balances, syncLog, booked, race>>

-----------------------------------------------------------------------------
RunStep(r) ==
  \/ SaveLog(r) \/ Fetch(r) \/ ReadRecord(r) \/ WriteRecord(r)
  \/ ListLocal(r) \/ MarkMissing(r) \/ Throw(r) \/ Complete(r)

Next ==
  \/ \E r \in Runs : CronFires(r) \/ DeferredRun(r) \/ RunStep(r)
  \/ triggerManualBatchSync
  \/ \E a \in Accounts, op \in {"create", "approve", "withdraw"} : FindBalance(a, op)
  \/ SaveBalance \/ Rollback
  \/ \E a \in Accounts : \E total \in Seeds[a] : SeedBalance(a, total)
  \/ Restart

(* HCM calls and database statements come back.                            *)
Fairness == \A r \in Runs : WF_vars(RunStep(r))

Spec == Init /\ [][Next]_vars
FairSpec == Spec /\ Fairness

-----------------------------------------------------------------------------
(* Types. *)
TypeOK ==
  /\ balances \in [Accounts -> Row \cup {None}]
  /\ _batchRunning \in BOOLEAN
  /\ triggers \in 0 .. MaxTriggers
  /\ pc \in [Runs -> Active \cup {"idle"}]
  /\ DOMAIN hcmBalances = Runs
  /\ \A r \in Runs : /\ DOMAIN hcmBalances[r] \subseteq Accounts
                     /\ \A a \in DOMAIN hcmBalances[r] : hcmBalances[r][a] \in Totals[a]
  /\ todo \in [Runs -> SUBSET Accounts]
  /\ localBalance \in [Runs -> ReadRow \cup {None}]
  /\ counts \in [Runs -> [processed : Nat, failed : Nat]]
  /\ syncLog \in [Runs -> {None, "STARTED", "COMPLETED", "PARTIAL", "FAILED"}]
  /\ transaction \in Transaction \cup {None}
  /\ booked \in [Accounts -> [pending : Nat, used : Nat]]
  /\ race \in [Accounts -> {"never", "written over", "saved over", "since reconciled"}]

(* Cron, manual triggers and their deferred second look at the flag never  *)
(* put two runs to work at once.                                           *)
OneRun == \A r, q \in Runs : pc[r] \in Active /\ pc[q] \in Active => r = q

(* The invariant of every mutation, the batch's updates included, which    *)
(* README's recovery matrix calls atomic increments.                       *)
BalanceInvariant == \A a \in Accounts : balances[a] # None => Balanced(balances[a])

(* A row adds up as long as its reads and writes have not crossed: whatever *)
(* happens to other rows, and through failures, seeds and restarts.        *)
AddsUpUntilRace ==
  \A a \in Accounts :
    balances[a] # None /\ race[a] = "never" => Balanced(balances[a])

(* The batch takes no booking away and books nothing: pending and used of  *)
(* every row are the days that committed transactions have moved there,    *)
(* however reads and writes of the two cross.                              *)
BookedDaysSurvive ==
  \A a \in Accounts : balances[a] # None =>
    /\ balances[a].pending = booked[a].pending
    /\ balances[a].used = booked[a].used

(* A row that tracks more days than HCM last reported is flagged, through  *)
(* failed writes, omitted rows, later runs and restarts in their middle;   *)
(* after a crossing of reads and writes, again from the first run that     *)
(* reconciles the row as it is.                                            *)
ExcessIsFlagged ==
  \A a \in Accounts :
    /\ balances[a] # None /\ race[a] \in {"never", "since reconciled"}
    /\ Tracked(balances[a]) > balances[a].hcmTotal
    => balances[a].hasDiscrepancy

(* A run logged COMPLETED has brought every account of HCM's snapshot to   *)
(* HCM's figure: no record that failed is passed over in silence.  Only a  *)
(* transaction that found the row before may have saved over it.           *)
CompletedCovers ==
  [][\A r \in Runs :
       syncLog[r] = "STARTED" /\ syncLog'[r] = "COMPLETED" =>
         \A a \in DOMAIN hcmBalances[r] :
           /\ balances[a] # None
           /\ \/ balances[a].hcmTotal = hcmBalances[r][a]
              \/ race[a] = "saved over"]_vars

(* A run that has its log row ends and lets the next one start, whatever   *)
(* HCM and the database answer after that.                                 *)
BatchEnds ==
  (\E r \in Runs : pc[r] \in Active \ {"saving"}) ~> ~ _batchRunning
=============================================================================
