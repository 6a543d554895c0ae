----------------------------- MODULE Connection -----------------------------
(***************************************************************************)
(* The transactions of TimeOffService statement by statement.  The service *)
(* has one SQLite connection; every statement of every handler goes        *)
(* through it, _getWriteLock returns null on SQLite and no update compares *)
(* the version column, so isolation rests on one thing: a second BEGIN is  *)
(* refused while a transaction is open ("cannot start a transaction within *)
(* a transaction", which the service treats as transient).  TimeOffService *)
(* takes a transaction to be one step; here it is a step per awaited       *)
(* statement, between any two of which other handlers run.                 *)
(*                                                                         *)
(* The database is external: `file' is what has been committed, `view'     *)
(* what a statement on the connection reads and writes.  A statement made  *)
(* outside a transaction, as the idempotency checks are, sees the view of  *)
(* whatever transaction is open.  A key stands for one request body; keys  *)
(* used with two bodies, expiry and the queue of a lane are the subject of *)
(* TimeOffService, here a lane is just locked.                             *)
(***************************************************************************)
EXTENDS Balances, LeaveRequests, FiniteSets

CONSTANTS
  Sessions,  \* handlers that can run at once
  Keys,      \* idempotency keys; a request is known by its key
  Body,      \* the request body sent under each key
  Decisions, \* the status changes that are asked for
  Total,     \* what every balance row was seeded with
  None       \* no row, no owner, no request

ASSUME KeysAssumption == IsFiniteSet(Keys)
ASSUME BodyAssumption ==
  \A k \in Keys : Body[k].first \in Nat /\ Body[k].last \in Nat
ASSUME NoneAssumption ==
  None \notin Sessions \cup RequestStatus \cup Balance
ASSUME TotalAssumption == Total \in Nat
ASSUME DecisionsAssumption == Decisions \subseteq RequestStatus \ {"PENDING"}

Accounts == {AccountOf(Body[k]) : k \in Keys}

VARIABLES
  file,      \* the committed database
  view,      \* the database as the connection sees it
  owner,     \* the handler whose transaction is open, or None
  pc,        \* the statement each handler awaits next
  job,       \* what each handler was called to do
  row,       \* the EmployeeBalance entity it holds between find and save
  attempt,   \* the loop counter of _runCreateTransactionWithRetry
  failure,   \* the error its transaction is being rolled back for
  reply      \* what its last caller was answered

vars == <<file, view, owner, pc, job, row, attempt, failure, reply>>
locals == <<job, row, attempt, failure, reply>>

maxAttempts == 3

Jobs == [op : Decisions \cup {"create"}, key : Keys]

Database == [balances : [Accounts -> Balance],
             requests : [Keys -> RequestStatus \cup {None}],
             records : SUBSET Keys]

Refusals == {"OVERLAPPING_REQUEST", "INSUFFICIENT_BALANCE", "REQUEST_NOT_FOUND",
             "INVALID_STATUS_TRANSITION", "BALANCE_CONFLICT", "INTERNAL"}

InTx == {"overlap", "find", "status", "balance", "saveBalance",
         "insertRequest", "insertRecord", "commit"}
InLane == {"begin", "rollback", "recoverCheck", "recoverFind"} \cup InTx

Init ==
  /\ file = [balances |-> [a \in Accounts |-> upsertBalance(Total)],
             requests |-> [k \in Keys |-> None],
             records |-> {}]
  /\ view = file
  /\ owner = None
  /\ pc = [s \in Sessions |-> "idle"]
  /\ job = [s \in Sessions |-> None]
  /\ row = [s \in Sessions |-> None]
  /\ attempt = [s \in Sessions |-> 1]
  /\ failure = [s \in Sessions |-> "none"]
  /\ reply = [s \in Sessions |-> "none"]

-----------------------------------------------------------------------------
Goto(s, label) == pc' = [pc EXCEPT ![s] = label]

(* The handler ends: its locals are gone, its caller has the answer.  What *)
(* a call that was accepted asked for is kept for the properties.          *)
Answer(s, outcome) ==
  /\ Goto(s, "idle")
  /\ reply' = [reply EXCEPT ![s] = outcome]
  /\ job' = [job EXCEPT ![s] = IF outcome \in Refusals THEN None ELSE @]
  /\ row' = [row EXCEPT ![s] = None]
  /\ attempt' = [attempt EXCEPT ![s] = 1]
  /\ failure' = [failure EXCEPT ![s] = "none"]

(* A statement throws inside the transaction: a ROLLBACK is next.          *)
Throw(s, error) ==
  /\ Goto(s, "rollback")
  /\ failure' = [failure EXCEPT ![s] = error]
  /\ UNCHANGED <<view, job, row, attempt, reply>>

(* A statement is executed and the handler goes on to the next one.        *)
Execute(s, db, label) ==
  /\ view' = db
  /\ Goto(s, label)
  /\ UNCHANGED <<job, row, attempt, failure, reply>>

(* What becomes of a handler whose transaction has failed with an error.   *)
Handle(s, error) ==
  IF job[s].op = "create" /\ error = "transient" /\ attempt[s] < maxAttempts
    THEN /\ Goto(s, "begin")
         /\ attempt' = [attempt EXCEPT ![s] = @ + 1]
         /\ failure' = [failure EXCEPT ![s] = "none"]
         /\ row' = [row EXCEPT ![s] = None]
         /\ UNCHANGED <<job, reply>>
  ELSE IF job[s].op = "create" /\ error \in {"transient", "constraint"}
    THEN /\ Goto(s, "recoverCheck")
         /\ failure' = [failure EXCEPT ![s] = error]
         /\ UNCHANGED <<job, row, attempt, reply>>
  ELSE Answer(s, IF error \in Refusals THEN error ELSE "INTERNAL")

-----------------------------------------------------------------------------
(* A call arrives: POST /time-off/requests, or one of the status changes.  *)
Submit(s, j) ==
  /\ pc[s] = "idle"
  /\ job' = [job EXCEPT ![s] = j]
  /\ reply' = [reply EXCEPT ![s] = "none"]
  /\ Goto(s, IF j.op = "create" THEN "check" ELSE "begin")
  /\ UNCHANGED <<file, view, owner, row, attempt, failure>>

(* The idempotency check createRequest makes outside lock and transaction. *)
CheckIdempotency(s) ==
  /\ pc[s] = "check"
  /\ IF job[s].key \in view.records
       THEN Answer(s, "cached")
       ELSE Goto(s, "locked") /\ UNCHANGED locals
  /\ UNCHANGED <<file, view, owner>>

(* The check repeated once the lane's lock is held.                        *)
LockedCheck(s) ==
  /\ pc[s] = "locked"
  /\ \A t \in Sessions \ {s} :
       pc[t] \in InLane /\ job[t].op = "create" =>
         Body[job[t].key].lane # Body[job[s].key].lane
  /\ IF job[s].key \in view.records
       THEN Answer(s, "cached")
       ELSE Goto(s, "begin") /\ UNCHANGED locals
  /\ UNCHANGED <<file, view, owner>>

\* Mutant: BEGIN succeeds whatever is open.
Begin_Nested(s) ==
  /\ pc[s] = "begin"
  /\ owner' = s
  /\ Goto(s, IF job[s].op = "create" THEN "overlap" ELSE "find")
  /\ UNCHANGED <<file, view, locals>>

(* BEGIN, refused while the connection has a transaction open.             *)
Begin(s) ==
  /\ pc[s] = "begin"
  /\ IF owner = None
       THEN /\ owner' = s
            /\ Goto(s, IF job[s].op = "create" THEN "overlap" ELSE "find")
            /\ UNCHANGED locals
       ELSE /\ Handle(s, "transient")
            /\ UNCHANGED owner
  /\ UNCHANGED <<file, view>>

(* _lockEmployeeBalances (which locks nothing here) and _assertNoOverlap.  *)
AssertNoOverlap(s) ==
  /\ pc[s] = "overlap"
  /\ IF \E k \in Keys : /\ view.requests[k] \in ActiveStatus
                        /\ Body[k].lane = Body[job[s].key].lane
                        /\ datesOverlap(Body[job[s].key], Body[k])
       THEN Throw(s, "OVERLAPPING_REQUEST")
       ELSE Execute(s, view, "balance")
  /\ UNCHANGED <<file, owner>>

(* _getRequestLockedOrThrow and _assertValidTransition.                    *)
FindRequest(s) ==
  /\ pc[s] = "find"
  /\ LET status == view.requests[job[s].key]
     IN \/ status = None /\ Throw(s, "REQUEST_NOT_FOUND")
        \/ /\ status # None
           /\ job[s].op \notin VALID_TRANSITIONS[status]
           /\ Throw(s, "INVALID_STATUS_TRANSITION")
        \/ /\ status # None
           /\ job[s].op \in VALID_TRANSITIONS[status]
           /\ Execute(s, view, "status")
  /\ UNCHANGED <<file, owner>>

SaveStatus(s) ==
  /\ pc[s] = "status"
  /\ Execute(s, [view EXCEPT !.requests[job[s].key] = job[s].op], "balance")
  /\ UNCHANGED <<file, owner>>

(* The find of atomicDeduct, finalizeUsed and releaseFromPending, and the  *)
(* check each makes; the entity is changed in memory.                      *)
FindBalance(s) ==
  LET body == Body[job[s].key]
      days == calculateDaysRequested(body)
      found == view.balances[AccountOf(body)]
      hold(b) == /\ row' = [row EXCEPT ![s] = b]
                 /\ Goto(s, "saveBalance")
                 /\ UNCHANGED <<view, job, attempt, failure, reply>>
  IN /\ pc[s] = "balance"
     /\ \/ /\ job[s].op = "create"
           /\ IF CanDeduct(found, days) THEN hold(atomicDeduct(found, days))
                                        ELSE Throw(s, "INSUFFICIENT_BALANCE")
        \/ /\ job[s].op \in Decisions
           /\ IF ~ CanSettle(found, days) THEN Throw(s, "BALANCE_CONFLICT")
              ELSE hold(IF job[s].op = "APPROVED"
                          THEN finalizeUsed(found, days)
                          ELSE releaseFromPending(found, days))
     /\ UNCHANGED <<file, owner>>

(* The save writes the entity's counters, whatever the row says by now.    *)
SaveBalance(s) ==
  /\ pc[s] = "saveBalance"
  /\ Execute(s, [view EXCEPT !.balances[AccountOf(Body[job[s].key])] = row[s]],
             IF job[s].op = "create" THEN "insertRequest" ELSE "commit")
  /\ UNCHANGED <<file, owner>>

InsertRequest(s) ==
  /\ pc[s] = "insertRequest"
  /\ IF view.requests[job[s].key] # None
       THEN Throw(s, "constraint")
       ELSE Execute(s, [view EXCEPT !.requests[job[s].key] = "PENDING"], "insertRecord")
  /\ UNCHANGED <<file, owner>>

InsertRecord(s) ==
  /\ pc[s] = "insertRecord"
  /\ IF job[s].key \in view.records
       THEN Throw(s, "constraint")
       ELSE Execute(s, [view EXCEPT !.records = @ \cup {job[s].key}], "commit")
  /\ UNCHANGED <<file, owner>>

Commit(s) ==
  /\ pc[s] = "commit"
  /\ file' = view
  /\ owner' = None
  /\ Answer(s, "done")
  /\ UNCHANGED view

(* SQLITE_BUSY or its kin from any statement, COMMIT included.             *)
Fault(s) ==
  /\ pc[s] \in InTx
  /\ Throw(s, "transient")
  /\ UNCHANGED <<file, owner>>

\* Mutant: the error leaves the handler and no ROLLBACK is sent.
Rollback_Forgotten(s) ==
  /\ pc[s] = "rollback"
  /\ Handle(s, failure[s])
  /\ UNCHANGED <<file, view, owner>>

\* Mutant: what the failed transaction wrote stays on the connection.
Rollback_Kept(s) ==
  /\ pc[s] = "rollback"
  /\ owner' = None
  /\ Handle(s, failure[s])
  /\ UNCHANGED <<file, view>>

Rollback(s) ==
  /\ pc[s] = "rollback"
  /\ view' = file
  /\ owner' = None
  /\ Handle(s, failure[s])
  /\ UNCHANGED file

(* _recoverAfterConstraint: the record first, then the request.            *)
RecoverCheck(s) ==
  /\ pc[s] = "recoverCheck"
  /\ IF job[s].key \in view.records
       THEN Answer(s, "cached")
       ELSE Goto(s, "recoverFind") /\ UNCHANGED locals
  /\ UNCHANGED <<file, view, owner>>

RecoverFind(s) ==
  /\ pc[s] = "recoverFind"
  /\ Answer(s, IF view.requests[job[s].key] # None THEN "recovered"
               ELSE IF failure[s] = "transient" THEN "BALANCE_CONFLICT"
               ELSE "INTERNAL")
  /\ UNCHANGED <<file, view, owner>>

(* The process dies and restarts: an open transaction was never made, and  *)
(* calls in progress are not answered.                                     *)
Restart ==
  /\ view' = file
  /\ owner' = None
  /\ pc' = [s \in Sessions |-> "idle"]
  /\ job' = [s \in Sessions |-> IF pc[s] = "idle" THEN job[s] ELSE None]
  /\ row' = [s \in Sessions |-> None]
  /\ attempt' = [s \in Sessions |-> 1]
  /\ failure' = [s \in Sessions |-> "none"]
  /\ UNCHANGED <<file, reply>>

Step(s) ==
  \/ CheckIdempotency(s) \/ LockedCheck(s)
  \/ Begin(s) \/ AssertNoOverlap(s) \/ FindRequest(s) \/ SaveStatus(s)
  \/ FindBalance(s) \/ SaveBalance(s) \/ InsertRequest(s) \/ InsertRecord(s)
  \/ Commit(s) \/ Fault(s) \/ Rollback(s)
  \/ RecoverCheck(s) \/ RecoverFind(s)

Next ==
  \/ \E s \in Sessions : (\E j \in Jobs : Submit(s, j)) \/ Step(s)
  \/ Restart

(* Every awaited statement is answered by the driver, in time.             *)
Fairness == \A s \in Sessions : WF_vars(Step(s))

Spec == Init /\ [][Next]_vars
FairSpec == Spec /\ Fairness

-----------------------------------------------------------------------------
(* Types of the two databases and of every handler's locals.               *)
TypeOK ==
  /\ file \in Database /\ view \in Database
  /\ owner \in Sessions \cup {None}
  /\ pc \in [Sessions -> InLane \cup {"idle", "check", "locked"}]
  /\ job \in [Sessions -> Jobs \cup {None}]
  /\ row \in [Sessions -> Balance \cup {None}]
  /\ attempt \in [Sessions -> 1 .. maxAttempts]
  /\ failure \in [Sessions -> Refusals \cup {"none", "transient", "constraint"}]
  /\ reply \in [Sessions -> Refusals \cup {"none", "done", "cached", "recovered"}]

DaysUnder(statusOf, a, statuses) ==
  SumFunction([k \in Keys |->
    IF statusOf[k] \in statuses /\ AccountOf(Body[k]) = a
      THEN calculateDaysRequested(Body[k]) ELSE 0])

(* No two active requests of a table share a lane and a day.               *)
NoneOverlap(statusOf) ==
  \A k, q \in Keys :
    /\ k # q /\ Body[k].lane = Body[q].lane
    /\ statusOf[k] \in ActiveStatus /\ statusOf[q] \in ActiveStatus
    => ~ datesOverlap(Body[k], Body[q])

(* Whatever statements of two handlers interleave, fail or are cut short,  *)
(* the three tables of the file agree: every balance counts its requests,  *)
(* no two of these overlap, although the check and the insert of another   *)
(* may come between, and each is there just when its record is.            *)
TablesAgree ==
  /\ \A a \in Accounts :
       /\ file.balances[a].pending = DaysUnder(file.requests, a, {"PENDING"})
       /\ file.balances[a].used = DaysUnder(file.requests, a, {"APPROVED"})
       /\ Balanced(file.balances[a])
  /\ NoneOverlap(file.requests)
  /\ \A k \in Keys : file.requests[k] # None <=> k \in file.records

(* A caller told that its transaction went through is told the truth, for  *)
(* ever: the request it created is in the file, the one it settled is in   *)
(* the status it gave it, so of two settlements one at most succeeds.      *)
DoneIsDurable ==
  \A s \in Sessions : reply[s] = "done" =>
    LET status == file.requests[job[s].key]
    IN IF job[s].op = "create" THEN status # None ELSE status = job[s].op

(* The connection is always given back: every transaction is committed or  *)
(* rolled back on every path, or nobody could begin another one.           *)
TransactionsClose == \A s \in Sessions : owner = s ~> owner # s

(* "If the transaction rolls back, this record is also rolled back --      *)
(* meaning a failed request does NOT leave behind a phantom idempotency    *)
(* entry" (IdempotencyRecord): when everything is over, a caller answered  *)
(* from a record has a request.                                            *)
CachedIsStored ==
  (\A s \in Sessions : pc[s] = "idle") =>
    \A s \in Sessions :
      reply[s] \in {"cached", "recovered"} => file.requests[job[s].key] # None
=============================================================================
