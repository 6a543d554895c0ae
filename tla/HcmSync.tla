------------------------------- MODULE HcmSync -------------------------------
(***************************************************************************)
(* How a request's outcome reaches the upstream HCM: the callback          *)
(* createRequest schedules, the one approveRequest schedules, and the      *)
(* retry worker, all of which call HCM and then overwrite the same three   *)
(* columns of the request from what they read before the call.             *)
(*                                                                         *)
(* A job is one such call chain in flight.  It carries the snapshot of the *)
(* row its handler holds (the entity object in memory).  HCM is external:  *)
(* it may answer a validation either way or not at all, and it debits once *)
(* per PUT that reaches it, answered or not.  The answer of an HCM call    *)
(* and the update that follows it are one step: nothing in the process can *)
(* tell an early answer from a late one.                                   *)
(***************************************************************************)
EXTENDS Integers, FiniteSets

CONSTANTS
  Ids,              \* requests
  Workers,          \* overlapping firings of the retry cron
  MaxRetries,       \* MAX_PENDING_SYNC_RETRIES
  Take,             \* how many rows a firing selects
  Answers,          \* what a validation may come back with
  AnswersGetLost,   \* whether HCM may apply a PUT and the caller time out
  MaxFaults         \* bound: approval COMMITs refused, and process restarts

ASSUME HcmSyncAssumption ==
  /\ MaxRetries \in Nat \ {0} /\ Take \in Nat \ {0}
  /\ Answers \subseteq {"valid", "invalid", "null"}
  /\ AnswersGetLost \in BOOLEAN
  /\ MaxFaults \in Nat

VARIABLES
  status,     \* request status; "none" before the create commits
  sync,       \* hcmSyncStatus, hcmValidated, hcmSyncAttempts of each row
  approving,  \* requests whose approval transaction is open
  jobs,       \* HCM call chains in flight
  todo,       \* rows each worker firing still has to process
  debited,    \* requests HCM has debited at least once (HcmLedger counts)
  cleared,    \* requests HCM has at some time answered valid for
  lost,       \* requests an approval of which was rolled back
  faults      \* refused commits and restarts so far

vars == <<status, sync, approving, jobs, todo, debited, cleared, lost, faults>>

(* The worker stops at the limit.  An approval's callback adds one attempt *)
(* without looking at it, and so does each callback of an approval that    *)
(* did not last and is made again.                                         *)
Limit == MaxRetries + 1 + MaxFaults

Snapshot == [id : Ids, status : {"PENDING", "APPROVED", "REJECTED", "CANCELLED"},
             hcmValidated : BOOLEAN, hcmSyncAttempts : 0 .. Limit]

(* kind: whose chain it is; owner tells chains of one kind apart.          *)
Job == [kind : {"create", "approval", "retry"}, owner : Workers \cup 0 .. MaxFaults,
        row : Snapshot, stage : {"validate", "put"}]

Read(i) == [id |-> i, status |-> status[i], hcmValidated |-> sync[i].hcmValidated,
            hcmSyncAttempts |-> sync[i].hcmSyncAttempts]

\* Mutant: the first call is the debit.
FirstStage_Put(row) == "put"

(* A chain whose row HCM has validated goes straight to the debit. *)
FirstStage(row) == IF row.hcmValidated THEN "put" ELSE "validate"

\* Mutant: the retry limit is not looked at.
Exhausted_Never(row) == FALSE

Exhausted(row) == row.hcmSyncAttempts >= MaxRetries

\* Mutant: everything not approved is skipped.
Withdrawn_NotApproved(row) == row.status # "APPROVED"

Withdrawn(row) == row.status \in {"REJECTED", "CANCELLED"}

\* Mutant: the worker's retry of a pending request goes on to the debit.
Debits_Always(j) == j.kind # "create"

(* Chains that go on to the debit once HCM has validated. *)
Debits(j) == j.kind # "create" /\ j.row.status = "APPROVED"

Init ==
  /\ status = [i \in Ids |-> "none"]
  /\ sync = [i \in Ids |-> [hcmSyncStatus |-> "PENDING", hcmValidated |-> FALSE,
                            hcmSyncAttempts |-> 0]]
  /\ approving = {}
  /\ jobs = {}
  /\ todo = [w \in Workers |-> {}]
  /\ debited = {}
  /\ cleared = {}
  /\ lost = {}
  /\ faults = 0

-----------------------------------------------------------------------------
(* Request lifecycle, as far as it starts or ends HCM work.                *)

(* createRequest commits and schedules _notifyHcmAsync.                    *)
createRequest(i) ==
  /\ status[i] = "none"
  /\ status' = [status EXCEPT ![i] = "PENDING"]
  /\ jobs' = jobs \cup
       {[kind |-> "create", owner |-> 0, stage |-> "validate",
         row |-> [id |-> i, status |-> "PENDING", hcmValidated |-> FALSE,
                  hcmSyncAttempts |-> 0]]}
  /\ UNCHANGED <<sync, approving, todo, debited, cleared, lost, faults>>

(* The body of the approval transaction; its setImmediate comes before the *)
(* transaction manager gets to issue COMMIT.                               *)
approveRequest(i) ==
  /\ status[i] = "PENDING"
  /\ i \notin approving
  /\ approving' = approving \cup {i}
  /\ jobs' = jobs \cup
       {[kind |-> "approval", owner |-> faults,
         stage |-> FirstStage(Read(i)),
         row |-> [Read(i) EXCEPT !.status = "APPROVED"]]}
  /\ UNCHANGED <<status, sync, todo, debited, cleared, lost, faults>>

ApproveCommit(i) ==
  /\ i \in approving
  /\ approving' = approving \ {i}
  /\ status' = [status EXCEPT ![i] = "APPROVED"]
  /\ UNCHANGED <<sync, jobs, todo, debited, cleared, lost, faults>>

ApproveAbort(i) ==
  /\ i \in approving
  /\ faults < MaxFaults
  /\ faults' = faults + 1
  /\ approving' = approving \ {i}
  /\ lost' = lost \cup {i}
  /\ UNCHANGED <<status, sync, jobs, todo, debited, cleared>>

(* rejectRequest and cancelRequest do not speak to HCM.                    *)
Withdraw(i, s) ==
  /\ status[i] = "PENDING"
  /\ i \notin approving
  /\ s \in {"REJECTED", "CANCELLED"}
  /\ status' = [status EXCEPT ![i] = s]
  /\ UNCHANGED <<sync, approving, jobs, todo, debited, cleared, lost, faults>>

-----------------------------------------------------------------------------
(* Ends of a job: requestRepository.update over whatever the row now says. *)

\* Mutant: the attempt is not counted.
Attempts_Same(j) == j.row.hcmSyncAttempts

(* The attempts a chain writes: the create callback writes 1, every other  *)
(* one its snapshot's count plus one.                                      *)
Attempts(j) == IF j.kind = "create" THEN 1 ELSE j.row.hcmSyncAttempts + 1

Write(j, syncStatus, validated) ==
  /\ sync' = [sync EXCEPT ![j.row.id] =
       [hcmSyncStatus |-> syncStatus, hcmValidated |-> validated,
        hcmSyncAttempts |-> Attempts(j)]]
  /\ jobs' = jobs \ {j}

(* validateRequest returns: null when every try failed.                    *)
ValidateAnswer(j, answer) ==
  LET i == j.row.id
  IN /\ j \in jobs /\ j.stage = "validate"
     /\ cleared' = IF answer = "valid" THEN cleared \cup {i} ELSE cleared
     /\ \/ /\ answer = "null"
           /\ Write(j, "PENDING", sync[i].hcmValidated)
        \/ /\ answer = "invalid"
           /\ Write(j, "FAILED", FALSE)
        \/ /\ answer = "valid"
           /\ ~ Debits(j)
           /\ Write(j, "SUCCESS", TRUE)
        \/ /\ answer = "valid"
           /\ Debits(j)
           /\ jobs' = (jobs \ {j}) \cup {[j EXCEPT !.stage = "put"]}
           /\ UNCHANGED sync
     /\ UNCHANGED <<status, approving, todo, debited, lost, faults>>

(* notifyApproval returns, after up to three tries, one of which at least  *)
(* has reached HCM's ledger when applied.                                  *)
PutAnswer(j, applied, acknowledged) ==
  LET i == j.row.id
  IN /\ j \in jobs /\ j.stage = "put"
     /\ acknowledged => applied
     /\ applied /\ ~ acknowledged => AnswersGetLost
     /\ debited' = IF applied THEN debited \cup {i} ELSE debited
     /\ Write(j, IF acknowledged THEN "SUCCESS" ELSE "PENDING", TRUE)
     /\ UNCHANGED <<status, approving, todo, cleared, lost, faults>>

-----------------------------------------------------------------------------
(* retryPendingHcmSyncs *)

Busy(w) == \E j \in jobs : j.kind = "retry" /\ j.owner = w

(* The cron fires and selects the PENDING rows with the fewest attempts.   *)
WorkerStart(w) ==
  LET pending == {i \in Ids : status[i] # "none" /\ sync[i].hcmSyncStatus = "PENDING"}
  IN /\ todo[w] = {} /\ ~ Busy(w)
     /\ \E S \in SUBSET pending :
          /\ Cardinality(S) = IF Cardinality(pending) <= Take
                                THEN Cardinality(pending) ELSE Take
          /\ \A i \in S, k \in pending \ S :
               sync[i].hcmSyncAttempts <= sync[k].hcmSyncAttempts
          /\ todo' = [todo EXCEPT ![w] = {Read(i) : i \in S}]
     /\ UNCHANGED <<status, sync, approving, jobs, debited, cleared, lost, faults>>

(* One turn of the loop over the selected rows, in their order.            *)
WorkerTurn(w) ==
  \E row \in todo[w] :
    LET i == row.id
        job == [kind |-> "retry", owner |-> w, row |-> row,
                stage |-> FirstStage(row)]
    IN /\ ~ Busy(w)
       /\ \A other \in todo[w] : row.hcmSyncAttempts <= other.hcmSyncAttempts
       /\ todo' = [todo EXCEPT ![w] = @ \ {row}]
       /\ \/ /\ Exhausted(row)
             /\ sync' = [sync EXCEPT ![i].hcmSyncStatus = "FAILED"]
             /\ UNCHANGED jobs
          \/ /\ ~ Exhausted(row) /\ Withdrawn(row)
             /\ sync' = [sync EXCEPT ![i].hcmSyncStatus = "SKIPPED",
                                     ![i].hcmSyncAttempts = row.hcmSyncAttempts + 1]
             /\ UNCHANGED jobs
          \/ /\ ~ Exhausted(row) /\ ~ Withdrawn(row)
             /\ row.status = "PENDING" /\ row.hcmValidated
             /\ sync' = [sync EXCEPT ![i] =
                  [hcmSyncStatus |-> "SUCCESS", hcmValidated |-> TRUE,
                   hcmSyncAttempts |-> row.hcmSyncAttempts + 1]]
             /\ UNCHANGED jobs
          \/ /\ ~ Exhausted(row) /\ ~ Withdrawn(row)
             /\ row.status = "APPROVED" \/ ~ row.hcmValidated
             /\ jobs' = jobs \cup {job}
             /\ UNCHANGED sync
       /\ UNCHANGED <<status, approving, debited, cleared, lost, faults>>

(* The process dies: memory goes, open transactions roll back.             *)
Restart ==
  /\ faults < MaxFaults
  /\ faults' = faults + 1
  /\ jobs' = {}
  /\ todo' = [w \in Workers |-> {}]
  /\ approving' = {}
  /\ lost' = lost \cup approving
  /\ UNCHANGED <<status, sync, debited, cleared>>

-----------------------------------------------------------------------------
JobStep(j) ==
  \/ \E answer \in Answers : ValidateAnswer(j, answer)
  \/ \E applied, acknowledged \in BOOLEAN :
       PutAnswer(j, applied, acknowledged)

Next ==
  \/ \E i \in Ids : \/ createRequest(i) \/ approveRequest(i)
                    \/ ApproveCommit(i) \/ ApproveAbort(i)
                    \/ \E s \in {"REJECTED", "CANCELLED"} : Withdraw(i, s)
  \/ \E j \in jobs : JobStep(j)
  \/ \E w \in Workers : WorkerStart(w) \/ WorkerTurn(w)
  \/ Restart

(* Every HCM call ends (axios and the circuit breaker both time it out),   *)
(* the database answers, and the cron keeps firing.                        *)
Fairness ==
  /\ \A i \in Ids, k \in {"create", "approval", "retry"}, o \in Workers \cup 0 .. MaxFaults :
       WF_vars(\E j \in jobs : j.row.id = i /\ j.kind = k /\ j.owner = o /\ JobStep(j))
  /\ \A i \in Ids : WF_vars(ApproveCommit(i))
  /\ \A w \in Workers : WF_vars(WorkerStart(w)) /\ WF_vars(WorkerTurn(w))

Spec == Init /\ [][Next]_vars
FairSpec == Spec /\ Fairness

-----------------------------------------------------------------------------
(* Types, and the bound on the attempts counter: overlapping firings and   *)
(* late callbacks drive it past the retry limit, but never past Limit.     *)
TypeOK ==
  /\ status \in [Ids -> {"none", "PENDING", "APPROVED", "REJECTED", "CANCELLED"}]
  /\ sync \in [Ids -> [hcmSyncStatus : {"PENDING", "SUCCESS", "FAILED", "SKIPPED"},
                       hcmValidated : BOOLEAN,
                       hcmSyncAttempts : 0 .. Limit]]
  /\ approving \subseteq Ids
  /\ jobs \subseteq Job
  /\ todo \in [Workers -> SUBSET Snapshot]
  /\ debited \subseteq Ids
  /\ cleared \subseteq Ids
  /\ lost \subseteq Ids
  /\ faults \in 0 .. MaxFaults

(* HCM is debited only for a request that is approved, whose approval is   *)
(* about to be, or whose approval was rolled back after its callback had   *)
(* been scheduled: whatever firings, callbacks and rejections interleave.  *)
DebitNeedsApproval ==
  \A i \in Ids :
    i \in debited => status[i] = "APPROVED" \/ i \in approving \cup lost

(* HCM is never asked to debit what it has not, at some time, validated.   *)
DebitNeedsClearance == \A i \in Ids : i \in debited => i \in cleared

(* A request whose row says SKIPPED is one HCM never has to hear about,    *)
(* although the worker decided so from a row it read earlier.              *)
SkippedIsWithdrawn ==
  \A i \in Ids : sync[i].hcmSyncStatus = "SKIPPED" =>
    status[i] \in {"REJECTED", "CANCELLED"}

(* What TRD 6.2 says SUCCESS means, once nothing is in flight any more:    *)
(* upstream has acknowledged, which for an approval is the debit.          *)
SuccessIsAcknowledged ==
  (jobs = {} /\ approving = {} /\ \A w \in Workers : todo[w] = {}) =>
    \A i \in Ids :
      status[i] = "APPROVED" /\ sync[i].hcmSyncStatus = "SUCCESS" => i \in debited

(* Retrying ends: a row that waits for HCM is settled one way or another,  *)
(* HCM being down for ever, stale snapshots and a selection that takes     *)
(* fewer rows than wait included.                                          *)
RetriesEnd ==
  \A i \in Ids :
    status[i] # "none" /\ sync[i].hcmSyncStatus = "PENDING"
      ~> sync[i].hcmSyncStatus # "PENDING"
=============================================================================
