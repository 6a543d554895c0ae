--------------------------- MODULE HcmSync_proofs ----------------------------
(***************************************************************************)
(* Proofs about HcmSync, for every set of requests and worker firings,     *)
(* every retry limit, and any number of faults.                            *)
(*                                                                         *)
(* Every chain and every worker firing acts on a copy of a row it took     *)
(* earlier.  The inductive invariant says what such a copy still tells     *)
(* when it is used: that HCM has validated the request, that an approval   *)
(* was at least begun, that it was withdrawn.  These facts do not cease to *)
(* hold, unlike the columns they were read from.                           *)
(***************************************************************************)
EXTENDS HcmSync, TLAPS

Approved(i) == status[i] = "APPROVED" \/ i \in approving \cup lost

Gone(i) == status[i] \in {"REJECTED", "CANCELLED"}

(* What a copy of a row says of the request for good.                      *)
CopyRight(row) ==
  /\ row.hcmValidated => row.id \in cleared
  /\ row.status = "APPROVED" => Approved(row.id)
  /\ Withdrawn(row) => Gone(row.id)

(* A chain at the debit holds a validated copy of an approved request.     *)
JobRight(j) ==
  /\ CopyRight(j.row)
  /\ j.stage = "put" => j.row.id \in cleared /\ j.row.status = "APPROVED"

CopiesRight ==
  /\ \A j \in jobs : JobRight(j)
  /\ \A w \in Workers : \A row \in todo[w] : CopyRight(row)

RowsRight ==
  \A i \in Ids : /\ sync[i].hcmValidated => i \in cleared
                 /\ sync[i].hcmSyncStatus = "SKIPPED" => Gone(i)
                 /\ i \in approving => status[i] = "PENDING"
                 /\ i \in debited => i \in cleared /\ Approved(i)

(* An approval that is open, or has committed without a fault since.       *)
Standing(i) == status[i] = "APPROVED" \/ i \in approving

(* The attempts of a row stay within the retry limit and one for each      *)
(* approval; there is one approval for each fault, and a last one.         *)
JobBounded(j) ==
  /\ j.kind = "approval" =>
       /\ j.owner \in 0 .. faults
       /\ j.row.hcmSyncAttempts <= MaxRetries + j.owner
       /\ j.owner = faults => Standing(j.row.id)
  /\ j.kind = "retry" => j.row.hcmSyncAttempts < MaxRetries

AttemptsBounded ==
  /\ \A i \in Ids : /\ sync[i].hcmSyncAttempts <= MaxRetries + faults + 1
                    /\ ~ Standing(i) => sync[i].hcmSyncAttempts <= MaxRetries + faults
  /\ \A j \in jobs : JobBounded(j)

HInv == TypeOK /\ CopiesRight /\ RowsRight /\ AttemptsBounded

-----------------------------------------------------------------------------
SyncRow == [hcmSyncStatus : {"PENDING", "SUCCESS", "FAILED", "SKIPPED"},
            hcmValidated : BOOLEAN, hcmSyncAttempts : 0 .. Limit]

LEMMA JobFields ==
  ASSUME HInv, NEW j \in jobs
  PROVE  /\ j \in Job /\ j.row \in Snapshot /\ j.row.id \in Ids
         /\ j.kind \in {"create", "approval", "retry"}
         /\ j.owner \in Workers \cup 0 .. MaxFaults
         /\ j.stage \in {"validate", "put"}
         /\ j.row.hcmValidated \in BOOLEAN /\ j.row.hcmSyncAttempts \in 0 .. Limit
         /\ j.row.status \in {"PENDING", "APPROVED", "REJECTED", "CANCELLED"}
         /\ JobRight(j) /\ CopyRight(j.row) /\ JobBounded(j)
<1>1. j \in Job
  BY DEF HInv, TypeOK
<1>2. j.row \in Snapshot
  BY <1>1 DEF Job
<1>3. JobRight(j) /\ JobBounded(j)
  BY DEF HInv, CopiesRight, AttemptsBounded
<1>4. QED
  BY <1>1, <1>2, <1>3 DEF Job, Snapshot, JobRight

LEMMA RowFields ==
  ASSUME HInv, NEW i \in Ids
  PROVE  /\ sync[i] \in SyncRow
         /\ sync[i].hcmSyncStatus \in {"PENDING", "SUCCESS", "FAILED", "SKIPPED"}
         /\ sync[i].hcmValidated \in BOOLEAN
         /\ sync[i].hcmSyncAttempts \in 0 .. Limit
         /\ status[i] \in {"none", "PENDING", "APPROVED", "REJECTED", "CANCELLED"}
BY DEF HInv, TypeOK, SyncRow

LEMMA FaultFields ==
  ASSUME HInv
  PROVE  /\ MaxRetries \in Nat /\ MaxRetries >= 1 /\ MaxFaults \in Nat
         /\ faults \in Nat /\ faults <= MaxFaults
         /\ Limit \in Nat /\ Limit = MaxRetries + 1 + MaxFaults
BY HcmSyncAssumption DEF HInv, TypeOK, Limit

(* A copy of a row as it is now is right, and within the bounds.           *)
LEMMA ReadIsRight ==
  ASSUME HInv, NEW i \in Ids, status[i] # "none"
  PROVE  /\ Read(i) \in Snapshot /\ CopyRight(Read(i))
         /\ Read(i).id = i /\ Read(i).status = status[i]
         /\ Read(i).hcmValidated = sync[i].hcmValidated
         /\ Read(i).hcmSyncAttempts = sync[i].hcmSyncAttempts
<1>1. sync[i].hcmValidated => i \in cleared
  BY DEF HInv, RowsRight
<1>2. QED
  BY <1>1, RowFields DEF Read, Snapshot, CopyRight, Withdrawn, Gone, Approved

-----------------------------------------------------------------------------
(* A new image of one row, the requests' own columns untouched.            *)
LEMMA RowWritten ==
  ASSUME HInv, NEW i \in Ids, NEW new \in SyncRow,
         sync' = [sync EXCEPT ![i] = new],
         cleared \subseteq cleared', UNCHANGED <<status, approving, lost, faults>>,
         new.hcmValidated => i \in cleared',
         new.hcmSyncStatus = "SKIPPED" => Gone(i),
         new.hcmSyncAttempts <= MaxRetries + faults + 1,
         ~ Standing(i) => new.hcmSyncAttempts <= MaxRetries + faults,
         \A k \in debited' : k \in cleared' /\ Approved(k)
  PROVE  /\ sync' \in [Ids -> SyncRow]
         /\ RowsRight'
         /\ \A k \in Ids :
              /\ sync'[k].hcmSyncAttempts <= MaxRetries + faults' + 1
              /\ ~ Standing(k)' => sync'[k].hcmSyncAttempts <= MaxRetries + faults'
<1>1. sync \in [Ids -> SyncRow]
  BY DEF HInv, TypeOK, SyncRow
<1>2. \A k \in Ids : sync'[k] = IF k = i THEN new ELSE sync[k]
  BY <1>1
<1>3. sync' \in [Ids -> SyncRow]
  BY <1>1
<1>4. RowsRight'
  <2>1. \A k \in Ids : Gone(k)' = Gone(k) /\ Approved(k)' = Approved(k)
    BY DEF Gone, Approved
  <2>2. \A k \in Ids : /\ sync[k].hcmValidated => k \in cleared
                       /\ sync[k].hcmSyncStatus = "SKIPPED" => Gone(k)
                       /\ k \in approving => status[k] = "PENDING"
    BY DEF HInv, RowsRight
  <2>3. \A k \in Ids : /\ sync'[k].hcmValidated => k \in cleared'
                       /\ sync'[k].hcmSyncStatus = "SKIPPED" => Gone(k)
    BY <1>2, <2>2
  <2>4. QED
    BY <2>1, <2>2, <2>3 DEF RowsRight
<1>5. \A k \in Ids :
        /\ sync'[k].hcmSyncAttempts <= MaxRetries + faults' + 1
        /\ ~ Standing(k)' => sync'[k].hcmSyncAttempts <= MaxRetries + faults'
  BY <1>2 DEF HInv, AttemptsBounded, Standing
<1>6. QED
  BY <1>3, <1>4, <1>5

(* Chains go, and at most one comes.                                       *)
LEMMA ChainsMoved ==
  ASSUME HInv, NEW new, jobs' \subseteq jobs \cup {new},
         new \in jobs' \ jobs => new \in Job /\ JobRight(new)' /\ JobBounded(new),
         cleared \subseteq cleared', UNCHANGED <<status, approving, lost, faults>>
  PROVE  /\ jobs' \subseteq Job
         /\ \A j \in jobs' : JobRight(j)' /\ JobBounded(j)'
<1>1. jobs \subseteq Job /\ \A j \in jobs : JobRight(j) /\ JobBounded(j)
  BY DEF HInv, TypeOK, CopiesRight, AttemptsBounded
<1>2. \A j : JobBounded(j) => JobBounded(j)'
  BY DEF JobBounded, Standing
<1>3. \A j : JobRight(j) => JobRight(j)'
  BY DEF JobRight, CopyRight, Approved, Withdrawn, Gone
<1>4. QED
  BY <1>1, <1>2, <1>3

(* The image a chain writes is within the bounds.                          *)
LEMMA AttemptsOfChain ==
  ASSUME HInv, NEW j \in jobs
  PROVE  /\ Attempts(j) \in 0 .. Limit
         /\ Attempts(j) <= MaxRetries + faults + 1
         /\ ~ Standing(j.row.id) => Attempts(j) <= MaxRetries + faults
<1>1. CASE j.kind = "create"
  BY <1>1, FaultFields DEF Attempts
<1>2. CASE j.kind = "retry"
  <2>1. Attempts(j) = j.row.hcmSyncAttempts + 1 /\ j.row.hcmSyncAttempts < MaxRetries
    BY <1>2, JobFields DEF Attempts, JobBounded
  <2>2. QED
    BY <2>1, FaultFields, JobFields
<1>3. CASE j.kind = "approval"
  <2>1. /\ Attempts(j) = j.row.hcmSyncAttempts + 1 /\ j.owner \in 0 .. faults
        /\ j.row.hcmSyncAttempts <= MaxRetries + j.owner
        /\ j.owner = faults => Standing(j.row.id)
    BY <1>3, JobFields DEF Attempts, JobBounded
  <2>2. j.row.hcmSyncAttempts \in Nat /\ j.owner \in Nat /\ j.owner <= faults
    BY <2>1, JobFields, FaultFields
  <2>3. QED
    BY <2>1, <2>2, FaultFields
<1>4. QED
  BY <1>1, <1>2, <1>3, JobFields

-----------------------------------------------------------------------------
LEMMA InitHInv == Init => HInv
<1> SUFFICES ASSUME Init PROVE HInv
  OBVIOUS
<1>0. MaxRetries \in Nat /\ MaxFaults \in Nat /\ 0 \in 0 .. Limit /\ 0 \in 0 .. MaxFaults
  BY HcmSyncAssumption DEF Limit
<1>1. TypeOK
  BY <1>0 DEF Init, TypeOK
<1>2. CopiesRight /\ RowsRight
  BY DEF Init, CopiesRight, RowsRight, Gone
<1>3. AttemptsBounded
  BY <1>0 DEF Init, AttemptsBounded
<1>4. QED
  BY <1>1, <1>2, <1>3 DEF HInv

(* Starting a chain from outside the worker.                               *)
LEMMA CreateKeepsHInv ==
  ASSUME HInv, NEW i \in Ids, createRequest(i)
  PROVE  HInv'
<1> DEFINE row == [id |-> i, status |-> "PENDING", hcmValidated |-> FALSE,
                   hcmSyncAttempts |-> 0]
           new == [kind |-> "create", owner |-> 0, stage |-> "validate", row |-> row]
<1>0. /\ status[i] = "none" /\ status' = [status EXCEPT ![i] = "PENDING"]
      /\ jobs' = jobs \cup {new}
      /\ UNCHANGED <<sync, approving, todo, debited, cleared, lost, faults>>
  BY DEF createRequest
<1>1. \A k \in Ids : status'[k] = IF k = i THEN "PENDING" ELSE status[k]
  BY <1>0 DEF HInv, TypeOK
<1>2. /\ \A k \in Ids : Gone(k) => Gone(k)'
      /\ \A k \in Ids : (Approved(k) => Approved(k)') /\ (Standing(k) <=> Standing(k)')
  BY <1>0, <1>1 DEF Gone, Approved, Standing
<1>3. new \in Job /\ new.row = row /\ new.stage = "validate" /\ new.kind = "create"
  BY FaultFields DEF Job, Snapshot
<1>4. JobRight(new)' /\ JobBounded(new)'
  BY <1>3 DEF JobRight, CopyRight, JobBounded, Withdrawn
<1>5. TypeOK'
  BY <1>0, <1>3 DEF HInv, TypeOK
<1> HIDE DEF new, row
<1>6. \A j \in jobs : JobRight(j)' /\ JobBounded(j)'
  BY <1>0, <1>2, JobFields DEF JobRight, CopyRight, JobBounded
<1>7. CopiesRight'
  <2>1. \A w \in Workers : \A r \in todo[w] : r.id \in Ids /\ CopyRight(r)
    BY DEF HInv, TypeOK, Snapshot, CopiesRight
  <2>2. \A w \in Workers : \A r \in todo'[w] : CopyRight(r)'
    BY <1>0, <1>2, <2>1 DEF CopyRight
  <2>3. QED
    BY <1>0, <1>4, <1>6, <2>2 DEF CopiesRight
<1>8. RowsRight'
  BY <1>0, <1>1, <1>2 DEF HInv, RowsRight
<1>9. AttemptsBounded'
  BY <1>0, <1>2, <1>4, <1>6 DEF HInv, AttemptsBounded
<1>10. QED
  BY <1>5, <1>7, <1>8, <1>9 DEF HInv

LEMMA ApproveKeepsHInv ==
  ASSUME HInv, NEW i \in Ids, approveRequest(i)
  PROVE  HInv'
<1>0. /\ status[i] = "PENDING" /\ i \notin approving
      /\ approving' = approving \cup {i}
      /\ UNCHANGED <<status, sync, todo, debited, cleared, lost, faults>>
  BY DEF approveRequest
<1>1. /\ \A k \in Ids : Gone(k) <=> Gone(k)'
      /\ \A k \in Ids : (Approved(k) => Approved(k)') /\ (Standing(k) => Standing(k)')
      /\ Approved(i)' /\ Standing(i)'
  BY <1>0 DEF Gone, Approved, Standing
<1>2. PICK row :
        /\ row = [Read(i) EXCEPT !.status = "APPROVED"]
        /\ row \in Snapshot /\ row.id = i /\ row.status = "APPROVED"
        /\ row.hcmValidated = sync[i].hcmValidated
        /\ row.hcmSyncAttempts = sync[i].hcmSyncAttempts
  <2> DEFINE row == [Read(i) EXCEPT !.status = "APPROVED"]
  <2>1. /\ row \in Snapshot /\ row.id = i /\ row.status = "APPROVED"
        /\ row.hcmValidated = sync[i].hcmValidated
        /\ row.hcmSyncAttempts = sync[i].hcmSyncAttempts
    BY <1>0, ReadIsRight DEF Snapshot
  <2>2. QED
    BY <2>1
<1>3. /\ FirstStage(Read(i)) \in {"put", "validate"}
      /\ FirstStage(Read(i)) = "put" => sync[i].hcmValidated
  BY <1>0, ReadIsRight DEF FirstStage
<1>4. PICK new :
        /\ jobs' = jobs \cup {new}
        /\ new \in Job /\ new.row = row /\ new.kind = "approval" /\ new.owner = faults
        /\ new.stage = "put" => sync[i].hcmValidated
  <2> DEFINE job == [kind |-> "approval", owner |-> faults,
                     stage |-> FirstStage(Read(i)), row |-> row]
  <2>1. jobs' = jobs \cup {job}
    BY <1>2 DEF approveRequest
  <2>2. /\ job \in Job /\ job.row = row /\ job.kind = "approval" /\ job.owner = faults
        /\ job.stage = FirstStage(Read(i))
    BY <1>2, <1>3, FaultFields DEF Job
  <2> HIDE DEF job
  <2>3. QED
    BY <1>3, <2>1, <2>2
<1>5. sync[i].hcmSyncAttempts <= MaxRetries + faults
  BY <1>0 DEF Standing, HInv, AttemptsBounded
<1>6. sync[i].hcmValidated => i \in cleared
  BY DEF HInv, RowsRight
<1>7. JobRight(new)' /\ JobBounded(new)'
  <2>1. JobRight(new)'
    BY <1>0, <1>1, <1>2, <1>4, <1>6 DEF JobRight, CopyRight, Withdrawn
  <2>2. JobBounded(new)'
    BY <1>0, <1>1, <1>2, <1>4, <1>5, FaultFields DEF JobBounded
  <2>3. QED
    BY <2>1, <2>2
<1>8. TypeOK'
  BY <1>0, <1>4 DEF HInv, TypeOK
<1>9. \A j \in jobs : JobRight(j)' /\ JobBounded(j)'
  BY <1>0, <1>1, JobFields DEF JobRight, CopyRight, JobBounded
<1>10. CopiesRight'
  <2>1. \A r : CopyRight(r) => CopyRight(r)'
    BY <1>0 DEF CopyRight, Approved, Gone
  <2>2. \A w \in Workers : \A r \in todo'[w] : CopyRight(r)'
    BY <1>0, <2>1 DEF HInv, CopiesRight
  <2>3. QED
    BY <1>0, <1>4, <1>7, <1>9, <2>2 DEF CopiesRight
<1>11. RowsRight'
  <2>1. \A k \in Ids : /\ sync[k].hcmValidated => k \in cleared
                       /\ sync[k].hcmSyncStatus = "SKIPPED" => Gone(k)
                       /\ k \in approving => status[k] = "PENDING"
                       /\ k \in debited => k \in cleared /\ Approved(k)
    BY DEF HInv, RowsRight
  <2>2. QED
    BY <1>0, <2>1 DEF RowsRight, Approved, Gone
<1>12. AttemptsBounded'
  BY <1>0, <1>1, <1>4, <1>7, <1>9 DEF HInv, AttemptsBounded
<1>13. QED
  BY <1>8, <1>10, <1>11, <1>12 DEF HInv

(* Steps that start no chain and touch neither the sync columns nor HCM:   *)
(* it is enough that approvals and withdrawals stay what they are.         *)
LEMMA OutcomeKeepsHInv ==
  ASSUME HInv, TypeOK',
         \/ jobs' = jobs /\ todo' = todo
         \/ jobs' = {} /\ todo' = [w \in Workers |-> {}],
         UNCHANGED <<sync, debited, cleared>>,
         \A i \in Ids : /\ Approved(i) => Approved(i)'
                        /\ Gone(i) => Gone(i)'
                        /\ i \in approving' => status'[i] = "PENDING"
                        /\ faults' = faults => (Standing(i) => Standing(i)')
                        /\ faults' = faults => (Standing(i)' => Standing(i)),
         faults' \in {faults, faults + 1}
  PROVE  HInv'
<1>1. \A j \in jobs' : JobRight(j)'
  BY JobFields DEF JobRight, CopyRight
<1>2. \A j \in jobs' : JobBounded(j)'
  BY JobFields, FaultFields DEF JobBounded
<1>3. CopiesRight'
  <2>1. \A w \in Workers : \A r \in todo[w] : r.id \in Ids /\ CopyRight(r)
    BY DEF HInv, TypeOK, Snapshot, CopiesRight
  <2>2. \A w \in Workers : \A r \in todo'[w] : CopyRight(r)'
    BY <2>1 DEF CopyRight
  <2>3. QED
    BY <1>1, <2>2 DEF CopiesRight
<1>4. RowsRight'
  BY DEF HInv, RowsRight
<1>5. AttemptsBounded'
  <2>1. \A i \in Ids : sync'[i].hcmSyncAttempts \in Nat
    BY RowFields, FaultFields
  <2>2. \A i \in Ids : /\ sync[i].hcmSyncAttempts <= MaxRetries + faults + 1
                       /\ ~ Standing(i) => sync[i].hcmSyncAttempts <= MaxRetries + faults
    BY DEF HInv, AttemptsBounded
  <2>3. QED
    BY <1>2, <2>1, <2>2, FaultFields DEF AttemptsBounded
<1>6. QED
  BY <1>3, <1>4, <1>5 DEF HInv

LEMMA OutcomesKeepHInv ==
  ASSUME HInv,
         \/ \E i \in Ids : \/ ApproveCommit(i) \/ ApproveAbort(i)
                           \/ \E s \in {"REJECTED", "CANCELLED"} : Withdraw(i, s)
         \/ Restart
  PROVE  HInv'
<1>0. \A i \in Ids : i \in approving => status[i] = "PENDING"
  BY DEF HInv, RowsRight
<1>1. ASSUME NEW i \in Ids, ApproveCommit(i)
      PROVE  HInv'
  <2>1. \A k \in Ids : status'[k] = IF k = i THEN "APPROVED" ELSE status[k]
    BY <1>1 DEF ApproveCommit, HInv, TypeOK
  <2>2. \A k \in Ids : /\ Approved(k) => Approved(k)'
                       /\ Gone(k) => Gone(k)'
                       /\ k \in approving' => status'[k] = "PENDING"
                       /\ Standing(k) <=> Standing(k)'
    BY <1>0, <1>1, <2>1 DEF ApproveCommit, Approved, Gone, Standing
  <2>3. TypeOK'
    BY <1>1 DEF ApproveCommit, HInv, TypeOK
  <2>4. QED
    BY <1>1, <2>2, <2>3, OutcomeKeepsHInv DEF ApproveCommit
<1>2. ASSUME NEW i \in Ids, ApproveAbort(i)
      PROVE  HInv'
  <2>1. \A k \in Ids : /\ Approved(k) => Approved(k)'
                       /\ Gone(k) => Gone(k)'
                       /\ k \in approving' => status'[k] = "PENDING"
    BY <1>0, <1>2 DEF ApproveAbort, Approved, Gone
  <2>2. TypeOK'
    BY <1>2, FaultFields DEF ApproveAbort, HInv, TypeOK
  <2>3. QED
    BY <1>2, <2>1, <2>2, FaultFields, OutcomeKeepsHInv DEF ApproveAbort
<1>3. ASSUME NEW i \in Ids, NEW s \in {"REJECTED", "CANCELLED"}, Withdraw(i, s)
      PROVE  HInv'
  <2>1. \A k \in Ids : status'[k] = IF k = i THEN s ELSE status[k]
    BY <1>3 DEF Withdraw, HInv, TypeOK
  <2>2. \A k \in Ids : /\ Approved(k) => Approved(k)'
                       /\ Gone(k) => Gone(k)'
                       /\ k \in approving' => status'[k] = "PENDING"
                       /\ Standing(k) <=> Standing(k)'
    BY <1>0, <1>3, <2>1 DEF Withdraw, Approved, Gone, Standing
  <2>3. TypeOK'
    BY <1>3 DEF Withdraw, HInv, TypeOK
  <2>4. QED
    BY <1>3, <2>2, <2>3, OutcomeKeepsHInv DEF Withdraw
<1>4. CASE Restart
  <2>1. \A k \in Ids : /\ Approved(k) => Approved(k)'
                       /\ Gone(k) => Gone(k)'
                       /\ k \in approving' => status'[k] = "PENDING"
    BY <1>4 DEF Restart, Approved, Gone
  <2>2. TypeOK'
    BY <1>4, FaultFields DEF Restart, HInv, TypeOK
  <2>3. QED
    BY <1>4, <2>1, <2>2, FaultFields, OutcomeKeepsHInv DEF Restart
<1>5. QED
  BY <1>1, <1>2, <1>3, <1>4

-----------------------------------------------------------------------------
(* HCM's answers.                                                          *)

(* A chain ends with an image of its row.                                  *)
LEMMA WriteKeepsHInv ==
  ASSUME HInv, NEW j \in jobs, NEW s \in {"PENDING", "SUCCESS", "FAILED"},
         NEW validated \in BOOLEAN, Write(j, s, validated),
         cleared \subseteq cleared', cleared' \subseteq Ids,
         debited' \subseteq debited \cup {j.row.id},
         validated => j.row.id \in cleared',
         j.row.id \in debited' \ debited => j.row.id \in cleared' /\ Approved(j.row.id),
         UNCHANGED <<status, approving, todo, lost, faults>>
  PROVE  HInv'
<1> DEFINE new == [hcmSyncStatus |-> s, hcmValidated |-> validated,
                   hcmSyncAttempts |-> Attempts(j)]
<1>0. j.row.id \in Ids
  BY JobFields
<1>1. /\ sync' = [sync EXCEPT ![j.row.id] = new] /\ jobs' = jobs \ {j}
      /\ new.hcmValidated = validated /\ new.hcmSyncStatus = s
      /\ new.hcmSyncAttempts = Attempts(j)
  BY DEF Write
<1>2. new \in SyncRow
  BY AttemptsOfChain DEF SyncRow
<1> HIDE DEF new
<1>3. \A k \in debited : k \in Ids /\ k \in cleared /\ Approved(k)
  BY DEF HInv, TypeOK, RowsRight
<1>4. \A k \in debited' : k \in cleared' /\ Approved(k)
  BY <1>3
<1>5. /\ sync' \in [Ids -> SyncRow] /\ RowsRight'
      /\ \A k \in Ids :
           /\ sync'[k].hcmSyncAttempts <= MaxRetries + faults' + 1
           /\ ~ Standing(k)' => sync'[k].hcmSyncAttempts <= MaxRetries + faults'
  BY <1>0, <1>1, <1>2, <1>4, AttemptsOfChain, RowWritten
<1>6. jobs' \subseteq Job /\ \A k \in jobs' : JobRight(k)' /\ JobBounded(k)'
  BY <1>1, ChainsMoved
<1>7. CopiesRight'
  BY <1>6 DEF HInv, CopiesRight, CopyRight, Approved, Gone
<1>8. TypeOK'
  BY <1>0, <1>5, <1>6 DEF HInv, TypeOK, SyncRow
<1>9. QED
  BY <1>5, <1>6, <1>7, <1>8 DEF HInv, AttemptsBounded

LEMMA ValidateKeepsHInv ==
  ASSUME HInv, NEW j \in jobs, NEW answer, ValidateAnswer(j, answer)
  PROVE  HInv'
<1>0. /\ j.row.id \in Ids /\ sync[j.row.id].hcmValidated \in BOOLEAN
      /\ sync[j.row.id].hcmValidated => j.row.id \in cleared
  BY JobFields, RowFields DEF HInv, RowsRight
<1>1. /\ cleared' = IF answer = "valid" THEN cleared \cup {j.row.id} ELSE cleared
      /\ UNCHANGED <<status, approving, todo, debited, lost, faults>>
  BY DEF ValidateAnswer
<1>2. cleared \subseteq cleared' /\ cleared' \subseteq Ids
  BY <1>0, <1>1 DEF HInv, TypeOK
<1>3. CASE Write(j, "PENDING", sync[j.row.id].hcmValidated)
  BY <1>0, <1>1, <1>2, <1>3, WriteKeepsHInv
<1>4. CASE Write(j, "FAILED", FALSE)
  BY <1>1, <1>2, <1>4, WriteKeepsHInv
<1>5. CASE answer = "valid" /\ Write(j, "SUCCESS", TRUE)
  BY <1>1, <1>2, <1>5, WriteKeepsHInv
<1>6. CASE /\ answer = "valid" /\ Debits(j)
           /\ jobs' = (jobs \ {j}) \cup {[j EXCEPT !.stage = "put"]}
           /\ UNCHANGED sync
  <2> DEFINE new == [j EXCEPT !.stage = "put"]
  <2>1. /\ new \in Job /\ new.row = j.row /\ new.kind = j.kind
        /\ new.owner = j.owner /\ new.stage = "put"
    BY JobFields DEF Job
  <2>2. jobs' \subseteq jobs \cup {new} /\ j.row.status = "APPROVED" /\ j.row.id \in cleared'
    BY <1>1, <1>6 DEF Debits
  <2> HIDE DEF new
  <2>3. JobRight(new)'
    BY <1>1, <1>2, <2>1, <2>2, JobFields DEF JobRight, CopyRight, Approved, Gone, Withdrawn
  <2>4. JobBounded(new)
    BY <2>1, JobFields DEF JobBounded
  <2>5. jobs' \subseteq Job /\ \A k \in jobs' : JobRight(k)' /\ JobBounded(k)'
    BY <1>1, <1>2, <2>1, <2>2, <2>3, <2>4, ChainsMoved
  <2>6. CopiesRight'
    BY <1>1, <1>2, <2>5 DEF HInv, CopiesRight, CopyRight, Approved, Gone
  <2>7. RowsRight'
    BY <1>1, <1>2, <1>6 DEF HInv, RowsRight, Approved, Gone
  <2>8. AttemptsBounded'
    BY <1>1, <1>6, <2>5 DEF HInv, AttemptsBounded, Standing
  <2>9. TypeOK'
    BY <1>1, <1>2, <1>6, <2>5 DEF HInv, TypeOK
  <2>10. QED
    BY <2>6, <2>7, <2>8, <2>9 DEF HInv
<1>7. QED
  BY <1>3, <1>4, <1>5, <1>6 DEF ValidateAnswer

LEMMA PutKeepsHInv ==
  ASSUME HInv, NEW j \in jobs, NEW applied \in BOOLEAN, NEW acknowledged \in BOOLEAN,
         PutAnswer(j, applied, acknowledged)
  PROVE  HInv'
<1>1. j.row.id \in cleared /\ j.row.status = "APPROVED" /\ CopyRight(j.row)
  BY JobFields DEF PutAnswer, JobRight
<1>2. Approved(j.row.id)
  BY <1>1 DEF CopyRight
<1>3. /\ debited' \subseteq debited \cup {j.row.id}
      /\ UNCHANGED <<status, approving, todo, cleared, lost, faults>>
      /\ \E s \in {"PENDING", "SUCCESS", "FAILED"} : Write(j, s, TRUE)
  BY DEF PutAnswer
<1>4. cleared' \subseteq Ids
  BY <1>3 DEF HInv, TypeOK
<1>5. QED
  BY <1>1, <1>2, <1>3, <1>4, WriteKeepsHInv

-----------------------------------------------------------------------------
(* The worker.                                                             *)

LEMMA StartKeepsHInv ==
  ASSUME HInv, NEW w \in Workers, WorkerStart(w)
  PROVE  HInv'
<1>1. PICK S \in SUBSET {i \in Ids : status[i] # "none"} :
        todo' = [todo EXCEPT ![w] = {Read(i) : i \in S}]
  BY DEF WorkerStart
<1>2. UNCHANGED <<status, sync, approving, jobs, debited, cleared, lost, faults>>
  BY DEF WorkerStart
<1>3. \A row \in {Read(i) : i \in S} : row \in Snapshot /\ CopyRight(row)
  BY ReadIsRight
<1>4. \A v \in Workers : todo'[v] = IF v = w THEN {Read(i) : i \in S} ELSE todo[v]
  BY <1>1 DEF HInv, TypeOK
<1>5. todo' \in [Workers -> SUBSET Snapshot]
  BY <1>1, <1>3 DEF HInv, TypeOK
<1>6. \A row : CopyRight(row) => CopyRight(row)'
  BY <1>2 DEF CopyRight, Approved, Gone, Withdrawn
<1>7. \A v \in Workers : \A row \in todo'[v] : CopyRight(row)
  BY <1>3, <1>4 DEF HInv, CopiesRight
<1>8. CopiesRight'
  BY <1>2, <1>6, <1>7 DEF HInv, CopiesRight, JobRight
<1>9. RowsRight' /\ AttemptsBounded'
  BY <1>2 DEF HInv, RowsRight, AttemptsBounded, JobBounded, Approved, Gone, Standing
<1>10. TypeOK'
  BY <1>2, <1>5 DEF HInv, TypeOK
<1>11. QED
  BY <1>8, <1>9, <1>10 DEF HInv

LEMMA TurnKeepsHInv ==
  ASSUME HInv, NEW w \in Workers, WorkerTurn(w)
  PROVE  HInv'
<1>1. PICK row \in todo[w] :
        /\ todo' = [todo EXCEPT ![w] = @ \ {row}]
        /\ UNCHANGED <<status, approving, debited, cleared, lost, faults>>
        /\ \/ /\ sync' = [sync EXCEPT ![row.id].hcmSyncStatus = "FAILED"]
              /\ UNCHANGED jobs
           \/ /\ ~ Exhausted(row) /\ Withdrawn(row)
              /\ sync' = [sync EXCEPT ![row.id].hcmSyncStatus = "SKIPPED",
                                      ![row.id].hcmSyncAttempts = row.hcmSyncAttempts + 1]
              /\ UNCHANGED jobs
           \/ /\ ~ Exhausted(row) /\ row.hcmValidated
              /\ sync' = [sync EXCEPT ![row.id] =
                   [hcmSyncStatus |-> "SUCCESS", hcmValidated |-> TRUE,
                    hcmSyncAttempts |-> row.hcmSyncAttempts + 1]]
              /\ UNCHANGED jobs
           \/ /\ ~ Exhausted(row)
              /\ row.status = "APPROVED" \/ ~ row.hcmValidated
              /\ jobs' = jobs \cup {[kind |-> "retry", owner |-> w, row |-> row,
                                     stage |-> FirstStage(row)]}
              /\ UNCHANGED sync
  BY DEF WorkerTurn
<1> DEFINE i == row.id
<1>2. /\ row \in Snapshot /\ CopyRight(row) /\ i \in Ids
      /\ row.hcmSyncAttempts \in 0 .. Limit /\ row.hcmValidated \in BOOLEAN
  BY DEF HInv, TypeOK, CopiesRight, Snapshot
<1>3. sync \in [Ids -> SyncRow] /\ sync[i] \in SyncRow
  BY <1>2, RowFields DEF HInv, TypeOK, SyncRow
<1>4. /\ sync[i].hcmValidated => i \in cleared
      /\ sync[i].hcmSyncAttempts <= MaxRetries + faults + 1
      /\ ~ Standing(i) => sync[i].hcmSyncAttempts <= MaxRetries + faults
      /\ \A k \in debited : k \in Ids /\ k \in cleared /\ Approved(k)
  BY <1>2 DEF HInv, TypeOK, RowsRight, AttemptsBounded
<1>5. ~ Exhausted(row) =>
        /\ row.hcmSyncAttempts < MaxRetries
        /\ row.hcmSyncAttempts + 1 \in 0 .. Limit
        /\ row.hcmSyncAttempts + 1 <= MaxRetries + faults
        /\ row.hcmSyncAttempts + 1 <= MaxRetries + faults + 1
  BY <1>2, FaultFields DEF Exhausted
(* Whatever the turn writes or starts, the copies that remain are right.   *)
<1>6. /\ todo' \in [Workers -> SUBSET Snapshot]
      /\ \A v \in Workers : \A r \in todo'[v] : CopyRight(r)'
  <2>1. todo \in [Workers -> SUBSET Snapshot]
    BY DEF HInv, TypeOK
  <2>2. /\ todo' \in [Workers -> SUBSET Snapshot]
        /\ \A v \in Workers : todo'[v] \subseteq todo[v]
    BY <1>1, <2>1
  <2>3. \A r : CopyRight(r) => CopyRight(r)'
    BY <1>1 DEF CopyRight, Approved, Gone, Withdrawn
  <2>4. QED
    BY <2>2, <2>3 DEF HInv, CopiesRight
<1>7. ASSUME NEW new \in SyncRow, sync' = [sync EXCEPT ![i] = new], UNCHANGED jobs,
             new.hcmValidated => i \in cleared, new.hcmSyncStatus = "SKIPPED" => Gone(i),
             new.hcmSyncAttempts <= MaxRetries + faults + 1,
             ~ Standing(i) => new.hcmSyncAttempts <= MaxRetries + faults
      PROVE  HInv'
  <2>1. /\ sync' \in [Ids -> SyncRow] /\ RowsRight'
        /\ \A k \in Ids :
             /\ sync'[k].hcmSyncAttempts <= MaxRetries + faults' + 1
             /\ ~ Standing(k)' => sync'[k].hcmSyncAttempts <= MaxRetries + faults'
    BY <1>1, <1>2, <1>4, <1>7, RowWritten
  <2>2. jobs' \subseteq Job /\ \A k \in jobs' : JobRight(k)' /\ JobBounded(k)'
    <3>1. \A k : (JobRight(k) <=> JobRight(k)') /\ (JobBounded(k) <=> JobBounded(k)')
      BY <1>1 DEF JobRight, JobBounded, CopyRight, Approved, Gone, Standing, Withdrawn
    <3>2. QED
      BY <1>7, <3>1 DEF HInv, TypeOK, CopiesRight, AttemptsBounded
  <2>3. TypeOK'
    BY <1>1, <1>6, <2>1, <2>2 DEF HInv, TypeOK, SyncRow
  <2>4. QED
    BY <1>6, <2>1, <2>2, <2>3 DEF HInv, CopiesRight, AttemptsBounded
<1>8. CASE /\ sync' = [sync EXCEPT ![i].hcmSyncStatus = "FAILED"]
           /\ UNCHANGED jobs
  <2>1. PICK new \in SyncRow :
          /\ sync' = [sync EXCEPT ![i] = new]
          /\ new.hcmSyncStatus = "FAILED" /\ new.hcmValidated = sync[i].hcmValidated
          /\ new.hcmSyncAttempts = sync[i].hcmSyncAttempts
    <3> DEFINE new == [sync[i] EXCEPT !.hcmSyncStatus = "FAILED"]
    <3>1. sync' = [sync EXCEPT ![i] = new]
      BY <1>8
    <3>2. /\ new \in SyncRow /\ new.hcmSyncStatus = "FAILED"
          /\ new.hcmValidated = sync[i].hcmValidated
          /\ new.hcmSyncAttempts = sync[i].hcmSyncAttempts
      BY <1>3 DEF SyncRow
    <3>3. QED
      BY <3>1, <3>2
  <2>2. QED
    BY <1>4, <1>7, <1>8, <2>1
<1>9. CASE /\ ~ Exhausted(row) /\ Withdrawn(row)
           /\ sync' = [sync EXCEPT ![i].hcmSyncStatus = "SKIPPED",
                                   ![i].hcmSyncAttempts = row.hcmSyncAttempts + 1]
           /\ UNCHANGED jobs
  <2>1. PICK new \in SyncRow :
          /\ sync' = [sync EXCEPT ![i] = new]
          /\ new.hcmValidated = sync[i].hcmValidated
          /\ new.hcmSyncAttempts = row.hcmSyncAttempts + 1
    <3> DEFINE mid == [sync EXCEPT ![i].hcmSyncStatus = "SKIPPED"]
               new == [mid[i] EXCEPT !.hcmSyncAttempts = row.hcmSyncAttempts + 1]
    <3>1. /\ mid \in [Ids -> SyncRow] /\ mid[i].hcmValidated = sync[i].hcmValidated
          /\ \A k \in Ids : k # i => mid[k] = sync[k]
      BY <1>2, <1>3 DEF SyncRow
    <3>2. sync' = [mid EXCEPT ![i].hcmSyncAttempts = row.hcmSyncAttempts + 1]
      BY <1>9
    <3> HIDE DEF mid
    <3>3. /\ new \in SyncRow /\ new.hcmValidated = sync[i].hcmValidated
          /\ new.hcmSyncAttempts = row.hcmSyncAttempts + 1
      BY <1>2, <1>5, <1>9, <3>1 DEF SyncRow
    <3>4. sync' = [mid EXCEPT ![i] = new]
      BY <3>2
    <3> HIDE DEF new
    <3>5. sync' = [sync EXCEPT ![i] = new]
      BY <1>3, <3>1, <3>4
    <3>6. QED
      BY <3>3, <3>5
  <2>2. Gone(i)
    BY <1>2, <1>9 DEF CopyRight
  <2>3. QED
    BY <1>4, <1>5, <1>7, <1>9, <2>1, <2>2
<1>10. CASE /\ ~ Exhausted(row) /\ row.hcmValidated
            /\ sync' = [sync EXCEPT ![i] =
                 [hcmSyncStatus |-> "SUCCESS", hcmValidated |-> TRUE,
                  hcmSyncAttempts |-> row.hcmSyncAttempts + 1]]
            /\ UNCHANGED jobs
  <2>1. [hcmSyncStatus |-> "SUCCESS", hcmValidated |-> TRUE,
         hcmSyncAttempts |-> row.hcmSyncAttempts + 1] \in SyncRow
    BY <1>5, <1>10 DEF SyncRow
  <2>2. i \in cleared
    BY <1>2, <1>10 DEF CopyRight
  <2>3. QED
    BY <1>5, <1>7, <1>10, <2>1, <2>2
<1>11. CASE /\ ~ Exhausted(row)
            /\ row.status = "APPROVED" \/ ~ row.hcmValidated
            /\ jobs' = jobs \cup {[kind |-> "retry", owner |-> w, row |-> row,
                                   stage |-> FirstStage(row)]}
            /\ UNCHANGED sync
  <2> DEFINE new == [kind |-> "retry", owner |-> w, row |-> row, stage |-> FirstStage(row)]
  <2>1. /\ new \in Job /\ new.row = row /\ new.kind = "retry"
        /\ new.stage = "put" => row.hcmValidated
    BY <1>2 DEF Job, FirstStage
  <2>2. jobs' = jobs \cup {new}
    BY <1>11
  <2> HIDE DEF new
  <2>3. JobRight(new)'
    BY <1>1, <1>2, <1>11, <2>1 DEF JobRight, CopyRight, Approved, Gone, Withdrawn
  <2>4. JobBounded(new)
    BY <1>5, <1>11, <2>1 DEF JobBounded
  <2>5. jobs' \subseteq Job /\ \A k \in jobs' : JobRight(k)' /\ JobBounded(k)'
    BY <1>1, <2>1, <2>2, <2>3, <2>4, ChainsMoved
  <2>6. RowsRight'
    BY <1>1, <1>11 DEF HInv, RowsRight, Approved, Gone
  <2>7. AttemptsBounded'
    BY <1>1, <1>11, <2>5 DEF HInv, AttemptsBounded, Standing
  <2>8. TypeOK'
    BY <1>1, <1>6, <1>11, <2>5 DEF HInv, TypeOK
  <2>9. QED
    BY <1>6, <2>5, <2>6, <2>7, <2>8 DEF HInv, CopiesRight
<1>12. QED
  BY <1>1, <1>8, <1>9, <1>10, <1>11

LEMMA StepKeepsHInv == HInv /\ [Next]_vars => HInv'
<1> SUFFICES ASSUME HInv, [Next]_vars PROVE HInv'
  OBVIOUS
<1>1. ASSUME NEW j \in jobs, JobStep(j)
      PROVE  HInv'
  BY <1>1, ValidateKeepsHInv, PutKeepsHInv DEF JobStep
<1>2. CASE UNCHANGED vars
  BY <1>2 DEF vars, HInv, TypeOK, CopiesRight, JobRight, CopyRight, RowsRight,
     AttemptsBounded, JobBounded, Approved, Gone, Withdrawn, Standing
<1>3. QED
  BY <1>1, <1>2, CreateKeepsHInv, ApproveKeepsHInv, OutcomesKeepHInv, StartKeepsHInv,
     TurnKeepsHInv DEF Next

-----------------------------------------------------------------------------
(* Types, the bound on the attempts counter included: the one attempt each *)
(* approval adds without a look at the limit is the only way past it.      *)
THEOREM TypeCorrect == Spec => []TypeOK
<1>1. HInv => TypeOK
  BY DEF HInv
<1>2. QED
  BY <1>1, InitHInv, StepKeepsHInv, PTL DEF Spec

(* HCM is asked to debit a request only after it has answered valid for    *)
(* it, by whichever chain, before whatever restart.                        *)
THEOREM ClearedBeforeDebit == Spec => []DebitNeedsClearance
<1>1. HInv => DebitNeedsClearance
  BY DEF HInv, RowsRight, DebitNeedsClearance
<1>2. QED
  BY <1>1, InitHInv, StepKeepsHInv, PTL DEF Spec

(* HCM is debited for approved requests, or ones being approved; what was  *)
(* rejected or cancelled is debited only after a rolled-back approval.     *)
THEOREM DebitsAreApproved == Spec => []DebitNeedsApproval
<1>1. HInv => DebitNeedsApproval
  BY DEF HInv, RowsRight, DebitNeedsApproval, Approved
<1>2. QED
  BY <1>1, InitHInv, StepKeepsHInv, PTL DEF Spec

(* The worker skips no request that is not withdrawn, old copies included. *)
THEOREM SkippedForGood == Spec => []SkippedIsWithdrawn
<1>1. HInv => SkippedIsWithdrawn
  BY DEF HInv, RowsRight, SkippedIsWithdrawn, Gone
<1>2. QED
  BY <1>1, InitHInv, StepKeepsHInv, PTL DEF Spec
====
