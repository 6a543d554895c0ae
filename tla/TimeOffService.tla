--------------------------- MODULE TimeOffService ---------------------------
(***************************************************************************)
(* TimeOffService and the BalanceService methods it calls inside its       *)
(* transactions: createRequest as the sequence of awaits it is (unlocked   *)
(* idempotency check, per-lane promise chain, locked re-check, up to three *)
(* transaction attempts, recovery after a constraint or contention error)  *)
(* for several callers at once, the three status changes, the seeding of   *)
(* balances, the passing of time and the restart of the process.           *)
(*                                                                         *)
(* The database is external.  It is used through dataSource.transaction    *)
(* and is taken to do what that interface says: a transaction is one       *)
(* atomic step, or it fails with a transient error and leaves nothing, or  *)
(* a unique index rejects it.  The hcm* columns of a request, and the      *)
(* setImmediate callbacks that write them, are the subject of HcmSync.     *)
(***************************************************************************)
EXTENDS Balances, LeaveRequests, Sequences, FiniteSets

CONSTANTS
  Clients,      \* concurrent HTTP callers of POST /time-off/requests
  Keys,         \* values of the X-Idempotency-Key header
  Ids,          \* primary keys of time_off_requests
  Lanes,        \* employee:location pairs
  Types,        \* leave types
  Payloads,     \* request bodies
  Totals,       \* seeded totals
  NoRow,        \* the absence of a row
  Ttl,          \* IDEMPOTENCY_TTL_MS in clock ticks
  TicksPerDay,  \* clock ticks in a calendar day
  MaxClock      \* bound: where the modelled clock stops

Accounts == Lanes \X Types

ASSUME PayloadsAssumption ==
  Payloads \subseteq [lane : Lanes, type : Types, first : Nat, last : Nat]
ASSUME IdsAssumption == IsFiniteSet(Ids)
ASSUME NoRowAssumption ==
  /\ NoRow \notin Nat
  /\ NoRow \notin Balance
  /\ NoRow \notin [key : Keys, payload : Payloads, status : RequestStatus]
  /\ NoRow \notin [requestHash : Payloads, responseBody : Ids,
                   expiresAt : Nat]
  /\ NoRow \notin Ids
  /\ NoRow \notin [key : Keys, payload : Payloads]
ASSUME NumbersAssumption ==
  /\ Totals \subseteq Nat
  /\ Ttl \in Nat
  /\ TicksPerDay \in Nat \ {0}
  /\ MaxClock \in Nat

VARIABLES
  clock,        \* wall clock, in ticks
  balances,     \* employee_balances, by account
  requests,     \* time_off_requests, by id
  idempotency,  \* idempotency_records, by key
  createLocks,  \* _createLocks: the promise chain of each lane, as a queue
  pc,           \* where each caller's createRequest is
  call,         \* its arguments
  attempt,      \* the loop counter of _runCreateTransactionWithRetry
  failure,      \* the error createRequest's catch block is handling
  reply         \* what the caller was answered

database == <<balances, requests, idempotency>>
locals == <<pc, call, attempt, failure, reply>>
vars == <<clock, balances, requests, idempotency, createLocks, pc, call,
          attempt, failure, reply>>

maxAttempts == 3

Row == [key : Keys, payload : Payloads, status : RequestStatus]

(* The request hash covers the whole body, so the body itself stands for   *)
(* it; the stored response body is known by the id of the row it shows.    *)
IdempotencyRecord ==
  [requestHash : Payloads, responseBody : Ids, expiresAt : Nat]

Codes == {"INVALID_DATE_RANGE", "IDEMPOTENCY_CONFLICT", "OVERLAPPING_REQUEST",
          "BALANCE_NOT_FOUND", "INSUFFICIENT_BALANCE", "BALANCE_CONFLICT",
          "INTERNAL"}
Accepted == {"created", "cached", "recovered"}
Reply == [outcome : Codes \cup Accepted \cup {"none"}, id : Ids \cup {NoRow}]

InLane == {"queued", "tx", "recoverCheck", "recoverFind"}
Critical == {"tx", "recoverCheck", "recoverFind"}

-----------------------------------------------------------------------------
Init ==
  /\ clock = 0
  /\ balances = [a \in Accounts |-> NoRow]
  /\ requests = [i \in Ids |-> NoRow]
  /\ idempotency = [k \in Keys |-> NoRow]
  /\ createLocks = [l \in Lanes |-> <<>>]
  /\ pc = [c \in Clients |-> "idle"]
  /\ call = [c \in Clients |-> NoRow]
  /\ attempt = [c \in Clients |-> 1]
  /\ failure = [c \in Clients |-> "none"]
  /\ reply = [c \in Clients |-> [outcome |-> "none", id |-> NoRow]]

-----------------------------------------------------------------------------
(* Reads of the database. *)

today == clock \div TicksPerDay

\* Mutant: the request hash is not compared.
checkIdempotency_KeyOnly(k, p) ==
  IF idempotency[k] = NoRow THEN "miss"
  ELSE IF idempotency[k].expiresAt < clock THEN "miss" ELSE "hit"

checkIdempotency(k, p) ==
  IF idempotency[k] = NoRow THEN "miss"
  ELSE IF idempotency[k].expiresAt < clock THEN "miss"
  ELSE IF idempotency[k].requestHash # p THEN "conflict" ELSE "hit"

\* Mutant: the overlap query filters by leave type as well.
Overlaps_SameType(p) ==
  \E i \in Ids : /\ requests[i] # NoRow
                 /\ requests[i].status \in ActiveStatus
                 /\ AccountOf(requests[i].payload) = AccountOf(p)
                 /\ datesOverlap(p, requests[i].payload)

Overlaps(p) ==
  \E i \in Ids : /\ requests[i] # NoRow
                 /\ requests[i].status \in ActiveStatus
                 /\ requests[i].payload.lane = p.lane
                 /\ datesOverlap(p, requests[i].payload)

\* Mutant: expired records are replaced and only they guard the key.
KeyTaken_Unexpired(k) == idempotency[k] # NoRow /\ idempotency[k].expiresAt >= clock

KeyTaken(k) ==
  \/ \E i \in Ids : requests[i] # NoRow /\ requests[i].key = k
  \/ idempotency[k] # NoRow

\* Mutant: the recovery looks for a request that is still pending.
RequestsUnder_Pending(k) ==
  {i \in Ids : requests[i] # NoRow /\ requests[i].key = k /\ requests[i].status = "PENDING"}

RequestsUnder(k) == {i \in Ids : requests[i] # NoRow /\ requests[i].key = k}

-----------------------------------------------------------------------------
(* Ends of a call.  Respond answers a caller that holds no lock, Finish    *)
(* one that leaves _withCreateLock, whose finally block always releases.   *)

Respond(c, outcome, i) ==
  /\ pc' = [pc EXCEPT ![c] = "replied"]
  /\ reply' = [reply EXCEPT ![c] = [outcome |-> outcome, id |-> i]]
  /\ attempt' = [attempt EXCEPT ![c] = 1]
  /\ failure' = [failure EXCEPT ![c] = "none"]
  /\ UNCHANGED call

Release(c) ==
  createLocks' = [createLocks EXCEPT ![call[c].payload.lane] = Tail(@)]

\* Mutant: the lock is not released.
Finish_Holding(c, outcome, i) == UNCHANGED createLocks /\ Respond(c, outcome, i)

Finish(c, outcome, i) == Release(c) /\ Respond(c, outcome, i)

Goto(c, label) == pc' = [pc EXCEPT ![c] = label]

-----------------------------------------------------------------------------
(* createRequest *)

(* The HTTP call arrives and runs to its first await. *)
Submit(c, k, p) ==
  /\ pc[c] = "idle"
  /\ call' = [call EXCEPT ![c] = [key |-> k, payload |-> p]]
  /\ IF isNotInPast(p, today) /\ p.last >= p.first
       THEN /\ Goto(c, "check")
            /\ UNCHANGED reply
       ELSE /\ Goto(c, "replied")
            /\ reply' = [reply EXCEPT
                 ![c] = [outcome |-> "INVALID_DATE_RANGE", id |-> NoRow]]
  /\ UNCHANGED <<clock, database, createLocks, attempt, failure>>

(* The check made before the lock is asked for. *)
CheckIdempotency(c) ==
  /\ pc[c] = "check"
  /\ LET k == call[c].key  p == call[c].payload  result == checkIdempotency(k, p)
     IN \/ /\ result = "hit"
           /\ Respond(c, "cached", idempotency[k].responseBody)
        \/ /\ result = "conflict"
           /\ Respond(c, "IDEMPOTENCY_CONFLICT", NoRow)
        \/ /\ result = "miss"
           /\ Goto(c, "enqueue")
           /\ UNCHANGED <<call, attempt, failure, reply>>
  /\ UNCHANGED <<clock, database, createLocks>>

\* Mutant: a caller puts itself in front of the chain.
Enqueue_InFront(c) ==
  /\ pc[c] = "enqueue"
  /\ createLocks' = [createLocks EXCEPT ![call[c].payload.lane] = <<c>> \o @]
  /\ Goto(c, "queued")
  /\ UNCHANGED <<clock, database, call, attempt, failure, reply>>

(* _withCreateLock up to `await previous': join the lane's promise chain. *)
Enqueue(c) ==
  /\ pc[c] = "enqueue"
  /\ createLocks' = [createLocks EXCEPT ![call[c].payload.lane] = Append(@, c)]
  /\ Goto(c, "queued")
  /\ UNCHANGED <<clock, database, call, attempt, failure, reply>>

\* Mutant: the check made before the lock is taken to be enough.
LockedCheck_Skipped(c) ==
  /\ pc[c] = "queued"
  /\ Head(createLocks[call[c].payload.lane]) = c
  /\ Goto(c, "tx")
  /\ UNCHANGED <<clock, database, createLocks, call, attempt, failure, reply>>

(* `previous' has resolved when nobody is ahead; the callback re-checks.  *)
LockedCheck(c) ==
  /\ pc[c] = "queued"
  /\ Head(createLocks[call[c].payload.lane]) = c
  /\ LET k == call[c].key  p == call[c].payload  result == checkIdempotency(k, p)
     IN \/ /\ result = "hit"
           /\ Finish(c, "cached", idempotency[k].responseBody)
        \/ /\ result = "conflict"
           /\ Finish(c, "IDEMPOTENCY_CONFLICT", NoRow)
        \/ /\ result = "miss"
           /\ Goto(c, "tx")
           /\ UNCHANGED <<createLocks, call, attempt, failure, reply>>
  /\ UNCHANGED <<clock, database>>

(* The transaction reaches COMMIT: deduction, request and record at once. *)
TxCommit(c) ==
  LET k == call[c].key
      p == call[c].payload
      a == AccountOf(p)
      days == calculateDaysRequested(p)
  IN /\ pc[c] = "tx"
     /\ ~ Overlaps(p)
     /\ balances[a] # NoRow
     /\ CanDeduct(balances[a], days)
     /\ ~ KeyTaken(k)
     /\ balances' = [balances EXCEPT ![a] = atomicDeduct(@, days)]
     /\ \E i \in Ids :
          /\ requests[i] = NoRow
          /\ requests' = [requests EXCEPT
               ![i] = [key |-> k, payload |-> p, status |-> "PENDING"]]
          /\ idempotency' = [idempotency EXCEPT
               ![k] = [requestHash |-> p, responseBody |-> i,
                       expiresAt |-> clock + Ttl]]
          /\ Finish(c, "created", i)
     /\ UNCHANGED clock

(* A check inside the transaction throws: rollback, and the error is       *)
(* neither a constraint nor a contention error, so it goes to the caller.  *)
TxRefuse(c) ==
  LET p == call[c].payload
      b == balances[AccountOf(p)]
  IN /\ pc[c] = "tx"
     /\ \/ /\ Overlaps(p)
           /\ Finish(c, "OVERLAPPING_REQUEST", NoRow)
        \/ /\ ~ Overlaps(p)
           /\ b = NoRow
           /\ Finish(c, "BALANCE_NOT_FOUND", NoRow)
        \/ /\ ~ Overlaps(p)
           /\ b # NoRow
           /\ ~ CanDeduct(b, calculateDaysRequested(p))
           /\ Finish(c, "INSUFFICIENT_BALANCE", NoRow)
     /\ UNCHANGED <<clock, database>>

(* The insert meets the unique index on the idempotency key: rollback.     *)
TxConstraint(c) ==
  LET p == call[c].payload
      b == balances[AccountOf(p)]
  IN /\ pc[c] = "tx"
     /\ ~ Overlaps(p)
     /\ b # NoRow
     /\ CanDeduct(b, calculateDaysRequested(p))
     /\ KeyTaken(call[c].key)
     /\ Goto(c, "recoverCheck")
     /\ failure' = [failure EXCEPT ![c] = "constraint"]
     /\ UNCHANGED <<clock, database, createLocks, call, attempt, reply>>

(* SQLITE_BUSY and its kin: rollback and another attempt, or give up.      *)
TxTransient(c) ==
  /\ pc[c] = "tx"
  /\ IF attempt[c] < maxAttempts
       THEN /\ attempt' = [attempt EXCEPT ![c] = @ + 1]
            /\ UNCHANGED <<pc, failure>>
       ELSE /\ Goto(c, "recoverCheck")
            /\ failure' = [failure EXCEPT ![c] = "transient"]
            /\ UNCHANGED attempt
  /\ UNCHANGED <<clock, database, createLocks, call, reply>>

(* _recoverAfterConstraint, first read: the idempotency record.            *)
RecoverCheck(c) ==
  /\ pc[c] = "recoverCheck"
  /\ LET k == call[c].key  p == call[c].payload  result == checkIdempotency(k, p)
     IN \/ /\ result = "hit"
           /\ Finish(c, "cached", idempotency[k].responseBody)
        \/ /\ result = "conflict"
           /\ Finish(c, "IDEMPOTENCY_CONFLICT", NoRow)
        \/ /\ result = "miss"
           /\ Goto(c, "recoverFind")
           /\ UNCHANGED <<createLocks, call, attempt, failure, reply>>
  /\ UNCHANGED <<clock, database>>

(* Second read: the request under the same key, whatever its payload.      *)
RecoverFind(c) ==
  LET found == RequestsUnder(call[c].key)
  IN /\ pc[c] = "recoverFind"
     /\ \/ \E i \in found : Finish(c, "recovered", i)
        \/ /\ found = {}
           /\ failure[c] = "transient"
           /\ Finish(c, "BALANCE_CONFLICT", NoRow)
        \/ /\ found = {}
           /\ failure[c] = "constraint"
           /\ Finish(c, "INTERNAL", NoRow)
     /\ UNCHANGED <<clock, database>>

(* The response has left; the caller may call again.                       *)
Return(c) ==
  /\ pc[c] = "replied"
  /\ Goto(c, "idle")
  /\ call' = [call EXCEPT ![c] = NoRow]
  /\ reply' = [reply EXCEPT ![c] = [outcome |-> "none", id |-> NoRow]]
  /\ UNCHANGED <<clock, database, createLocks, attempt, failure>>

-----------------------------------------------------------------------------
(* approveRequest, rejectRequest, cancelRequest: each one transaction.     *)

Settle(i, status, mutate(_, _)) ==
  /\ requests[i] # NoRow
  /\ status \in VALID_TRANSITIONS[requests[i].status]
  /\ LET a == AccountOf(requests[i].payload)
         days == calculateDaysRequested(requests[i].payload)
     IN /\ balances[a] # NoRow
        /\ CanSettle(balances[a], days)
        /\ balances' = [balances EXCEPT ![a] = mutate(@, days)]
  /\ requests' = [requests EXCEPT ![i].status = status]
  /\ UNCHANGED <<clock, idempotency, createLocks, locals>>

approveRequest(i) == Settle(i, "APPROVED", finalizeUsed)
\* Mutant: a rejection uses the days up.
rejectRequest_Uses(i) == Settle(i, "REJECTED", finalizeUsed)

rejectRequest(i) == Settle(i, "REJECTED", releaseFromPending)
cancelRequest(i) == Settle(i, "CANCELLED", releaseFromPending)

(* POST /balances/admin/seed: inserts a balance that is not there yet.     *)
seedBalance(a, total) ==
  /\ balances[a] = NoRow
  /\ balances' = [balances EXCEPT ![a] = upsertBalance(total)]
  /\ UNCHANGED <<clock, requests, idempotency, createLocks, locals>>

Tick ==
  /\ clock < MaxClock
  /\ clock' = clock + 1
  /\ UNCHANGED <<database, createLocks, locals>>

(* The process dies and restarts: memory is gone, the database stays.      *)
Restart ==
  /\ createLocks' = [l \in Lanes |-> <<>>]
  /\ pc' = [c \in Clients |-> "idle"]
  /\ call' = [c \in Clients |-> NoRow]
  /\ attempt' = [c \in Clients |-> 1]
  /\ failure' = [c \in Clients |-> "none"]
  /\ reply' = [c \in Clients |-> [outcome |-> "none", id |-> NoRow]]
  /\ UNCHANGED <<clock, database>>

-----------------------------------------------------------------------------
Step(c) ==
  \/ CheckIdempotency(c) \/ Enqueue(c) \/ LockedCheck(c)
  \/ TxCommit(c) \/ TxRefuse(c) \/ TxConstraint(c) \/ TxTransient(c)
  \/ RecoverCheck(c) \/ RecoverFind(c)

Next ==
  \/ \E c \in Clients, k \in Keys, p \in Payloads : Submit(c, k, p)
  \/ \E c \in Clients : Step(c) \/ Return(c)
  \/ \E i \in Ids : approveRequest(i) \/ rejectRequest(i) \/ cancelRequest(i)
  \/ \E a \in Accounts, total \in Totals : seedBalance(a, total)
  \/ Tick
  \/ Restart

(* Every await of a call is eventually resumed by the event loop.          *)
Fairness == \A c \in Clients : WF_vars(Step(c))

Spec == Init /\ [][Next]_vars
FairSpec == Spec /\ Fairness

-----------------------------------------------------------------------------
StoredTypes ==
  /\ clock \in Nat
  /\ balances \in [Accounts -> Balance \cup {NoRow}]
  /\ requests \in [Ids -> Row \cup {NoRow}]
  /\ idempotency \in [Keys -> IdempotencyRecord \cup {NoRow}]

CallTypes ==
  /\ createLocks \in [Lanes -> Seq(Clients)]
  /\ pc \in [Clients -> InLane \cup {"idle", "check", "enqueue", "replied"}]
  /\ call \in [Clients -> [key : Keys, payload : Payloads] \cup {NoRow}]
  /\ attempt \in [Clients -> 1 .. maxAttempts]
  /\ failure \in [Clients -> {"none", "constraint", "transient"}]
  /\ reply \in [Clients -> Reply]

(* Types: every row and every local of a call is of the shape above.       *)
TypeOK == StoredTypes /\ CallTypes

(* available + pending + used = total on every balance row, through any    *)
(* interleaving of creations and settlements (BalanceService's header).    *)
BalanceInvariant ==
  \A a \in Accounts : balances[a] # NoRow => Balanced(balances[a])

(* The three counters of a balance row are what the requests say: pending  *)
(* holds the undecided days, used the approved ones, available the rest.   *)
CountersMatchRequests ==
  \A a \in Accounts : balances[a] # NoRow =>
    /\ balances[a].pending = DaysIn(requests, NoRow, a, {"PENDING"})
    /\ balances[a].used = DaysIn(requests, NoRow, a, {"APPROVED"})
    /\ balances[a].available =
         balances[a].total - DaysIn(requests, NoRow, a, ActiveStatus)

(* No two active requests of one employee at one location cover a common   *)
(* day, whichever callers created them and whatever their leave types      *)
(* (_assertNoOverlap inside the create transaction).                       *)
NoDoubleBooking ==
  \A i, j \in Ids :
    /\ i # j
    /\ requests[i] # NoRow /\ requests[j] # NoRow
    /\ requests[i].status \in ActiveStatus
    /\ requests[j].status \in ActiveStatus
    /\ requests[i].payload.lane = requests[j].payload.lane
    => ~ datesOverlap(requests[i].payload, requests[j].payload)

(* At most one caller is between the locked re-check and the release of a  *)
(* lane's lock, and it is the first of the lane's promise chain.           *)
LaneExclusion ==
  \A c \in Clients : pc[c] \in Critical =>
    /\ createLocks[call[c].payload.lane] # <<>>
    /\ Head(createLocks[call[c].payload.lane]) = c

(* Why LaneExclusion holds: the chain of a lane lists, each once, exactly  *)
(* the callers that joined it and have not released it, and only its first *)
(* can have gone past the wait.                                            *)
ChainMatchesCallers ==
  /\ \A c \in Clients : pc[c] # "idle" => call[c] # NoRow
  /\ \A l \in Lanes : \A m \in 1 .. Len(createLocks[l]) :
       /\ pc[createLocks[l][m]] \in InLane
       /\ call[createLocks[l][m]].payload.lane = l
       /\ pc[createLocks[l][m]] \in Critical => m = 1
       /\ \A n \in 1 .. Len(createLocks[l]) :
            createLocks[l][m] = createLocks[l][n] => m = n
  /\ \A c \in Clients : pc[c] \in InLane =>
       \E m \in 1 .. Len(createLocks[call[c].payload.lane]) :
         createLocks[call[c].payload.lane][m] = c

(* An idempotency key books once, for ever: expiry, retries, restarts and  *)
(* two lanes racing on one key included; and its record, committed with    *)
(* the request, shows that request and the hash it was made from.          *)
KeyBooksOnce ==
  /\ \A i, j \in Ids :
       requests[i] # NoRow /\ requests[j] # NoRow
         /\ requests[i].key = requests[j].key => i = j
  /\ \A k \in Keys : idempotency[k] # NoRow =>
       LET i == idempotency[k].responseBody
       IN /\ requests[i] # NoRow
          /\ requests[i].key = k
          /\ requests[i].payload = idempotency[k].requestHash
  /\ \A i \in Ids : requests[i] # NoRow => idempotency[requests[i].key] # NoRow

(* A caller told 201 has a request under its key; when the answer did not  *)
(* come from the recovery path's second read, made from its own payload.   *)
AcceptedIsBooked ==
  \A c \in Clients : reply[c].outcome \in Accepted =>
    LET i == reply[c].id
    IN /\ i \in Ids
       /\ requests[i] # NoRow
       /\ requests[i].key = call[c].key
       /\ reply[c].outcome # "recovered" =>
            requests[i].payload = call[c].payload

(* A constraint error is always explained: the recovery finds the request  *)
(* that holds the key, so the caller never gets the raw database error.    *)
ConstraintRecovers == \A c \in Clients : reply[c].outcome # "INTERNAL"

(* What a step may never do to a booking: drop it, change whose or what it *)
(* is, or move it out of a terminal status (VALID_TRANSITIONS).            *)
BookingsAreFinal ==
  [][\A i \in Ids : requests[i] # NoRow =>
       /\ requests'[i] # NoRow
       /\ requests'[i].key = requests[i].key
       /\ requests'[i].payload = requests[i].payload
       /\ requests[i].status # "PENDING" =>
            requests'[i].status = requests[i].status]_vars

(* A retry of a committed call is replayed, never refused, while its       *)
(* record lives: not for overlapping its own booking, not for the days it  *)
(* took itself.  The one exception is the date check at the head of        *)
(* createRequest, made before the key is looked up: a retry that arrives   *)
(* when the start date has become the past is told INVALID_DATE_RANGE.     *)
RetryIsReplayed ==
  [][\A c \in Clients :
       /\ reply[c].outcome = "none"
       /\ reply'[c].outcome \in Codes
       /\ checkIdempotency(call'[c].key, call'[c].payload) = "hit"
       => /\ reply'[c].outcome = "INVALID_DATE_RANGE"
          /\ ~ isNotInPast(call'[c].payload, today)]_vars

(* TimeOffService implements LeaveLedger: the grant of an account is the   *)
(* total of its row, everything else a step does is invisible there.       *)
Ledger == INSTANCE LeaveLedger WITH
  granted <- [a \in Accounts |->
                IF balances[a] = NoRow THEN NoRow ELSE balances[a].total]
ImplementsLedger == Ledger!Spec

(* Every call that reaches its lane is answered unless the process dies:   *)
(* the promise chain is released on every path and starves nobody.         *)
EveryCallAnswered ==
  \A c \in Clients :
    pc[c] \notin {"idle", "replied"} ~> pc[c] \in {"idle", "replied"}
=============================================================================
