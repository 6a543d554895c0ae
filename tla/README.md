# Time-off microservice: TLA+ models, checks and proofs

The repository is a NestJS service that books leave against local balances first
and tells an external HCM system later. These modules model its protocol: who may
change a balance, a request or a sync column, in which order, and what happens
when calls interleave, fail, expire or die half way. Paths below are relative to
the repository root.

## 1. Inventory

| Component | Code | State | Operations |
| --- | --- | --- | --- |
| TimeOffService | `src/modules/timeoff/` | `time_off_requests`, `idempotency_records`, `_createLocks` (a promise chain per employee:location), locals of every call in progress | create, approve, reject, cancel, get, list |
| BalanceService | `src/modules/balance/` | `employee_balances`: total, available, pending, used | deduct, release, finalize, upsert (seed), real-time update (no caller) |
| HCM notification and retry worker | `timeoff.service.js:518-638`, `hcm-sync.service.js:274-424` | `hcmSyncStatus`, `hcmValidated`, `hcmSyncAttempts` of each request; call chains in flight | create callback, approval callback, `retryPendingHcmSyncs` |
| Batch reconciliation | `hcm-sync.service.js:54-271, 436-447` | `_batchRunning`, `sync_logs`, the balance rows, the run's locals | cron run, manual trigger |
| HcmService, CircuitBreaker, withRetry | `hcm.service.js`, `circuit-breaker.util.js`, `retry.util.js` | breaker state, failure count, opening time; one retry loop per call | validate, notify, snapshot |
| External HCM | `mock-hcm/` | its own balances | validate, PUT balance, batch snapshot, injected failures |
| Database | TypeORM over SQLite | the four tables, unique indexes | transaction, find, save, update |
| Utilities used by tests only | `src/common/utils/` | locks, in-flight maps, windows, buckets, subscriptions | acquire and release, execute, begin and complete, check, consume, publish |
| Health, metrics, audit, logging, tracing, RBAC | `src/modules/health/`, `src/common/` | none that other parts read | reporting |

How they interact:

* `createRequest` checks its idempotency record without a lock, joins the promise
  chain of its lane, checks again, and runs one transaction that deducts the
  balance, inserts the request and inserts the record. After the commit it
  schedules an HCM validation.
* `approveRequest`, `rejectRequest` and `cancelRequest` are one transaction each,
  not under the lane lock. Approval schedules the HCM debit from inside its
  transaction.
* The callbacks and the retry worker share three columns of the request row. Each
  reads the row, waits for HCM, and overwrites the columns from what it read.
* The batch run reads HCM's snapshot and updates balance rows outside any
  transaction, beside everything above. Its read and its update of a row, and a
  transaction's find and its save of the row, may fall into the middle of each other.
* All HCM calls go through one breaker, retries outside it.
* HCM keeps its own total, lowers it with every debited approval and raises it with
  every grant; the batch compares it with the days the service tracks.
* Every statement of every handler goes through one SQLite connection, those made
  outside a transaction into whatever transaction is open.

What is hard here: awaits between a check and the write that relies on it; three
writers of the same columns; keys that expire while their unique index does not;
side effects scheduled before a commit; a guard flag and a promise chain that must
be released on every path; answers that come back to a breaker in another state; two
ledgers that count one entitlement differently; reads of what another call has not
committed; entries that expire under whoever still works on them; restarts, which
lose memory and keep rows. `PROJECT.json` lists each hazard at its
line with the properties that watch it.

## 2. Modules

| Module | Models |
| --- | --- |
| `Balances` | a balance row and the arithmetic of BalanceService's mutations |
| `LeaveRequests` | request statuses, transitions, date ranges |
| `TimeOffService` | the service, await by await (extends both) |
| `LeaveLedger` | the abstract specification of what the service promises |
| `Connection` | the service's transactions statement by statement on one connection (extends `Balances`, `LeaveRequests`) |
| `HcmSync` | HCM callbacks and the retry worker |
| `Reconciliation` | what the batch does to one row (extends `Balances`) |
| `BatchSync` | `runBatchSync` and the local transactions it crosses (extends `Reconciliation`) |
| `HcmLedger` | the service's row and HCM's record of one entitlement (extends `Reconciliation`) |
| `CircuitBreaker` | `_callWithResilience`: retry loop and shared breaker |
| `LockManager`, `RequestDeduplicator`, `IdempotencyManager`, `RateLimiter`, `TokenBucketLimiter` | the utilities of these names, on one key where keys are independent |
| `MC...` | TLC instances of the module they are named after |
| `FunctionSums` | sums of functions over finite sets, proved once |
| `..._proofs` | theorems about the module they are named after; `Utilities_proofs` about `MCUtilities` |

Operators named `X_Y` under a "Mutant" comment are broken variants of operator
`X`. No specification uses them: each shows, substituted for `X`, that some
property notices that mistake.

### TimeOffService

`balances`, `requests` and `idempotency` are the tables (`NoRow` where there is no
row), `createLocks` the promise chain of each lane as a queue, `clock` the wall
clock. `pc`, `call`, `attempt`, `failure` and `reply` are the locals of one
`createRequest` per client. One action runs from one await to the next:

| Action | Code (`timeoff.service.js`) |
| --- | --- |
| `Submit` | 89-115, up to the first await: the date checks |
| `CheckIdempotency` | 117-127, the unlocked check |
| `Enqueue`, `LockedCheck` | 688-697 and 131-138: join the chain; the callback's check once everyone ahead is done |
| `TxCommit`, `TxRefuse`, `TxConstraint`, `TxTransient` | 142-190: the transaction commits, throws a business error, meets a unique index, meets contention (tried three times) |
| `RecoverCheck`, `RecoverFind` | 214-244 and 709-724 |
| `Return` | the HTTP response leaves |
| `approveRequest`, `rejectRequest`, `cancelRequest` | one transaction each; a call the code refuses changes nothing and is no step |
| `seedBalance` | the seeding endpoint, for an account with no row |
| `Tick`, `Restart` | time; the process dies and comes back |

`Finish` is the way out of the locked section; it releases the chain, as the
`finally` block does.

Assumptions. A database transaction is one atomic step or leaves nothing: that is
what `dataSource.transaction` promises and what the code relies on; `Connection`
looks inside. The request hash is injective (the body
stands for it). A request's key is looked up with the employee left out of the
comparison, since the hash covers the employee. Amounts are whole days, which is
all `calculateDaysRequested` returns.

`LeaveLedger` has grants and bookings and nothing else: no counters, locks,
records, attempts or answers. `Reserve` is one atomic step that requires free
days, no overlap and an unused key. `ImplementsLedger` is the refinement: the
grant of an account is the total of its row, every other step is a stutter.

### Connection

`file` is the committed database, `view` what a statement on the connection sees;
`owner` is the handler whose transaction is open. A handler (`Sessions`) is a create
call or a settlement, one action per awaited statement, any two of which other
handlers' statements may separate. `Begin` is refused while a transaction is open:
that is the one thing isolation rests on, because on SQLite no lock is taken
(`timeoff.service.js:645`) and no update compares the version. `SaveBalance` writes
the entity found earlier. `Fault` is any statement failing, COMMIT included, `Restart`
a crash between any two statements. The checks outside transactions read `view`.

| Action | Code (`timeoff.service.js`, `balance.service.js`) |
| --- | --- |
| `CheckIdempotency`, `LockedCheck` | 117-138 |
| `Begin`, `Fault`, `Rollback`, `Handle` | 640-686: what is transient, what is tried again; 251-360 for settlements, which are not |
| `AssertNoOverlap`, `FindBalance`, `SaveBalance`, `InsertRequest`, `InsertRecord`, `Commit` | 142-190 |
| `FindRequest`, `SaveStatus`, `FindBalance`, `SaveBalance`, `Commit` | 251-360 |
| `RecoverCheck`, `RecoverFind` | 214-244, 709-724 |

SQLite and TypeORM are external. That a second BEGIN fails with an error the
service knows ("cannot start a transaction within a transaction") and leaves the
open transaction alone is taken from the code that expects it.

### HcmSync

A job is one chain of HCM calls with the snapshot of the row its handler holds.
`ValidateAnswer` and `PutAnswer` are the return of an HCM call together with the
update that follows it. `todo` is what a worker firing has selected and not yet
processed; two workers are two overlapping firings of the cron. `approving` holds
open approval transactions: the callback exists from then on (`setImmediate` at
line 272), the status changes at `ApproveCommit`, and `ApproveAbort` is a commit
the database refuses; the requests whose approval was rolled back are `lost`.
`debited` and `cleared` are HCM's side. A `PutAnswer` may have applied a debit that is
not acknowledged: the mock answers after 6 s to a caller that gives up after 5.

### Reconciliation, BatchSync

`Reconciled` is the update of `_reconcileRecord`, computed from the row that was read
and written over the row as it is now.

One run is `CronFires` or `DeferredRun`, `SaveLog`, `Fetch`, then per record
`ReadRecord` and `WriteRecord`, then `ListLocal`, `MarkMissing`, and `Complete` or
`Throw`. Local transactions are those of `TimeOffService`, reduced to what they do to
a row, one day at a time: `FindBalance`, `SaveBalance`, or `Rollback`. Nothing keeps
the two apart, so any of these steps may fall between any two of the batch's. A save
writes the columns that differ from what TypeORM finds when it looks again: that is the
whole entity as it was found before, or only the moved columns, and both are allowed.

`booked` and `race` are history. `booked` is what committed transactions have moved into
pending and used. `race` says, for each row, how stale copies were last used on it: the
batch wrote over a transaction, a transaction saved over the batch, or a run has
reconciled the row as it was since. No guard reads either.

`SeedBalance` is an upsert, its insert included: between a read that finds no row and the
insert, a row can only come into being, and then the unique index refuses the insert.
HCM's snapshot has each account at most once. A manual run whose log row cannot be
inserted rejects a promise nobody handles, which ends a Node process; that is `Restart`.
For the cron (`Scheduled`), the scheduler of `@nestjs/schedule` catches it.

### HcmLedger

One account on both sides: `balance` here, `record` in `mock-hcm/src/server.js`.

| Action | Code |
| --- | --- |
| `FindBalance`, `SaveBalance`, `Commit`, `Rollback` | the transactions of `timeoff.service.js:140-360` with the finds and saves of `balance.service.js:75-194`; an approval's debit is scheduled with its save (line 272), before the commit |
| `RetryApproval`, `Put` | the worker, without its attempt counter; a PUT that is applied, refused, or applied with its answer lost |
| `Debit`, `AnniversaryRefresh` | `server.js:174-204, 231-252` |
| `FetchSnapshot`, `ReadRecord`, `WriteRecord` | the batch: snapshot, `hcm-sync.service.js:189`, and the update at 210-271, with anything in between |
| `Restart` | the process dies; an open transaction is undone |

The row starts with any total that POST seed may give it, whatever HCM has. A rollback
undoes what the batch has written since BEGIN as well, as on the one connection it does.
The validation that precedes a PUT can only prevent it and is in `HcmSync`.

History: `entitled` is all that HCM has granted, `seen` the part granted before the last
snapshot that was applied, `settled` whether no stale copy of the row was used since a
batch last reconciled it as it was, and `unearned` the days that a seed, or a batch that
crossed a booking, has given out beyond HCM's grants. `debits` counts how often each
request was debited, twice included.

### The utilities

No part of the service calls them. Each module has the state of the class, one
action per method, and a clock. Tokens of `LockManager` are the callers that made
the acquisition. `RequestDeduplicator` and `IdempotencyManager` have history
variables that name whose entry a late deletion has hit: the code deletes by key
alone, and the properties say what is promised to everybody else. `RateLimiter`
counts the timestamps of its window by their time (`hits`): their order in the array only
serves `resetTimeMs`. `MCUtilities`
checks all five in one run; the initial state chooses which one moves.

### CircuitBreaker

One caller is one `_callWithResilience`: `Invoke`, then `Admit` or `FailFast`, then
`Succeed` or `Fail`, with `Wake` after the back-off of a retry. Time is in ticks:
`remaining` is what is left of the cooldown, `age` how long a call has been in
flight; a call in flight at its timeout must end before the next tick. A call is in
flight from the moment the breaker lets it through. `failureCount` is counted only
up to the threshold, which is all the code compares it with. `probes` is
a history variable that no guard reads.

## 3. Runs

Passing runs:

| Run | Shows | Distinct states |
| --- | --- | --- |
| `core` | balance sum, counters equal to what the requests say, no double booking, terminal statuses final, refinement of `LeaveLedger` | 744k |
| `lanes` | the lane lock excludes; a key books once although two lanes race for it; answers name the right booking; constraint errors are always explained; a retry is replayed, not refused for its own booking; every create call is answered | 151k |
| `connection` | what is committed agrees and books nobody twice, whatever statements interleave, fail or are cut short; "done" is true for ever; every transaction ends | 99k |
| `hcm_sync` | attempts stay in range, no debit without a validation and none without an approval that was at least begun, SKIPPED only for withdrawn requests, retrying ends; under an abort or a restart, lost answers and two workers | 318k |
| `hcm_ledger` | what HCM cannot pay of the approvals it has not been told of is bounded by wrong debits and unearned days; grants arrive as long as HCM has debited nothing | 1227k |
| `batch` | one run at a time; the balance sum until a stale copy is used; bookings survive; excess is flagged; COMPLETED covers the snapshot; the guard is released | 824k |
| `breaker` | the five breaker properties of section 6; HCM calls return; the breaker closes for good once HCM stays up | 76k |
| `utilities` | leases exclude, failures are not cached, fresh tasks are shared, keys stay in flight, windows and buckets are bounded | 32k |

Runs that are expected to find a violation. Each checks one sentence of the
repository against what the code does; `PROJECT.json` quotes both.

| Run | Says | The code |
| --- | --- | --- |
| `hcm_unacknowledged` | SUCCESS means upstream acknowledged | a late validation overwrites the approval's PENDING with SUCCESS |
| `hcm_ledger_accrual` | positive drift is a grant, and is added | HCM's total is lower by what it has debited: a grant after that is no positive drift |
| `batch_lost_update` | positive drift is applied atomically; available + pending + used = total | a deduction between read and write is lost from available |
| `connection_phantom` | a failed request leaves no phantom idempotency entry | a duplicate is answered 201 from a record that is later rolled back |

`BalanceInvariant` appears in both tables: `TimeOffService` keeps it, the batch does not.
What is left of it there is `AddsUpUntilRace`: a row adds up until a stale copy of that row
has been used. `AccrualsArrive` is the half of `AccrualsArriveFirst` that README states,
without the condition that HCM has debited nothing yet.

`ExcessIsFlagged` and `AccrualsArriveFirst` also say when they do not hold: from the use of
a stale copy to the next run that reconciles the row as it is. `BookedDaysSurvive`, and
`ApprovalsAreCovered` with its allowances, hold throughout.

`connection_phantom` reads a transaction's record before its COMMIT: the duplicate's
first check is outside the lane lock, and the connection shows it what the open
transaction has written. `hcm_ledger_accrual` says the two systems part over the
meaning of a total, and which of them is wrong is a matter for their owners.

Other places where the code and the documents part, seen while modelling and
visible in the actions, but with no run of their own:

* `timeoff.service.js:40-41` commits before any HCM communication, as `TRD.md:127-128`
  orders, and line 313 says that a PENDING request never touched HCM's balance.
  `approveRequest` schedules the callback before COMMIT is issued: when the commit
  fails, HCM may be debited for a request that stays PENDING and can then be cancelled
  or rejected, with no refund. That is why `DebitNeedsApproval` excepts `lost` requests
  and `ApprovalsAreCovered` allows for `Misdebited` days.
* `TRD.md:149` and `hcm-sync.service.js:29` say that nothing is reduced by itself. It is,
  when copies are stale: a save of an entity found before the batch's update writes the
  old total back; and after two withdrawals between the batch's read and its update
  the row tracks less than its total, so that a later, lower report counts as
  positive drift and its figure becomes the total. `AddsUpUntilRace` and
  `ExcessIsFlagged` carry the condition.
* `hcm-sync.service.js:442` says a batch is in progress whenever the guard is set. The
  guard is set before the log row is inserted and outside the `try`: when that insert
  fails no batch runs again before a restart. That is why `BatchEnds` starts after
  `SaveLog`.
* `event-bus.util.js` (not modelled) replays the whole history to a handler that
  subscribed for one event, and remembers only the first wrapper of a handler.
* `TRD.md:158` answers 409 when a key comes back with another hash. `RecoverFind`
  finds by key alone, so an expired key answers 201 with the old request.
* `idempotency-record.entity.js:18-20` promises a retry the original response.
  `Submit` refuses a past start date before any record is looked at.
* `hcm-sync.service.js:30` leaves rows HCM omits unchanged. `MarkMissing` flags them,
  as `TRD.md:150` wants.
* `README.md:124` opens the breaker on 5xx and timeouts. `Fail` counts 4xx as well.
* `README.md:131-134` speaks of one probe. `Admit` lets every caller through in
  HALF_OPEN; nothing reads `_halfOpenInFlight`.
* `hcm.service.js:18-20` puts the breaker outside the retries. It is inside them: each
  attempt counts.

## 4. Bounds, and why they are enough

* `core`: two callers, two keys, two request ids, one lane, two leave types, three
  bodies (two overlap across leave types, one follows), a total of 3 days that two
  bodies of one type exceed, two days of clock, records that expire after one tick.
  Every refusal, both settlements of both requests, a reuse of an expired key and
  a restart anywhere happen. Callers, keys and ids are symmetric.
* `lanes`: two callers, one key, three bodies: two on one lane that overlap, one on
  another lane. Both callers can be in their locked sections at once, or one behind
  the other. Two ids, so that a second booking has somewhere to go. No symmetry, since
  it checks liveness.
* `connection`: two handlers, so that every pair of create, approve, reject and cancel
  meets; three keys: two bodies of one employee, for two leave types, that share a day,
  and one of another employee that asks for more than the balance of 3. Three attempts,
  as in the code.
* `hcm_sync`: one request (requests share nothing but the worker's selection), two
  workers, a limit of 2 retries, one refused commit or restart (`MaxFaults`). The limit
  is 10 in the code; 2 leaves room for a snapshot one behind and two behind. `Limit`
  names how far beyond the limit the counter can go and why.
  With one request the selection of a firing never leaves anybody behind; two requests
  and two overlapping firings together are out of TLC's reach here.
* `hcm_ledger`: two requests of one day and an entitlement of 1, so that either takes all
  there is, which HCM may raise once (`MaxEntitled` 2); seeds below, at and above HCM's
  total; two debits of one request (`MaxDebits`: a second one happens, a third adds
  nothing to it). One transaction at a time, since BEGIN is refused while one is open.
  `hcm_ledger_accrual` needs no rollback, no second debit and no unequal seed.
* `batch`: two accounts, one with totals 1 and 2, one that HCM gives no days (so that
  it is created, omitted and marked, but never booked on); two runs, one of the cron and
  one deferred, with one pending trigger (`MaxTriggers`); days are booked one at a time, up
  to 2. No counter bounds the number of runs. `batch_lost_update` needs one account and
  no trigger.
* `breaker`: three callers, threshold 3, three attempts, timeout 2 ticks, cooldown 4
  (10 s and 30 s in the code, threshold 5). Three callers reach the threshold together
  or one after the other, and the cooldown outlasts a call that was let through last.
* `utilities`: `MaxClock` 6, which is twice the longest lifetime or window (1 to 3
  ticks), so that an entry expires, is replaced and the replacement expires. Three
  callers and three tasks: a holder, its successor and a third; two keys; two payloads.

`TypeOK` of `BatchSync`, `HcmLedger` and `Connection` is in no run's list: it is proved
(`TypeCorrect`), as the first part of an inductive invariant.

Deadlock is checked except in `HcmSync`, where a history of settled requests has
nothing left to do.

## 5. Fairness

* `lanes`: weak fairness of each caller's steps, since every await of a call is on the
  database or on the chain and the event loop resumes it. Submitting, the response,
  settlements, time and restarts are not fair.
* `connection`: every awaited statement is answered by the driver, well or badly.
* `hcm_sync`: HCM calls end (both axios and the breaker time them out), an open
  transaction commits or is refused, and the cron fires. HCM may answer `null` for ever.
* `batch`: every HCM call and statement comes back, well or badly.
* `breaker`: timers fire, time passes, and somebody goes on calling HCM (the
  nightly batch does). HCM flips freely; `Recovers` only speaks of behaviours where
  it stops being down and refusing (a refusal counts as a failure).

## 6. Proofs

36 theorems in seven modules. They hold for every value of the constants that meets
the assumptions named in the modules: `Ids`, `Keys` and `Requests` are finite, `NoRow`
and `None` are no values, days and totals are natural numbers, a breaker's timeout is
shorter than its cooldown, a request may be tried at least once. TLC evaluates each
of them in a run.

**TimeOffService.** Three invariants, each on top of the one before.

* `IInv == TypeOK /\ ChainMatchesCallers` gives `TypeOK` and `LaneExclusion`.
  `LaneExclusion` alone is not inductive: after the head of a chain leaves, nothing
  says that the next in the queue is not already past its wait. `ChainMatchesCallers`
  adds that a chain lists, once each, exactly the callers that joined and did not
  release, each in its own lane, and that only the first can be past the wait.
* The three table invariants, `BalanceInvariant`, `NoDoubleBooking` and `KeyBooksOnce`,
  and `BookingsAreFinal` do not look at callers: `Writers` says which actions write
  which table, `SettleEffect` and `CommitEffect` what they do to it. They hold however
  the lane lock behaves, because the transaction checks again. That is worth knowing:
  for these the lock only avoids contention.
* `CInv` says what is true of a call at each of its awaits, and gives
  `AcceptedIsBooked`, `ConstraintRecovers` and `RetryIsReplayed`. Here the lock matters:
  a caller that found no record under the lock cannot be overtaken by a booking of
  its own key and body, because whoever could make it waits in the same lane; so a
  unique index it meets is explained by something that is still there when it looks.
* `CountersAreExact` adds that a row exists wherever a request was booked on it. A
  transaction moves one request in or out of one sum and one counter by as many days.
  `ServiceImplementsLedger` then maps every step to a step or a stutter of `LeaveLedger`;
  the free days of an account there are the row's `available` here, which only the
  counters' exactness shows.

**Connection.** `CInv` says that only the owner is inside a transaction, that a booking
past its overlap check still overlaps nothing committed, that `view` is `file` when nobody
is, and is otherwise `file` with exactly those statements of the owner applied that its
`pc` has passed (`TxState`). COMMIT then puts a complete transaction into the file,
whatever statements of other handlers fell in between, and `TablesAgree` and
`DoneIsDurable` follow. `DoneIsDurable` is inductive only with it.

**HcmSync.** Jobs and workers act on copies of rows. `HInv` keeps of a copy what does
not cease to hold: that HCM has validated the request, that its approval was at least
begun, that it was withdrawn. The columns themselves do go back, which is what
`hcm_unacknowledged` shows. The range of `hcmSyncAttempts` needs a count of its own: one
attempt above the limit for each approval, and one approval for each fault and a last one.

**BatchSync.** `BInv` (types, turns, what a run in its loop knows, what a transaction has
found, and `BookedDaysSurvive`) gives `OneRun`, `CompletedCovers` and
`BookedDaysSurvive`. The last holds through every crossing because the batch writes its
columns by name and pending and used are not among them, and because only one
transaction is open: what it found in those two columns is still there when it saves.
`RowsRight` adds `AddsUpUntilRace` and `ExcessIsFlagged`. No theorem assumes that reads and
writes do not cross; those two properties say for which rows they have.

**HcmLedger.** An account of where the granted days are: HCM's total and what it debited
make up `entitled`; what the row tracks exceeds that by `unearned` at most, and the days
used are the approved ones. A request not debited can therefore be paid, but for wrong
debits and unearned days. Since a rollback brings back the row it found, with the status of its
request, all this must also hold of what an open transaction has found (`FoundRight`).
`AccrualsArriveFirst` is the case where nothing was debited and no stale copy is in the way.

**The utilities.** For each the one fact that a late release, deletion or completion
must leave alone: who holds a live lease owns the lock (`LocksInv`); the entry of a
running task ends when that task's time does (`TaskingInv`); of one key there is at
most one undisturbed handler in time (`StoredInv`); the timestamps a limiter keeps are
the calls it let through, as far back as a window reaches (`WindowInv`); what was spent
since any moment, and what is left, is at most what was allowed since (`BucketInv`).

**CircuitBreaker.** `TypeOK`, `ClosedIsHealthy`, `ProbesDecide`, `QuietWhileOpen`,
`OpenWaits`. `ProbesDecide` is not inductive alone: that nothing older is in flight when
the first probe goes out follows from `QuietWhileOpen` (a call in flight is as old as
the opening) and from no call outliving its timeout.

**FunctionSums.** The counters, books and windows above are sums over finite sets,
folds of the community modules. This module proves the fold's equation for sums (a
sum is that of all but one, and that one) and from it that sums add, split over
disjoint sets, grow with the set, and change by what one member changes. The
library's induction theorems take an operator as a parameter, which the provers
cannot instantiate; each induction is a minimal counterexample instead.

Only model-checked: liveness (`EveryCallAnswered`, `RetriesEnd`, `BatchEnds`,
`TransactionsClose`, `EveryCallReturns`, `Recovers`), which the provers do not reach under
fairness. Every invariant and every action property of the passing runs is proved;
the violation runs need no proof.

## 7. Not modelled, and why

* TypeORM: what it does with a transaction begun inside another one, its savepoints
  and its version columns. `Connection` has what the service's code expects of it.
* A write outside transactions that runs while a handler's transaction is open, and is
  rolled back with it: `HcmLedger` has this for the batch's update of the row. `HcmSync`
  and `BatchSync` take the writes of callbacks, seeds and runs as durable, and in
  `BatchSync` a transaction saves and commits in one step.
* In `BatchSync` and `HcmLedger` BEGIN and the find are one step, and the saves of request
  and balance another; an update of the batch between TypeORM's second look at a row and
  its UPDATE counts as the case where only the moved columns are written.
* Reads with no effect on state (get, list, health, logs), formatting, logging,
  validation of bodies, rate limiting by express.
* `notifyRejection`, `CircuitBreaker.reset`: no caller. `applyHcmRealTimeUpdate` has no
  caller either; it is `Reconciled` with read and write in one transaction.
* `EventBus`: synchronous, and nothing publishes. `CircuitBreakerState`, the back-off
  and date helpers: pure or used by unit tests only.
* HCM debiting twice for one approval: the model shows it can (`debits` reaches 2),
  and no sentence of the repository says it cannot, so no property forbids it;
  `ApprovalsAreCovered` counts it among the wrong debits.
* Of the mock HCM: `POST /hcm/time-off` and REJECT, which the service never sends, and
  the endpoints that set up tests.

## 8. Plan

Modelled and checked: everything of section 2. Proved: every safety property of the
passing runs, and the refinement of `LeaveLedger`.

What is left:

1. A refinement between `Connection` and `LeaveLedger`: the statements of a
   transaction as stutters, COMMIT as the step.
2. A hazard that has no property for lack of a model: the worker's selection of fifty
   rows, where rows with fewer attempts keep coming in front of others. The other
   hazards without a property are those that go wrong in the code; their notes in
   `PROJECT.json` and section 3 say how.
3. `HcmSync` and `BatchSync` with writes that another handler's rollback undoes.
