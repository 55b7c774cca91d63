# A TLA+ model of drviercar

drviercar runs road tests of automated vehicles and the data loop fed by them:
an HTTP service in Go over one SQLite file. This directory holds a TLA+ model of
its core, the TLC configurations that check the model on small instances, and
machine-checked proofs of its safety properties. Paths below are
relative to the repository; a line number points at the code a statement is about.

## 1. The system

All state is rows of one SQLite database. A handler of the HTTP API calls one
method of a service; the method runs its body inside `Store.WithTx`
(`internal/storage/sqlite/db.go`), which takes a process-wide mutex, begins a
transaction, and commits or rolls back as a whole. Every accepted change also
writes an audit event in the same transaction. Four things happen outside that
discipline, and they are where concurrency bites: reads made before the
transaction (the idempotency key of a shift, the key of an upload), methods made
of several transactions (batch abort, the job dispatcher), writes on a plain
connection (`last_seen_at` of a session), and the loss of the context of a
request (timeout middleware, client gone, shutdown), which makes the next
transaction fail.

| Component | State | Operations | Hard behaviour | Correct when |
| --- | --- | --- | --- | --- |
| campaigns (`service/fleet/campaign.go`) | status, planned and committed mileage, window | create, transition | settling and closing race shift creation; closing reads one page | an open shift is in an open campaign; a closed campaign is settled and stays as it is |
| vehicles (`campaign.go`, `vehicle_repo.go`) | status, odometer | register; written by shift and drive handlers | four handlers write the status | held by one open shift at most; odometer is the distance driven |
| assignments (`service/fleet/assignment.go`) | a shift: campaign, vehicle, operator, mileage, window, key | create, abort, batch abort | key looked up outside the transaction; batch of transactions; retry | one shift per key; no double booking; quota is the sum of the shifts; a batch reports what it did |
| drives and takeovers (`service/fleet/drive.go`) | sessions, mileage, takeover events | start, mileage, takeover, resolve, close | mileage from two handlers; abort against a running drive | one session per started shift; autonomous mileage within plan |
| settlements (`service/fleet/settlement.go`) | mileage, penalty, status | settle, approve | figures are copied once while takeovers and tickets go on changing | one per completed shift, from its session; billing within the campaign's plan, rounding aside |
| audit (`internal/audit`) | events | written by every handler | separate insert | events and rows agree: what was created, where each row is in its life, who was logged in and why sessions ended |
| job queue (`internal/worker`, `job_repo.go`) | `worker_jobs`, dispatcher loops | enqueue, claim, run, retry, release, stop | cancellation and crash between claim, run and mark | one holder per job; final verdicts; no job lost |
| job handlers (`worker/handlers.go`) | tables of the others | purge, escalate, archive | run beside the services | see data loop, sessions |
| capture batches (`service/dataloop/ingest.go`) | batches, frames | upload, validate | upload key looked up outside the transaction | one batch per key; counts match frames |
| triage (`triage.go`) | tickets | open, investigate, decide | block settlement and seal, but only at one moment | a settled drive had no pending ticket when it was settled |
| fleet and data loop together | drives, tickets, settlements, data sets | the chain from a shift to a released data set | each chain checks the other at one moment only; abort does not look at data, upload not at shifts | undecided tickets block settlement and seal; data comes from drives that took place |
| datasets (`dataset.go`) | members, digest, seal and release moments | create, add, remove, seal, release | members change under a building dataset; release does not look again | a sealed dataset has eligible frames only |
| auth (`service/auth`, `httpapi/auth_handlers.go`) | operators, sessions | register, login, authenticate, logout, revoke, purge | a write outside the mutex; several reads for one decision; logins and requests in flight while sessions end | a session that had ended authenticates nobody and is never revived; the trail tells why it ended |
| idempotency manager (`internal/idem`) | keys, stored responses | begin, finish | no service calls it | - |
| storage (`db.go`, `migrate.go`) | schema version, mutex, connections, transactions | WithTx, migrate | snapshots, busy errors, a write beside the mutex, crash between migrations | atomic and serialised; served only with the schema of the build |
| process (`cmd/server/main.go`) | phase of `run()` | start, serve, signal, shutdown, exit | a shutdown that times out with requests still holding what the dispatcher needs | it ends after a signal |
| http, middleware, config, logging, clock, pages | request context | timeout, recovery | context ends anywhere | - |

`PROJECT.json` lists each of them with its status, and under `hazards` what is
hard to test in them, at the line where it bites.

## 2. What is modelled, and how it corresponds to the code

`Tables` — a table as a function from the ids of its rows to the rows, and the
insertion of a row under the next id. Used by the modules with tables.

`FleetDomain` — `internal/domain`: the five state machines as sets of pairs, the
checks an entity makes on itself, half-open windows, capacity, the penalty and
the billable mileage, rounded to hundredths (`Round2`). Operators only. Its transition sets contain states no
production code writes (a vehicle in maintenance or retired, a paused or
discarded session, a rejected settlement): they stay in the sets and no action
reaches them, as in the code.

`Fleet` — `internal/service/fleet` over its tables. One variable per table (a
function from the ids of its rows to rows), the audit events as a set, and the
clock. One action per handler, which is the commit of the handler's transaction:
`CreateCampaign`, `TransitionCampaign`, `RegisterVehicle`, `CreateAssignment`,
`AbortAssignment`, `StartDrive`, `ReportMileage`, `ReportTakeover`,
`ResolveTakeover`, `CloseDrive`, `SettleAssignment`, `ApproveSettlement`. Guards
are the handler's checks including role checks and what the UNIQUE indices and
the conditional UPDATEs refuse; a refused request rolls back and is a stuttering
step. Queries of the repositories are operators (`OpenForVehicle`,
`CompletedByCampaign`, `UnresolvedCritical`, ...). `SettleAssignment` takes the
drives with pending triage tickets as an arbitrary set, because the data loop
may change tickets between any two transactions.

`VehicleLease` — the abstract promise about vehicles: a shift reserves a vehicle
that nobody has, drives off with it, gives it back and never gets it again.
`Fleet` implements it (`ImplementsVehicleLease`) under a mapping that takes the
holder of a vehicle from the shifts and whether it is out from the row of the
vehicle, which other statements of the handlers write: a handler that forgets one
of the two, or writes it in a transaction of its own, maps to no step.

`FleetCalls` — extends `Fleet` with requests in flight. `CreateAssignment`
becomes `BeginCall` (the lookup of the key at `assignment.go:53`, on its own
connection), then `CommitCall` or `RefuseCall` (the transaction), then
`ReplyToCall`; `CancelCall` ends the context between. `BatchAbortAssignments`
becomes `BeginBatch`, one of `BatchApplyItem`, `BatchRejectItem`,
`BatchCancelItem` per item, `CancelBatch` between two, `FinishBatch` with a
report or with the error of the context, `ReplyToBatch`. `Restart` stops the
process and starts it on the same database. All other handlers run beside them.
`FleetCalls` implements `Fleet`: it is checked (property `Spec`) and proved
(`CallsImplementFleet`) that concurrency, cancellation and restarts add no
behaviour of the tables that the one-transaction handlers do not have. The
tables are the same variables in both, so the refinement mapping is the identity.

`JobQueue` — `internal/worker/dispatcher.go` and `job_repo.go`. The rows of
`worker_jobs`; per dispatcher its place in the loop, the jobs it has claimed and
not dealt with, the verdict about to be written, and whether its context is
cancelled or its done channel closed; and a count of how often a handler was
called with a job. `ClaimDue` is the claiming transaction; `ReleaseJob`,
`StartJob`, `HandlerReturns`, `MarkJob`, `MarkFails` are the parts of the loop
over the claimed jobs, `EndRun` and `LoopExits` the ticker loop. A handler may
return success, an error or a permanent error. `Cancel`, `Stop`, `Crash` and
`Restart` come at any point. The ticker may fire, and a run begin, whenever the
loop is idle. Two dispatchers on one
table are two loops in one process, serialised by `WithTx`, or two processes,
serialised by SQLite, whose stale reader fails to write; both make a claim atomic.

`DataLoop` — `internal/service/dataloop`, the entities it works on, and the two
jobs of `worker/handlers.go` that write its tables. One variable per table
(`dataset_members` is the set `members` of a data set; the seal digest is the set
it was taken of), the audit events, and the uploads in flight. `UploadBatch` is
`BeginUpload` (the lookup of the key at `ingest.go:59`, on its own connection),
then `CommitUpload` (the transaction) or `FailUpload` (refused, or its context
ended: both leave nothing), then `ReplyToUpload`; `Restart` forgets all requests.
Every other handler is one transaction and one action: `ValidateBatch`,
`RejectBatch`, `AssignTicket`, `StartInvestigation`, `DisposeTicket`,
`CreateDataset`, `AddFrames`, `RemoveFrame`, `SealDataset`, `ReleaseDataset`, and
the jobs `ArchiveBatch` and `EscalateOverdueTriage`, which may run at any moment
although no production code enqueues them yet. `ValidateBatch` passes through the
status `validating` inside its transaction, so no state shows it; nothing writes
an archived ticket or a retired data set. A frame is named by its batch and its
place in it. Of the drives it needs the operator, which never changes and which
the fleet writes: the variable `driveOperator`, written by `DriveStarts` at any
moment (no production code discards a drive).

`Platform` — `Fleet` and `DataLoop` composed on one database: it extends the one and
instantiates the other, whose tables are variables beside those of the fleet. A step is a handler of one of the two with
the tables of the other unchanged. `driveOperator` of `DataLoop` is the column of
the drives of `Fleet`, and the drives with undecided tickets, arbitrary in `Fleet`,
are those that `CountPendingByDrive` finds in the tickets of `DataLoop`. They share
the clock and write disjoint kinds of audit events.

`Sessions` — `internal/service/auth`, the `Authenticate` middleware, the handlers
of `auth_handlers.go`, the purge job and the bootstrap account. Tables `operators`
and `sessions` with the counter of AUTOINCREMENT, the audit events, the requests in
flight, the clock. A login is `BeginLogin` (operator and password read, clock read)
and `CommitLogin`; a request is `Arrive`, `ReadSession`, `CheckSession` (on the row
that was read, with a clock that is read later), `TouchLastSeen` (a statement of
its own, outside `WithTx`), then its handler: `Logout`, `RevokeOperatorSessions`,
`Register`, or one of another service (`EndRequest`). A revocation reads the clock
twice, for `revoked_at` (`auth/service.go:220`, `239`) and for the event
(`recorder.go:52`), so it takes two steps: `BeginRevocation` enters the transaction
and reads the first, `Logout` or `RevokeOperatorSessions` reads the second and
commits. In between it holds the mutex of `WithTx` (`MutexIsFree` guards the other
transactions), while reads, `TouchLastSeen`, the purge and the clock go on beside
it. `PurgeSessions` and `Restart` come at any moment. A token is the id of its
session. The middleware takes any spelling of `Bearer` and `handleLogout` only that
one; a logout spelled otherwise changes nothing and counts among the asks of other
services. `wasUsable` in a request is a history variable, used by
`AuthenticatedWasUsable` only.

`SerialStore` — the abstract storage the other modules take for granted: one whole
write after the other, each made on what all before it left.

`TxStore` — `Store` of `db.go` and what runs on it. The log of commits (what each
had seen, what it wrote), the holder of SQLite's write lock, the holder of
`writeMu`, and for each client where it is, its snapshot and what it has written.
A request is authenticated (`Authenticate`, `TouchLastSeen`: a connection, and the
write lock without the mutex) and then runs `EnterWithTx`, `LockWriteMu`, `BeginTx`,
`Read` and `Write` in any order, `Commit` or `Rollback`; the dispatcher runs
`WithTx` only. SQLite is external and modelled as the code uses it: deferred
transactions read a snapshot, one connection writes, an upgrade from an old
snapshot or against another writer is refused at once. `TxStore` implements
`SerialStore` (`ImplementsSerialStore`).

`Server` — extends `TxStore` with the process: `Start` of some build of the
program, `ApplyMigration` one by one, `StartFails` on an unknown version, `Serve`,
`Signal` or `ListenFails`, `Drained` or `DrainTimesOut` (`http.Server.Shutdown`),
`Exit` once the dispatcher's loop has ended, and `Crash` at any moment.

### Abstractions

- Mileage is a natural number of units, `Hundredth` of them to 0.01 km, for any
  `Hundredth`; the runs count metres (10). Rounding to the nearest hundredth is
  modelled (`Round2`): 1.006 km are billed as 1.01. What binary floating point adds
  to sums and roundings is left out.
- Moments are naturals; only their order and distance matter. Outside `Sessions`
  nothing compares two readings of the clock in one transaction, and one stands for both.
- Names, codes, plates, notes and details are left out, and with them the
  uniqueness of campaign codes and plates. A settlement's note is one Boolean,
  because `ApproveSettlement` demands one when there are critical events.
- The optimistic `version` columns are left out: inside a transaction that no other
  writer can enter (`ImplementsSerialStore`), the version read is the version written.
- Operators are constants of `Fleet` and `DataLoop`; no production code disables one.
- Quality is in percent, so that the floor of 0.55 and the thresholds of severity
  are integers; deadlines are in hours. That a manifest matches its frames, that
  their sequences differ and that each is valid is one Boolean of an upload.
- The moments of upload, validation, seal and release, names, reasons and
  conclusions are left out of `DataLoop`; no code of it reads them back.
- Storage errors other than a cancelled context are left out: they roll back and
  are the same stuttering step as any refusal.
- Metrics of the dispatcher are left out; nothing reads them.
- Listing and get operations only read.
- Passwords are right or the login does not begin; digests stand for what they digest.
- In `TxStore` a write is which of the statements of a transaction were made, not
  the rows; a context may end, and a busy handler give up, at any step.
- At most one process uses the database at a time in `Server`.

## 3. Runs

Every run explores all reachable states of its instance. Keys, calls, batches,
uploads, requests and dispatchers are interchangeable, which the symmetry of the safety runs uses;
the liveness runs use none.

| Run | Instance | Checks |
| --- | --- | --- |
| `planning` | `MCFleet`, 2 campaigns, 2 vehicles, 2 drivers, 3 shifts, clock 0..1, shifts that overlap, touch, exceed the quota, leave the window, ask for nothing | `VehicleHeldByOneShift`, `OneDrivePerStartedShift`, `QuotaLedger`, `NoOperatorDoubleBooked`, `OpenShiftsOnlyInOpenCampaigns`, `ImplementsVehicleLease` (270 597 states) |
| `driving` | 1 vehicle, two successive shifts, 2 takeovers on both sides of the critical threshold, one invalid, telemetry of 0, 0.506, 1.003 and 2.006 km (two plans that end on a metre, one mileage that rounds up and one down), clock 0..2 | `TypeOK`, `OdometerEqualsClosedDrives`, `AutoKmWithinPlan`, `BillableWithinCampaignPlan`, `SettlementMatchesDrive`, `OneSettlementPerCompletedShift`, `ClosedCampaignIsSettled`, `AuditTrail`, `BooksFinal` (524 254) |
| `page` | 2 shifts of 2 vehicles driven and settled, page of 1 | finds `SettledCampaignCanClose` violated |
| `calls` | `MCFleetCalls`, 2 requests at a time, 2 keys, 2 shifts, beside a batch abort of both; fair | `OneShiftPerKey`, `RequestsFinish` (467 545) |
| `batches` | 2 batches at a time over overlapping lists, one naming a shift twice, beside a request | `BatchOutcomeHonest`, `Spec` (287 271) |
| `platform` | `MCPlatform`, 2 successive shifts of one vehicle and driver, their 2 drives, 1 batch of either of a good frame and a bad one, 1 data set, clock 0..1 | `TicketsBlock`, `DataComesFromDrives` (308 664) |
| `curation` | `MCDataLoop`, 2 uploads at a time, 2 keys, one request too long; 2 batches of one drive, one with a bad and a good frame, one with a bad frame of another severity; 1 data set, clock 0 or 5 hours | `SealedDataIsTriaged`, `QuarantineIsDecided`, `CountersMatchRows`, `OneBatchPerUploadKey`, `LoopAuditTrail`, `SealIsFinal`, `ArchivedIsFinal` (551 979) |
| `claims` | `MCJobQueue`, 2 dispatchers, 2 jobs of at most 2 attempts, one restart, clock 0..2 | `OneHolderPerJob`, `RunsWithinAttempts`, `VerdictIsFinal`, `OnlyInterruptionOrphansJobs` (719 471) |
| `jobs_progress` | 1 dispatcher, 3 jobs in batches of 2, a kind without a handler, default attempts, fair | `JobsAreDealtWith`, `StopReturns` (87 678) |
| `stopping` | 1 dispatcher, no crash needed | finds `StoppingLosesNoJob` violated |
| `sessions` | `MCSessions`, 2 requests at a time, the bootstrap account and one that it may register, 2 sessions, a validity of 1, clock 0..2 | `AuthenticatedWasUsable`, `SessionAuditTrail`, `SessionsOnlyEnd` (2 423 484) |
| `serving` | `MCServer`, 3 requests at a time and the dispatcher, 2 connections, 8 commits, two builds of 2 and 3 migrations; fair | `ServesItsSchema`, `ImplementsSerialStore`, `ShutdownEnds` (247 151) |

**Why the bounds are enough.** The invariants of `Fleet` relate at most two rows
of a kind (two shifts of a vehicle or operator, a shift and its session, a shift
and its settlement) and sums over rows; two shifts that compete and a third that
comes after reach each case. Where a sum could hide behind small numbers
(`QuotaLedger`, `BillableWithinCampaignPlan`) the plans are chosen so that the
shifts do not all fit, and in `driving` the rounding takes the bill above the plan (2.512 km
planned, 2.52 billed), so the slack of `BillableWithinCampaignPlan` is needed. `MaxPageSize` is 100 in the code: with two shifts a page of
100 never fills, so `page` uses 1, which is the same situation as 101 completed
shifts. In `curation` both batches are of one drive, because seal, archive and settlement
ask for the undecided tickets of a drive: a ticket of one batch blocks the other.
At 5 hours one of the two tickets is overdue if it was opened at 0 and the other
is not. `MaxFrames` is 2 for 500, and three frames are too many; the conclusions
are one that asks for a hold and one that does not. In `claims`, two attempts let a job fail, be due again, be released and
be exhausted; the clock reaches the end of the backoff. In `platform` one batch is
enough for a ticket opened before, between and after the settlement of its drive,
and the second shift is there to be aborted, settled or driven beside it; telemetry
and takeovers are left to `driving`. In `sessions` one session can end
in each way while the other is used, and a request can outlive the validity of its
session between any two of its steps. In `serving` three requests and the
dispatcher are one client more than two connections and the mutex serve: one waits
for the mutex, one for a connection, one in the busy handler; eight commits make
old snapshots; the older build meets the database of the newer one. The bounds on
ids, time, commits and restarts are the only bounds; they appear in the guards of the actions that
create rows, `Tick` and `Restart`. In runs with `CHECK_DEADLOCK FALSE` the
instance stops when its rows and its clock are used up. Each property is also
shown to depend on the code: for each there is an altered form of a definition,
kept beside it and named after what is altered (an abort that keeps the mileage,
`DueJobs` that also takes running jobs, ...), under which TLC finds the property
violated.

The type invariants of `FleetCalls`, `JobQueue`, `DataLoop`, `Sessions` and `Server`
say what well-formed states are; all but that of `Server` are proved, and the runs
spend their time on the other properties.

### Fairness

`CallsFairness` is weak fairness of the steps a request in flight takes by
itself. It stands for the Go scheduler and for the mutex of `WithTx`, which Go
hands to a waiter that has waited for a millisecond. `FleetCalls` has neither the
mutex nor the connections, so `RequestsFinish` says nothing of the wait for them: it says that a
call or a batch comes to an end once its steps are taken. Who waits for whom is the
subject of `TxStore` (`ShutdownEnds`). Nothing is assumed of clients, timeouts or other handlers; `RequestsFinish` holds although
they may do nothing or run for ever beside the request.

`Fairness` of `JobQueue` is weak fairness of each dispatcher's own steps (its
ticker fires, its handlers return) and strong fairness of `LoopExits`: `select`
in the loop picks at random between the ticker and the done channel, so the exit
may be passed over any number of times but not for ever. Nothing is assumed of
signals, crashes or the clock. `JobsAreDealtWith` excludes interrupted
dispatchers because of what `stopping` shows.

`ServerFairness` is weak fairness of what each client does by itself (goroutines
run, the mutex and the pool serve who waits), weak fairness of the end of
`Shutdown`, which has a timeout, and strong fairness of `Exit`: the dispatcher has
finitely many claimed jobs to mark or release when its loop is told to end, each in
a transaction of its own, so it is between two of them again and again and at last
for good. No request need end, nor any build start.

## 4. Where the code and its text disagree

- **A settled campaign that cannot be closed** (`page`).
  `ensureAllSettlementsApproved` (`campaign.go:189`) reads one page of 100
  completed shifts and refuses to close when there are more. No later step can
  reduce their number.
- **A job lost by an orderly stop** (`stopping`). Released jobs are written under a
  context of their own, but the verdict of the job being run is written under the
  cancelled one (`dispatcher.go:208-240`). It fails, the row stays `running`, and
  nothing ever claims a running row again.

Met while reading, and not the subject of a run:

- A retry that looks up its key (`assignment.go:53`) while the first request is in
  flight is refused in its own transaction (vehicle no longer idle, or the unique
  index) although the shift it asks for exists by then, where the test at
  `fleet_test.go:108` says the same key returns the same assignment. The duplicate
  is prevented (`OneShiftPerKey`). An upload that loses the race for its key is
  refused in the same way.
- When the context ends between two items, `BatchAbortAssignments`
  (`assignment.go:302`) returns only the error, and the items already aborted are
  not reported, where its comment says it reports the outcome of every item.
- `db.go:34-36` says the mutex keeps the busy handler from ever being reached;
  `TouchLastSeen` writes beside the mutex, so it waits in that handler while a
  transaction writes, and may make a transaction that has only read fail at its
  first write. What is committed is serial all the same (`ImplementsSerialStore`).
- The middleware accepts `bearer` in any case and `handleLogout` strips `Bearer `
  only (`auth_handlers.go:54`): a logout spelled otherwise is authenticated and then
  finds no session, so the session stays.
- Requests in flight keep the principal they were given after their session is
  revoked, and a login in flight survives the revocation of all sessions.
  `last_seen_at` may go back, or be later than `revoked_at`.
- The audit event of a registration names the new operator as the actor
  (`auth/service.go:88`), not the administrator who registered it.
- `bootstrapAdmin` (`main.go:164`) reports every error as "already present" and
  starts without the account.
- A request that a timed-out `Shutdown` leaves behind may still commit before the
  process exits; nobody is answered.
- A completed shift of a cancelled campaign may still be settled and its settlement
  approved: `SettleAssignment` (`settlement.go:31-111`) never looks at the campaign.
  `BooksFinal` says so; the settlements of a closed campaign are final.
- `round2` (`domain/settlement.go:82`) rounds to nearest, so a campaign may be billed
  up to half a hundredth of a kilometre per settlement above its plan.
- A key returns whatever shift has it, without comparing the request
  (`assignment.go:53`), where the package comment of `internal/idem`, which nothing
  calls, promises a conflict.
- Critical takeovers are deducted at settlement, as the repository's README says,
  and not required to be dispositioned before it, as the comment at
  `domain/drive.go:105` says.
- No production code enqueues the purge job of the README, or any other job.
- Releasing a dataset overwrites its `sealed_at` (`dataset.go:302`,
  `dataset_repo.go:102-114`).
- Escalation records overdue tickets and leaves their severity as it is, where its
  comment (`worker/handlers.go:67`) says it raises it.
- An upload key returns whatever batch has it, for any operator and any drive
  (`ingest.go:59`).

## 5. Proofs

Every invariant and every action property that a passing run checks is proved for
every value of the constants, and so are the refinements. The proofs hold for every
set of operators, keys, inputs, clients, dispatchers and jobs and every value of the
bounds, those of section 3 included. What they assume of the constants are
the named assumptions of the modules, which TLC evaluates on every run:

- `FleetDomain`: `HundredthIsPositive`.
- `Fleet`: `RolesDisjoint`, `BoundsAreNatural`, `InputsTyped` (the inputs are well
  typed, nothing more: they may be empty windows, zero mileage, unknown vehicles);
  `FleetCalls`: `BatchInputsTyped`.
- `DataLoop`: `LoopRolesDisjoint`, `LoopBounds`, `MomentsTyped`, `RequestsTyped`,
  `SelectionsTyped`, `ConclusionsTyped`: types again. `Platform`: `LoopInputsTyped`,
  the same for the data loop in it, from which `LoopAssumptions` follows.
- `JobQueue`: `KindsTyped`, `LimitsTyped`, `QueueBounds`; `Sessions`: `AsksTyped`,
  `SessionBounds`, and `BootstrapIsAName`: types of the bounds and inputs, a batch
  size, a backoff and a lifetime of at least 1, and that the bootstrap account has a name.
- `TxStore`: `DispatcherIsNoHandler` (the dispatcher and the absent owner of the mutex
  are no request) and `PoolIsNotEmpty`; `Server`: `BuildsTyped`, there is a build and a
  build is a set of numbers.

Two theorems assume more, and say so where they are stated: `SchemaIsServed` that
builds only append to the migrations of earlier ones (`BuildsAppend`), and
`SmallCampaignsCanClose` that shifts are no more than fit on a page.

### How the proofs are built

`TableProofs` has the lemmas about tables (a free id is no row's, inserting or
rewriting a row leaves the others and the type) and about sums. A sum over a finite
set (`SumFunctionOnSet`) is a fold, and the induction theorems of the library take an
operator, which the provers cannot instantiate. The lemmas on sums are proved by a
smallest counterexample instead: of the finite sets for which a fact about sums
fails, one of the least size (`SmallestSet`) loses an element and then is none.

`FleetProofs`:

| Theorem | Inductive argument |
| --- | --- |
| `TypeCorrect` | `TypeOK` is inductive; the one arithmetic fact is that a settlement's figures are naturals |
| `StartedShiftsHaveOneDrive` | inductive with `TypeOK`; an active shift is not aborted because its session exists and is open |
| `VehiclesAreHeldByOneShift` | needs the previous one: `CloseDrive` and `AbortAssignment` find the vehicle in the status their shift implies only if session and shift agree |
| `OpenShiftsAreInOpenCampaigns` | inductive: a shift enters an open campaign; a campaign leaves the open states when no shift is open |
| `OperatorsAreNotDoubleBooked` | inductive: only `CreateAssignment` opens a shift, and what `WindowsOverlap` compares is that no moment is in both windows |
| `ShiftsAreSettledOnce` | inductive: completed shifts stay completed |
| `ClosedCampaignsAreSettled` | with the two before it: no shift of a closed campaign is open, so none completes later |
| `BooksAreFinal` | an action property, from the invariant that joins those four: row and shifts of a closed or cancelled campaign, settlements of a closed one |
| `AutoKmIsWithinPlan` | with `OneDrivePerStartedShift`, since the plan looked up through a session never changes |
| `ChainLeasesVehicles` | the refinement of `VehicleLease`, step by step under `VehicleHeldByOneShift`: a step that writes one shift and its vehicle changes one lease, and the rest map to stutters |
| `SettlementsMatchDrives` | `SettledInv`: the settled session is closed, so its mileage stays, its critical takeovers can only be resolved, and penalty and billable mileage are those of the figures the row has |
| `QuotaIsKept` | `Ledger`: a created shift adds its plan to the sum, an aborted one takes it out, and nothing else touches plan, campaign or counter |
| `CampaignsBillWithinPlan` | from `SettledInv`, `AutoKmWithinPlan` and `Ledger`: rounding adds half a hundredth at most to what a settlement bills, and the settlements of a campaign are of different shifts of it, so their sum is below that of the shifts and the roundings |
| `OdometersTellClosedDrives` | a session that closes is not in the sum before and is after; closed ones stay |
| `TheTrailIsTrue` | one invariant per table that also speaks of ids without rows, so that a new row finds no event about it |
| `SmallCampaignsCanClose` | the converse of the finding of `page`: without the page, `SettledCampaignCanClose` follows from `OneSettlementPerCompletedShift` |

The lemmas `ShiftsMoveForward`, `CampaignsMoveForward`, `SettlementsMoveForward`,
`NewShiftIsCreated`, `NewSettlementIsComputed` and `ClosedDrivesStay` say once what any
step can do to a row, so that each proof splits only the actions that matter to it.

`FleetCallsProofs`: `CallsImplementFleet` (each step is a step of `Fleet` or
leaves the tables alone; type correctness of the requests is carried along), so that
what is proved of `Fleet` holds of concurrent, cancelled and restarted requests;
`AnswersAreTheOneShift` from `KeyInv` (keys are unique among rows, and an answer
names a row with its key); `BatchesAreHonest` from `ClaimsInv` (a claimed item is
aborted, and a new claim was not aborted before, so nobody had claimed it).

`DataLoopProofs`: a lemma per handler says what it does to rows, and `WhatStepsDo`
that every step is one of those; the proofs after it speak of rows only.

| Theorem | Inductive argument |
| --- | --- |
| `LoopTypeCorrect` | `LoopTyped`: types with what `CommitUpload` relies on (a request in flight was acceptable), the foreign keys, and that no row is left `validating` |
| `KeysNameOneBatch` | `KeysInv`: keys are unique among batches, and an answer names a batch with its key |
| `CountersAreTrue` | inductive: what each handler counts is what it writes, and a hold only drops frames that were not accepted |
| `LoopTrailIsTrue` | as for the fleet; a ticket's deadline, once over, stays over |
| `QuarantineIsKept` | `FatesInv` with `PendingInv` (an undecided ticket asks for no hold yet, and its batch is validated): validation decides all frames at once, a conclusion only those in quarantine |
| `SealedDataStaysTriaged` | `SealedInv`: a sealed frame is accepted and of a validated batch, whose one ticket is decided for good; no later step drops an accepted frame |
| `SealsAreFinal` | from `SealedInv` |
| `ArchivesAreFinal` | from the invariants above: an archived batch has no undecided ticket, so no conclusion is left to touch its frames |

`PlatformProofs`: `PlatformIsFleet` and `PlatformIsLoop` (each step of the platform is
a step or a stutter of `Fleet`, and one of `DataLoop`; a started drive is
`DriveStarts`), so that all that is proved of each alone holds of the two on one
database. Then what each promises the other: `DataIsFromDrives`, from
`OneDrivePerStartedShift` and the foreign keys of the data loop, and
`TicketsDoBlock`: the settled session is among those that were looked at because no
session of a completed shift is discarded, and a data set becomes sealed by no other
step than its sealing. `DataLoop` is instantiated there a second time, by way of its
proofs; lemmas `Same...` say that the two instances have the same steps.

`JobQueueProofs`: `QueueTypeCorrect`; `JobsHaveOneHolder` (held sets are disjoint and
their rows running, because a claim takes pending rows only);
`RunsStayWithinAttempts` (calls never exceed the attempts counted at the claim, and
are one less while the job is held and not begun); `VerdictsAreFinal` and
`OnlyInterruptionOrphans`, action properties from the first.

`SessionsProofs`: `SessionsTypeCorrect`; `UnusableDoesNotAuthenticate` (a row that a
request holds is one the session had since the request arrived, and a session that
is usable later was usable before); `SessionsEndOnce`
(the moment a revocation has read is no earlier than its session was issued, because
the mutex keeps logins out between the two readings); `SessionsAreAudited` from
`RegisteredInv` and `EventsInv` (a login that is told before a revocation of all
sessions has its row by then, so the revocation finds it).

`ServerProofs`: `StoreIsSerial`, the refinement of `SerialStore` for any number of
requests and connections. It needs SQLite's one writer and its refusal to upgrade an
old snapshot, and not the mutex of `WithTx`: a transaction that has written holds the
write lock and began on the latest commit. `ServesWhatItKnows`, that a process serves
when the database has what its build knows; `SchemaIsServed`, that this is what some
build has migrated.

**Only model-checked.** Liveness, which needs fairness and ENABLED and is out of this
prover's reach: `RequestsFinish`, `ShutdownEnds`, `JobsAreDealtWith`, `StopReturns`.
The two findings are counterexamples that TLC shows.

## 6. Not modelled, and the plan

Not modelled for good: decoding and encoding of HTTP bodies, logging,
configuration, password hashing, metrics, the text of errors; the listing and get
operations with their views, which only read; the idempotency manager and its
table, which no service calls, and the job that prunes it; several processes on one
database while it is migrated. The helpers of the tests are not part of the program.

What is left is to look for the next layer of properties rather than for proofs of
the present ones: the state that `StoppingLosesNoJob` excludes (which jobs an orderly
stop loses, exactly), and what the liveness properties rest on that a safety proof
reaches (a request in flight always has a step of its own that is not refused).
