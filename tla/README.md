# Verification of the production-floor core

This directory holds TLA+ specifications of the server's core logic, the TLC
configurations that model-check them on small instances, and TLAPS proofs of what
matters most for every instance. The code is the reference: every definition stands
for the lines that `PROJECT.json` (`map`) names.

## 1. The system

The server follows machines. A **station** (a machine) produces **cycles**; each
completed cycle changes the station's state log, creates inventory, consumes material,
advances orders and feeds metrics. Three kinds of process share one PostgreSQL database
(READ COMMITTED, the default) and one Redis with BullMQ queues:

- `apps/workers` processor-consumer: reads points of machines, evaluates station events,
  has the API trigger them, and runs the executions, several at once; their actions
  complete cycles.
- `apps/api`: HTTP and RPC for people, and in the same process the slow and down
  detection workers, the stale gateway check, the replay-reconcile worker and, at
  start-up, `recoverReplayWindows` (`src/apps/api/src/main.ts:39-77`).
- `apps/workers` rollups: metric buckets, the ensure tick and the shift-change worker
  (`src/apps/workers/src/rollups.ts:36-60`).

They interact through rows (guarded by transactions, by `pg_advisory_xact_lock` on the
station, by `SELECT ... FOR UPDATE` in one place and by unique indexes), through delayed
jobs with deterministic ids, through one Redis key per station (the replay window), and
through a publish/subscribe bus that nothing acknowledges.

### Components

Paths are under `src/packages/services/src` unless they start with `apps` or `packages`.

| component | state | operations | correct when | modelled by |
|---|---|---|---|---|
| station state log (`facility/station/state.ts`) | `StationStateLog` rows: start, end, state, status, block, reason | `transitionToUp`, `transitionToSlow`, `transitionToDown`, `splitDownEntry`, `assignDowntimeReason` | one open row; rows do not overlap; a block is one period of one state; a closed row is history | `StationLog` |
| cycle completion (`cycle/cycle.ts`) | `Cycle` rows | `complete`: immediate or open-close, live or replayed | a cycle has one end and makes its items once, when it ends | `CycleRecord`, partly |
| replay reconciliation (`cycle/replay.ts`, `queues/replay-reconcile.ts`) | the window in Redis, job `replay-S` | `trackReplayedCycle`, `reconcileReplay`, `recoverReplayWindows` | every replayed cycle is reconciled | `ReplayReconcile`, `StationLog`, `MetricBuckets`, partly |
| detection timers (`queues/station-detection.ts`, `facility/station/state-detection.ts`) | jobs `slow-S`, `down-S` | `scheduleDetection`, two workers | a station that stops producing goes SLOW, then DOWN; one that produces does not | `StationDetection` |
| rollup scheduling (`queues/background-workers.ts`, `queues/shift-change.ts`) | the ensure job, a boundary job per scope | the tick, the shift-change worker, the seed at start | a tick every minute and at every shift boundary | `RollupSchedule`, partly |
| material usage (`inventory/inventory.ts`, `inventory/material-shift-flush.ts`, `inventory/material-balance.ts`) | staging rows, ledger | `createFromCycle`, flush, balance | what is consumed is debited exactly once; flushed rows are frozen | `MaterialUsage`, partly |
| dispositions, material ledger (`inventory/disposition*.ts`, `inventory/material-ledger.ts`) | items, logs, ledger entries | scrap, rework, adjustments | balances agree with their logs | the deduction in `OrderAllocation` |
| materials of a product (`inventory/product.ts`) | links, their versions, groups of alternates | add, update, remove, group, join, activate, leave, delete | a link shows its latest version; each group has one active member | `ProductMaterials`, partly |
| orders and allocation (`order/order.ts`, `order/allocation.ts`) | order status, line quantities, sequence | `allocateInventory`, `deductScrap`, `transitionStatus`, create, remove, line edits, reorder | status follows the transition table, quantities are sums of allocations, live orders have a place | `OrderAllocation` |
| station jobs (`facility/station/jobs.ts`) | `Station.currentJobId`, `StationJobLog` rows | `changeJob`, the ensure pass | one open row, which names the station's job | `EventExecution` |
| events, executions, actions (`facility/station/events.ts`, `execution.ts`, `actions`) | `StationEventExecution` rows, BullMQ jobs | trigger, run, finish | an execution's actions happen, its status is final | `EventExecution`, partly |
| metric buckets (`metrics/bucket.ts`, `metrics/archive.ts`, `queues/metric-buckets.ts`) | live and archived buckets | ensure, archive, un-archive | a bucket is in one table and is not lost | `MetricBuckets`, partly |
| rollup, cascade, recalculation (`metrics/batcher.ts`, `cascade.ts`, `recalc.ts`, `rollup.ts`) | bucket values | increments, the combined tick, rebuilds | values agree with the rows and with each other | `MetricBuckets`, partly |
| shift schedules (`facility/shift`, `metrics/shift.ts`) | patterns, materialised instances, the hours of a shift | materialise, assign, resolve | instances do not overlap; hours partition a shift | the hours in `HourBuckets` |
| processor runtime (`apps/workers/src/processor/_ported/pipeline`) | bounded queue, places | enqueue, dispatch, time out, drop | bounds hold and the queue drains | `EventPipeline` |
| preprocessors and caches (`apps/workers/src/processor/_ported/station-events`) | snapshot cache | enrich, fetch, judge | only changes trigger | `EventPipeline`, partly |
| gateways, facility CRUD, jobs and tools, accounts, dashboards, bridges | single rows, sessions | CRUD | outside this project but for what section 7 plans | |

### What is hard

1. **Snapshots and locks.** The advisory lock is taken inside the transaction, often
   after the row or the timestamp it protects was read, and sometimes in the *same*
   statement, whose snapshot is older than the lock (`cycle/cycle.ts:261-365`).
2. **Reads that outlive their statement.** Under READ COMMITTED two statements of one
   transaction see different data: look-up then increment (`inventory/inventory.ts:215`),
   list of open cycles then `updateMany` (`cycle/cycle.ts:414-428`), check then cut
   (`facility/station/state.ts:603`), select an order then advance it
   (`order/allocation.ts:126`), sum then store (`metrics/rollup.ts:892`).
3. **Checks without a transaction.** What people edit is read and checked in one statement
   and written in another: an order's transition (`order/order.ts:345`), a version number
   (`inventory/product.ts:724`), the peers of a group (`inventory/product.ts:805`).
4. **Deterministic job ids.** `remove` leaves an active job in place and `add` under an
   id that exists is ignored, so the idiom *remove, then add* does nothing when it meets
   the job it wants to replace.
5. **Work after the commit.** Timers, replay windows and deductions are dealt with outside
   the transaction and without being awaited: they are lost or reordered.
6. **Restarts.** Delayed jobs survive a crash, active ones are run again beside the run
   that lost its lock, the replay window is taken out of Redis before it is used, the
   archive dies between copy and delete.
7. **Overtaking.** Readings are judged, bounded and timed out concurrently, with values
   that later readings have overwritten meanwhile.

`PROJECT.json` (`hazards`) lists each of these at the line where it bites.

## 2. The modules

| module | what it models | extends or uses |
|---|---|---|
| `CurrentState` | abstract: the station's current status and since when, changed atomically | |
| `StationLog` | every transaction that writes the state log | refines `CurrentState` |
| `CycleRecord` | the `Cycle` rows and when their inventory is made | |
| `MaterialUsage` | staging rows of one shift, flush, balance | |
| `DelayedJobs` | external: one BullMQ job under a fixed id | |
| `StationDetection` | slow and down timers of one station | `DelayedJobs`, built on `CurrentState` |
| `RollupSchedule` | ensure tick and shift-change jobs | `DelayedJobs` |
| `ReplayReconcile` | replay window, debounced job, recovery | `DelayedJobs` |
| `OrderAllocation` | orders and lines: cycles allocate, scrap is deducted, people edit | |
| `ProductMaterials` | links, versions and alternate groups of one product | |
| `MetricBuckets` | increments, the tick, rebuilds and the archive over a station's and a site's hours | |
| `EventPipeline` | from a reading to the call that triggers an event | |
| `EventExecution` | from the trigger to a settled execution; the station's job | |
| `HourBuckets` | the hours of a shift and of a day, as pure operators | |
| `MCStationLog`, `MCOrderAllocation`, `MCProductMaterials` | symmetry sets for TLC, and a bound on what overlaps | the module named |
| `StationLogProofs` | theorems about `StationLog` and, through an instance, `ReplayReconcile` | both |
| `BucketProofs` | theorems about `MetricBuckets`, `HourBuckets` and, through an instance, `RollupSchedule` | all three |
| `CycleRecordProofs` | theorems about `CycleRecord` and, through an instance, `StationDetection` | both |
| `MaterialUsageProofs`, `OrderAllocationProofs`, `EventExecutionProofs`, `EventPipelineProofs`, `ProductMaterialsProofs` | theorems | the module named |

The composition goes through the abstract specification: `StationLog` shows that the
log, with its snapshots, lock waits and rollbacks, behaves as a `CurrentState`;
`StationDetection` uses the actions of `CurrentState` as the atomic effect of a
completion or of a timer's transition. `DelayedJobs` is shared by the three modules about
queues, so that all of them rest on the same reading of the library.

A reading travels through three modules: `EventPipeline` ends with the call
`triggerEvent`, with which `EventExecution` begins, and whose action `cycle.complete` is
what the modules about cycles start from. A completion appears in several modules, each
with the part of `complete()` it is about: its rows in `CycleRecord`, its effect on the log
in `StationLog`, its material in `MaterialUsage`, its allocation in `OrderAllocation`, its
detection plan in `StationDetection`, its replay tracking in `ReplayReconcile`, its count
in `MetricBuckets`.

### StationLog

A row is a record, its id its position in `log`; `blockId`s are numbers drawn from
`nextBlock`. A transaction `tx[p]` holds its operation, its timestamp and the row it has
read. It is in one of three steps: `idle`; `wait`, for the advisory lock; `held`, ready to
write. Each operation is *begin*, *acquire* (where it takes the lock), *commit*; what
matters is **where it reads**:

| operation | reads the row | takes the lock | code |
|---|---|---|---|
| `completeImmediate` (`BeginCycle`) | in the snapshot before the wait | yes | `cycle.ts:261-365` |
| `completeOpenClose` (`BeginOpenClose`) | after the lock | yes | `cycle.ts:404-486`, `state.ts:367-417` |
| slow, down timer (`BeginTimer`) | after the lock | yes | `state.ts:431-539` |
| `splitDownEntry` (`BeginSplit`) | before the transaction | yes | `state.ts:603-665` |
| `assignDowntimeReason` (`BeginReason`) | before its one update | no | `state.ts:687-727` |
| `fixStateEntries` (`BeginReconcile`) | after the lock, by the update itself | yes | `replay.ts:163-254` |

The commits are pure operators on the log (`CycleLog`, `SlowLog`, `DownLog`, `SplitLog`,
`ReasonLog`, `ReconcileLog`). `End` applies the result, or rolls the operation back when
it breaks the partial unique index (`Conflict`); `Fail` aborts at any step. Whether a
cycle exceeded the slow threshold is an input of the commit, its length is not kept. The
updates of `assignDowntimeReason` are one statement: its scope and reason are chosen
where it commits.

### CycleRecord

`BeginImmediate` looks up the previous end in the snapshot before the lock.
An open-close completion reads the open cycles (`BeginOpenClose`), makes their inventory
(`make`), and closes by an `updateMany` (`StartClosing`, `LockCycle` row by row, in any
order, skipping rows that were closed while it waited, which is READ COMMITTED's
re-check). A live one then takes the advisory lock in `transitionToUp`, a replayed one
does not (`AfterClosing`). `made[i]` counts how often the inventory of a cycle was made.

### MaterialUsage

One shift, one staging row per key. `Find` is the look-up, `Increment` or `Create` the
later statement; the row stays locked to the commit. `Immediate` completions hold the
station's advisory lock, so one is in `createFromCycle` at a time; `Unlocked` ones
(open-close) are not serialised by it. A flush finds unflushed rows of an expired shift,
locks them with `FOR UPDATE` (`LockRow` re-checks after a wait), writes the debit and
stamps the rows in one commit. Three callers flush: the shift-change worker, the minute
tick and the sweep at start, so flushers race. A cycle that looks its row up after the
flush leaves it out with a warning (`inventory.ts:220-229`): the transaction keeps it in
`skipped`. Two history variables count by key: `used` is what committed cycles consumed,
written or left out, and `missed` the part that they left out. A material without a unit
(`inventory.ts:205`) and a cycle outside any shift write no row and are not modelled; what
they consume is never counted, in no schedule.

### DelayedJobs, StationDetection, RollupSchedule, ReplayReconcile

A job is `none`, `delayed`, `active` or `failed`. `Removed` does nothing to an active
job, `Added` nothing to one that exists; a handler's return removes the job
(`Completed`), an exception keeps it where the queue's options say so (`KeptAsFailed`), a
dead worker's job is run again (`Restarted`). These operators are the assumption about
BullMQ; everything else is translated from this repository.

`StationDetection`: `Complete` is the commit, with the plan that `prepareDetection` has
computed in the transaction: a slow timer, a down timer, both, or none (`Plans`; a
threshold that is not set has no timer, and without a standard cycle or a station blob the
plan only cancels). `Remove` and `Add` are the steps of `enqueueDetection` after it, which
nobody awaits: both removals in any order, then the jobs that the plan has, the slow one
first. `planned` is the last completion's plan. `Fire`, `Transition`, `Finish` are the
worker; `Stall`, `Throw`, `Lose` the failures. A reconciliation schedules timers as well
(`replay.ts:176-181`), after its transaction; it is not an actor of this module, so what is
said here is about live completions among themselves.

`RollupSchedule`: `Take`, `Remove`, `Add`, `Finish` are the handlers of the two queues;
`Finally` is the tick's `finally` block, which runs while the tick's own job is still
active; `Crash`, `Start` and `Recover` are the process's death, its restart with the seed
of the first tick, and the stalled-job check.

`ReplayReconcile`: a window is the set of cycles it covers. `WidenWindow` is the Lua
script, `RemoveJob` and `AddJob` the debounce, `TakeWindow` the `GETDEL`, `Start` the
start-up with `recoverReplayWindows`.

### OrderAllocation

`orders` and `lines` are committed rows; a cycle's transaction keeps what it has written
in `tx[c].orders` and `tx[c].lines`, which the row locks hide and protect until `Commit`
or `Abort`. The steps of an allocation are the statements of `allocateInventory` in their
order: `Heal` (the two updates that repair stale statuses), `Select` (first eligible
order), `Allocate` (the increment and the allocation row), `Promote` (an order seen OPEN
is IN_PROGRESS), `Demote` (later orders of the product in progress are OPEN again),
`Complete` (the check of all lines). `Select` sees committed rows and
those of its own transaction; the later statements write by the id, with what `Select`
returned. A user's operation reads in `Begin...` (`edit[u]` keeps what it saw) and writes
later without a transaction; `transitionStatus` with a sequence to assign has a further
statement in between (`Place`). A deduction is `FindScrapped`, then `Deduct`; nobody
awaits it, so it may be lost. `made` and `taken` sum the allocation rows of a line.

### ProductMaterials

Each operation of a user is a *read* step that performs all checks and keeps what it read
in `edit[u]`, and a *write* step, one transaction, that acts by the ids it read and fails
where a key or a foreign key of the schema forbids it. A new version is numbered in a step
between the two (`NumberUpdate`). `blobs` keeps of each version the version it was made
from. `edit[u].raced` is a history flag: a write of somebody else came since the read.
Every combination of removal, replacement and dissolution that the code distinguishes is
one disjunct. Joining a group that the material is in already changes nothing and is
left out.

### MetricBuckets

A key is an entity, a kind of bucket and a start; `live` and `log` are the counts of the
two tables. `Complete` is a live completion: it ends one cycle, or every cycle that is
open, or none if another completion has been faster, and increments by one all the same
(`cycle.ts:429-434`, `481`). `produced` counts the `Cycle` rows that ended in an hour,
`empty` the completions that ended none. `Replay` adds a row and no increment.
`StartTick`, `CascadeShift`, `CascadeParents` are the phases of the combined tick;
`Ensure` creates rows.

A rebuild takes archived rows back (`ReadLog`, `Restore`, `Forget`), computes an hour's
count (`Compute`), replaces it (`Replace`) and rolls it up (`Look`, `Put`, one target after
the other). The window of a replay ends with its last cycle, and the loop over its buckets
stops before the window's end (`recalc.ts:70`): with a single replayed cycle the range is
empty, the rows are taken back and nothing is recalculated (`covers`). An hour at a time is
the abstraction: a range of several hours is several rebuilds here, and `covers` says
whether the hour is one of the range's.

An update of durations (`updateTimeBased`, after a state change or a new reason) creates
missing rows unless the hour or a later one is archived (`BeginUpdate`, `Create`), reads
the archived row and then the live one (`FindArchived`, `FindLive`), deletes a live row
beside an archived one as a phantom (`DropPhantom`) and rolls up. The durations themselves
are columns that are left out; counts it leaves alone.

The archive rolls old hours up once more, re-reads the rows, inserts them into the log and
deletes them. `Fail` ends any of these between two steps. `raced` is a history flag:
another process wrote something since this one began, or, in an update, since it read the
archived row. There is one archive pass at a time, which is what one rollups process runs;
a pass of the model moves all old rows and rolls up one of their hours before. Of the
columns the count is kept; day rows and shifts of the site are summed like the others and
left out.

### EventPipeline

`Arrive` puts the reading into the snapshot cache and gives the message its copy of the
snapshots of its own points; `Submit` and `Reject` are what the bounded queue does with it
when enrichment is over, in any order. A handler holds a *place* (`slot`) until it ends or
`TimeOut` gives the place away, after which it goes on. It fetches the snapshots it lacks
one at a time (`Fetched`), judges the events (`Judge`) and calls the API (`Called`).
`Matches` evaluates conditions on the snapshot's value and the value before. One message
carries one reading; the refresh of compiled events, the calibration of values and the
warming of the snapshot cache at start (`main.ts:112-129`; it fetches early
what a handler would fetch as missing) are left out.

### EventExecution

`Trigger` commits the row RUNNING, `Enqueue` adds the job, `RefuseEnqueue` and
`MarkUnqueued` are the error path; in `CrashApi` the API dies between, or its statement
fails. `Take` starts a run, `Stall`
gives the job to another one, up to BullMQ's tolerance, while the first run may go on.
A run loads the row, performs the actions in order (`Perform`, `Throw`; a *soft* action
continues on error) and settles it (`Finish` to SUCCEEDED or FAILED, `MarkFailed`). An
action that is unknown or has no valid input ends the run, soft or not (`Reject`,
`execution.ts:284-295`). The three statements on the row itself, the load (`244`), the mark
(`167-180`) and the final update (`337-341`), may fail as well (`Break`): the exception
leaves the handler, the job has one attempt (`184-188`), and the row stays RUNNING. The action
`job.change`, like a user, is a transaction: `Lock` (advisory), `CloseLogs`, `Commit`;
reading and closing the open rows are one statement here, since both run under the lock
and a row the ensure pass adds in between is the same as one added after. `FindMissing`
and `InsertMissing` are the ensure pass, which takes no lock.

### HourBuckets

The arithmetic of `metrics/shift.ts`, in milliseconds, as operators with no state:
`HourBuckets(start, end, anchor)` for a shift, `ClockHours` and `ClockHour` for a day
without a schedule. No run uses it; everything said about it is proved.

## 3. The runs

Every run passes: it ends with the whole bounded state space explored.

| run | instance | question and answer |
|---|---|---|
| `StationLogWriters` | 2 consumers, 1 timer, 1 operator; lag 1, time 2, 2 rows | Cycles with late timestamps, a timer, splits and reasons race. The rows stay consistent, blocks uniform, history frozen; the unique index fails only stale splits; every overlap is due to a late timestamp or to a split of an entry that has gone or moved. 1.28 M states. |
| `StationLogReplay` | 2 processes that take most roles, reconciliations included; time 1, 2 rows, `Margin` 0 | There is always exactly one current state, and the log implements `CurrentState`. 0.51 M states. |
| `StationDetectionLive` | 2 completers, thresholds 1 and 2, each set or not, time 4, 2 cycles, 1 stall, 1 loss | A waiting down timer that no completion has still to cancel takes the station DOWN unless another cycle comes or something fails; detection that nothing disturbs loses no planned timer and takes no station DOWN early. 0.42 M states. |
| `RollupScheduleBoundary` | 2 scopes, 2 faults | A planned boundary brings a tick whatever state the tick's own job is in; without faults, and while ticks and shift changes keep apart, a tick is to come or every boundary is planned. 1 730 states. |
| `MaterialUsageFlush` | 1 locked and 1 unlocked cycle, 2 sweeps, 2 keys, 2 uses | No use is debited twice and none that was counted is forgotten; if no flush runs beside a cycle, the balance lacks only what came after the flush of its row. 0.31 M states. |
| `ReplayReconcileRestart` | 2 trackers, 3 cycles, 2 faults | Without faults no replayed cycle is forgotten; a window left by a crash is reconciled after the restart. 18 926 states. |
| `CycleRecordRaces` | one completion of each kind; lag 1, time 2, no start above 3 cycles | Completed cycles are frozen, no cycle is closed by two, open cycles have no items, and open-close completions that take turns make the items of a cycle once. 0.15 M states. |
| `OrderAllocationRaces` | 2 orders, 1 product, 2 cycles, 1 user, 1 deduction, two of these under way at a time; targets 1, items 2, 2 places, the site completes by itself | Quantities are the sums of their allocation rows, opened orders have a place, held ones a way back, and a settled order comes back only through a read made before. 1.10 M states. |
| `ProductMaterialsRaces` | 2 materials, linked twice at most, 2 groups, 2 users, 2 versions | A link shows its latest version, and a group loses its one active member only through a write that was overtaken. 1.30 M states. |
| `MetricBucketsMoves` | 3 hours, 2 of them a shift and a day, 1 cycle, live or a replay of hour 1, or a completion that ends none; 1 rebuild and 1 update of hour 1 beside the archive, 2 passes, 1 fault | No hour shows more than its rows and the completions that ended none, only a move or a deletion that was crossed loses a bucket, a quiet rebuild of a range that covers its hour is exact, and the sums settle. 1.23 M states. |
| `EventPipelineOrder` | 2 points, an event about one and one about both, values 0 and 1, cache, queue and places of 1, 3 readings, 1 restart | A reading that repeats the one before triggers no event of its point alone, bounds hold, and the queue drains though handlers hang. |
| `EventExecutionRuns` | 1 execution of a soft action and a job change, 1 user, a job or none, 1 stall tolerated and made, 3 job log rows | An execution whose latest run does not break ends, it succeeds only with everything done, is orphaned only by a dead API, too many stalls or a failed statement on its row, and the job log agrees with the station. 0.98 M states. |

### Bounds, and why they are enough

`MaxTime` caps the clock, `MaxLag` how late a timestamp may be, `MaxRows` and `MaxCycles`
the rows or cycles above which no *new* operation starts (those under way still finish),
`MaxUses` the uses of a staging row, `MaxMade` the items allocated, `MaxTarget`,
`MaxSequence` and `MaxVersions` the numbers that are given, `MaxReadings`, `MaxPasses` and
`MaxLogs` what arrives, is begun and is logged, `MaxFaults`, `MaxStalls`, `MaxLosses` and
`MaxRestarts` the failures. The hazards are between two or three transactions over one or
two rows:

- the state log needs an open row, one behind it and one being written, and time 2 gives
  before, at and after;
- a stale read needs one other transaction between read and write: two of each racing kind
  suffice, and each process runs any sequence of operations;
- late timestamps need only be one tick late to come out of order;
- a queue with fixed ids has at most one job per id, so two completers, or two scopes,
  exercise every overlap of *remove* and *add* with the worker;
- two faults allow a crash during the recovery from a crash;
- an allocation passes from one order to the next with two orders, and target 1 is
  fulfilled, over-allocated and deducted from with the items that two cycles make; the
  constraint `TwoAtATime` of `MCOrderAllocation` keeps to pairs of cycles, edits and
  deductions that overlap, one after the other in any order;
- a group breaks with two members and two users; the second group and the second link
  of a material show that ids that are spent are not mistaken for new ones;
- three hours hold a shift that is over, one that is current and a day that is
  archived; a rebuild, an update, an archive pass, the tick and an increment meet there
  pairwise, since two passes are begun and the tick and completions come as they like;
- a reading is overtaken by two later ones at most before the bounds of 1 drop it;
- one execution is run twice side by side by one stall; a change to a job or to none opens
  a row or leaves none, and `JobLogAgrees`, the only property that tells two jobs apart, is
  proved for any number of them.

The proofs of section 5 remove these bounds for the safety properties they cover.
`CHECK_DEADLOCK FALSE` stands where the bounds let the instance stop (all cycles done,
all readings arrived, all faults used); the state-log runs keep the deadlock check, since a
process can always start another timer or split. Symmetry sets (consumers of the state
log, cycles and users of orders, materials, groups and users of a product) are used in runs
without liveness and where a process has one role.

### Fairness

Safety runs use `Spec` alone. Liveness runs use `FairSpec`, weak fairness of:
the clock; a live process's promise chain (`Schedule`, `Track`: Node runs pending
continuations); a live worker (`Work`, `Take`, `Run`: BullMQ polls and a handler that is
called returns); the restart of a dead process by the platform (`Start`) and the
stalled-job check (`Recover`, and `Stall` of a dead run: BullMQ runs it periodically); the
interval of the combined tick (`Tick`, `metrics/batcher.ts:131-143`); the timer of
`withTimeout` (`TimeOut`, `bounded-runtime.ts:120-137`);
the end of a transaction that waits or has stalled (`Rollback`, the transaction's
time-out). Completions, readings, aborts, crashes and other faults have no fairness: they
may never come. No fairness is assumed of a handler's call to the API. Weak fairness is
on the disjunction of the steps of one actor, which runs them one after the other.

## 4. What the code does not guarantee

Each module ends with statements that a comment, a doc or the design suggests and that
TLC refutes, or of which it shows that they hold of quiet runs only.

| statement | how it fails |
|---|---|
| `NoOverlap` (`state.ts:39-41`) | The timestamp is fixed before the lock is waited for; two completions get the lock in the other order, and a row ends before it starts or two rows cover one instant. |
| `NoTimerLost` (`queues/station-detection.ts:98-104`) | A cycle completes while the down job is active: `remove` leaves it, `add` is ignored, the job ends and is removed. The station that just produced has no timer. Or a completion that planned none is overtaken: its removals, which nobody awaits, run after a newer one's `add`. |
| `TimerActs` without its premise on `Cancels` | The same late cancel takes away a timer that is waiting; without another cycle nobody plans one again, and the station stays UP. Two completers, no faults. |
| `TickChains` (`queues/background-workers.ts:113`) | The `finally` block re-adds the id of the job that is still active. With no boundary job planned the tick has run once. |
| `FlushedRowsFrozen` (`inventory.ts:222-223`) | The staging row is flushed between the look-up and the increment; the increment hits the flushed row, and no balance counts it. |
| `AllUseIsCounted` | A late or replayed cycle comes after the flush of its shift and is left out (`inventory.ts:220-229`). One cycle, one sweep, one after the other. |
| `ClosedCyclesMadeItemsOnce` (`cycle.ts:60-63`) | Both completions read the same open cycle and both make its items; or a cycle opened in between is closed by the `updateMany` without any. |
| `FreshBlockAfterDown` | An immediate completion read the row as UP before the lock; meanwhile the down timer converted it (`state.ts:521`) to DOWN with a new block. The new row continues the old UP block (`cycle.ts:330`), where `state.ts:350-352` promises a new one. One consumer, one timer. |
| `SplitKeepsPartition` | A split of a row as read (`state.ts:603`) copies an end, or sets one, that another split has moved. Two operators, time 3, 3 rows. |
| `BlockSharesReason` | A split copies the row it read before a reason was assigned (`state.ts:676-678`, `695`): the two halves disagree. Two operators. |
| `ReconcileKeepsPartition` | Rows of live cycles after the window stay (`replay.ts:210-254`), and the new open row starts at the window's end under them. One consumer, timer and reconciler, 3 rows. |
| `DownOnlyAfterThreshold` | A timer job that has become active fires although a cycle completed (`queues/station-detection.ts:80`). One completer, no faults. |
| `AlwaysPlanned`, `StartSeedsTick` | The tick ends with nothing planned; after two faults the failed tick's id blocks the seed (`background-workers.ts:138-141`). One scope. |
| `NoCycleRejected` | Two open-close cycles both find no staging row, and the second `create` is rolled back by the unique key (`inventory.ts:215-251`). |
| `WindowReconciled` | A cycle widens the window after the worker took it, while the job is active: its `add` is ignored and no job is left (`replay.ts:116`). One tracker, no faults. |
| `WindowOutlivesCrash` | `GETDEL` comes before the rebuild (`replay.ts:145`): a crash between the two loses the window. |
| `CyclesConsecutive` | Two immediate completions read the same previous end before the lock (`cycle.ts:286-305`): their cycles overlap. |
| `TerminalOrdersStay` | A cycle selects an OPEN order, somebody cancels it, and the cycle makes it IN_PROGRESS or COMPLETED without looking again (`allocation.ts:126`); a transition checked on a stale read does the same (`order.ts:345`). |
| `AllocatedLinesStay` (`order.ts:412`) | The user's check counts no allocations, a cycle allocates, and the line is deleted with its allocation rows. |
| `SequencesDistinct` | Two orders opened at once read the same maximum (`order.ts:378`); nothing in the schema forbids it. A reorder needs no second actor: it numbers the orders it lists from 1 on, whatever places the others have (`order.ts:506-515`). |
| `NeverOverAllocated` | Two cycles select the same line one item short of its target; both increments apply. |
| `LineStatusAgrees` | The line's status is computed from what `Select` returned (`allocation.ts:110`), and a deduction or another cycle changes the quantities in between. The next `Heal` repairs one direction. |
| `OneActivePerGroup` (`product.ts:834`) | A member joins after the count of peers, and the group's active one is removed with no replacement; or the replacement has left meanwhile. |
| `VersionsChain` | An update that numbers its version after another one's commit is made from the version it read before (`product.ts:734`): the other's changes are lost. Three versions. |
| `CountsComplete` | A rebuild computes an hour, a cycle increments it, and the rebuild replaces the count (`recalc.ts:1293`); nothing repeats it. |
| `NoMoreThanRows` | An open-close completion that ends no cycle increments the bucket all the same (`cycle.ts:481`). |
| `AllQuietRebuildsAreExact` (`replay.ts:138`) | The window of one replayed cycle is empty, no bucket is recalculated (`recalc.ts:70`), and the replayed cycle is not counted. |
| `OnlyMovesLoseBuckets` | An update reads an archived row and a live one, takes the live one for a phantom and deletes it (`recalc.ts:1159-1169`); the archived one has been taken back to the live table since it was read. |
| `FinishedShiftsAddUp` | A shift's last increments come after the last tick that sums it: the tick cascades the current shift only. |
| `BucketsStay` | A replay takes rows back while the archive, which has copied them, deletes them (`archive.ts:181`, `replay.ts:295`). |
| `OnlyChangesTrigger` | An event with conditions on two points is judged by the other point's last change, however old: a repeated reading matches again (`station-events-processor.ts:189`). |
| `HandlersWithinConcurrency` | A handler that timed out goes on while its place is given away (`bounded-runtime.ts:120-137`). |
| `SettledStays` | A stalled run that is repeated settles the row, and the first one writes its own outcome without a condition (`execution.ts:337`). Without a stall: the job is added but the reply is lost, the API marks the row FAILED, and the run settles it again. |
| `OneOpenRow` | The ensure pass inserts a row that a change has opened since it looked (`background-workers.ts:226`). |
| `NoOrphans` | The row is committed before its job is added (`events.ts:604`). |
| `OnlyCrashesOrphan` | A statement of the worker on the row fails (`execution.ts:244`, `167-180`, `337-341`): the job fails with its one attempt, and nothing settles the row. No crash, no stall. |

The passing properties say how far these failures reach: `OnlyLateOrStaleOverlap` that
overlap needs a row that starts before the current one, or a split of an entry that was
deleted or moved since it was read (without that second case the statement is false: a
reconciliation deletes the entry, and the split still appends its later half, which is
live); `CurrentStateUnique` and `ImplementsCurrentState` that the current state is right
nevertheless; `BlockUniform` that a block still never mixes states; `NoReplayForgotten` that
an unreconciled cycle is at least still in the window; `RestartHeals` that a restart then
picks it up; `BoundaryBringsTick` that the next shift boundary repairs the rollups;
`QuietTimersAreExact`, `ApartPlansStay` and `TurnsMakeItemsOnce` that `NoTimerLost` and
`DownOnlyAfterThreshold`, the chain of ticks and `ClosedCyclesMadeItemsOnce` fail only where
the two actors that the statement names run at once (or something fails), and neither for an
abort nor for the order of anything else; `ApartUseIsCounted` that where cycles and flushes
keep apart the balance of a row lacks nothing that was used before its flush, and lacks
exactly what `AllUseIsCounted` fails by; `SettledOrdersStay` that an order comes back only
by the hand of somebody who looked before, and the theorems `TurnsKeepOrdersFinal`,
`TurnsKeepAllocatedLines` and `TurnsNeverOverAllocate` that `TerminalOrdersStay`,
`AllocatedLinesStay` and `NeverOverAllocated` hold when cycles and edits take turns
(`OneWriter`), with deductions and reorders in between as they come, and
`TurnsKeepLineStatus` that `LineStatusAgrees` holds when deductions take turns as well
(`OneActor`); `OrderedWritesNeverOverlap` that `NoOverlap` needs nothing but rows in the
order of their timestamps and splits of entries as they were read (`WrittenInOrder`);
`FreshWritesKeepGroups` and `FreshUpdatesChain` that `OneActivePerGroup` and `VersionsChain`
fail only by writes that another one has overtaken (`NoneOvertaken`); `LoneRunsSettleOnce`
that `SettledStays` fails only by the two ways above, for wherever an execution has one run
(`RunsAlone`) its outcome is final; `ChangesLeaveOneOpen` that the ensure pass is what
`OneOpenRow` fails by; `OnlyRacesBreakGroups` that a group survives every sequence without
overlap; `NeverOvercounted` that an hour shows no cycle twice, and beyond its rows only the
completions that ended none; `QuietRebuildsAreExact` and `OnlyCrossingsLoseBuckets` that an
hour that is recalculated uncrossed is exact and that buckets are lost only by crossing
writes; `RepeatsNeverTrigger` that the other point of an event is what it takes;
`OnlyFailuresOrphan` and `ExecutionEnds` that nothing but a crash of the API (or its failed
statement), stalls beyond the tolerance or a failed statement on the row in the latest run
leave an execution without an end: neither a failed action nor a worker that dies within the
tolerance does.

Some statements fail without any overlap: `AllUseIsCounted`, `NoMoreThanRows`,
`AllQuietRebuildsAreExact` and `OnlyCrashesOrphan`, as the table says. `SequencesDistinct`:
`reorder` numbers the orders it is given from 1 on, beside orders it is not given.
`CyclesConsecutive`: a completion may come with a timestamp before the previous end.

## 5. The proofs

All theorems hold for any sets of processes and any bounds, from the assumptions the
modules name: bounds are natural numbers, `Null` is none of the values, the roles that
must differ do (`CycleProcs`, `UsageAssumption`). They are checked by TLAPS to the last
leaf, each leaf by SMT, Zenon or the temporal back-end.

**StationLogProofs.** The inductive invariant is

    Inductive == TypeOK /\ RowsConsistent /\ CurrentStateUnique
                 /\ OnlyStaleSplitsRejected /\ TransactionsSound

No part but `TypeOK` is inductive alone. That there is one open row needs to know that an
operation which converts or cuts a row by its id has read a row that is still what it was:
`TransactionsSound` says what a snapshot is still good for. A row read *under* the lock is
the open row until the commit (`ReadIsCurrent`). Of one read *before* the lock only this is
left: it exists, a DOWN row stays DOWN and a closed row stays closed (`SnapshotHolds`).
That is enough because completions close whatever is open rather than what they read,
and the operation that trusts its snapshot, the split, can then only be rolled back by
the index. The lemmas follow the code: first what each write does to a log (types, open
rows, consistency), then one lemma per action of `Next`, under it one step per conjunct.
Two more results rest on this invariant, by lemmas that say of each write which rows it
may touch and in which block (`Frozen`, `Marked`). A closed row is never rewritten
because the writes by id go to the row read open under the lock, or change an end. For
blocks the invariant is strengthened by `BlocksSound`: of the rows there are *and* of the
rows transactions have read, those of one block are in one state, and all blocks are
older than the next id. The second half is what a stale completion needs: it goes on with
the block of a row that meanwhile became a downtime, which is harmless only because the
down timer moves the row it converts into a new block.
Last, the refinement: `StatusOf` and `SinceOf` are what the log shows, one lemma per write
says what it makes of them, and `CommitRefines` matches every commit with `Produce`,
`GoSlow`, `GoDown`, `Cut` or `Rebuild` of `CurrentState` or with a stutter. It needs
`InTime`: the timestamps in flight are within the clock's bound.
That rows do not come to overlap (`OverlapsAreLateOrStale`) rests on `StartsHold`: a
transaction's row still starts where it did when it was read, since starts never change
(`Frozen`). One lemma per write (`CycleFits`, `SlowFits`, `DownFits`, `ReasonFits`,
`SplitFits`, `ReconcileFits`) then says that every row it leaves lies within one that was
there, and a new one within the open row, behind all others, or within the entry that is
cut, unless it is late or the entry is no longer the one that was read; rows that
lie within rows that do not overlap do not overlap either (`Within`, `Apart`).
Theorems: `InductiveInvariant`, `TypeCorrect`, `CurrentStateIsUnique`,
`OnlyStaleSplitsAreRejected`, `RowsAreConsistent`, `TransactionsAreSound`,
`BlocksAreUniform`, `HistoryIsFrozen` and `OverlapsAreLateOrStale` (action properties),
`LogRefinesCurrentState`. From the same lemmas, the rows of a log that is `WrittenInOrder`
never overlap (`OrderedWritesNeverOverlap`): splits of past entries, which start before the
current row, are no harm, since the halves lie within the entry (`CommitSplitFits`).

The last part of the module is about `ReplayReconcile`, whose job is one of the processes
that write the log. It is used as an instance, so what that module assumes of its bounds
is the hypothesis `ReplayBounds` of each theorem. `ReplayInductive == TypeOK /\ HandsSound
/\ NoReplayForgotten`: what a tracker is about to add is one of the cycles, and what a
worker has finished with is reconciled (`HandsSound`), so that letting go of it forgets
nothing. Theorems: `ReplayInvariant`, `ReplayTypes`, `NothingForgotten`.

**CycleRecordProofs.** `Inductive == TypeOK /\ ClosersHoldOpenCycles /\ MakersClose /\
OpenCyclesMadeNothing`. An open cycle has no items because whoever makes them has its
row among those it closes, or lost it to another closer (`MakersClose`); a completed
cycle stays as it is because rows in a transaction's hands are open and in no other's
(`ClosersHoldOpenCycles`). The commit both updates and appends rows, so a lemma states
what the concatenation keeps (`CommitRows`), on lemmas about `Inserted` and `\o`.
Theorems: `InductiveInvariant`, `TypeCorrect`, `ClosersAreAlone`,
`OpenCyclesHaveMadeNothing`, `CompletedCyclesStayFrozen` (an action property).

That completions which take turns make items exactly once (`TurnsMakeOnce`) is proved
from a second invariant, kept as long as `Turns` holds: `Tidy` says of each step of a
completion what it has open, has closed and has still to close, so that the cycles it makes
items for are those it will have closed (`TurnsSound`). Immediate completions need not
take turns: what they append is closed already and has its items.

The last part is about `StationDetection`, used as an instance; what that module
assumes of its bounds is the hypothesis `DetectBounds` of each theorem. `DetectInductive ==
TypeOK /\ TimersSound`: a worker is at work on a job exactly while the job is active, and
what a completer has left to add is the rest of a plan. It gives the types (`DetectTypes`)
and `TimersLostByOverlaps`, an action property: the steps that take away the last down
timer of a station that needs one are a failure, the end of a running job that a completion
could neither remove nor replace, and the late removal by a completion that planned none.
Detection that nothing disturbs keeps more (`QuietSound`): a down timer
that is there, and one still to be added, is due no earlier than a threshold after the last
cycle (`TodoCurrent`, `DownJobCurrent`), so the timer that the last completion planned is there
whenever nobody is about to add one, and none fires early (`QuietDetection`).

**MaterialUsageProofs.** `Inductive == TypeOK /\ LocksHold /\ NeverDebitedTwice`: a row in
a flush's hands is locked by it and still unflushed, so its quantity moves to the ledger
once. Theorems: `InductiveInvariant`, `TypeCorrect`, `DebitedOnce`,
`ConsumptionNeverForgotten` (an action property), and `LockedCyclesCommit`: if no
completion is `Unlocked`, none is ever rolled back by the unique key; its invariant
`OneCycleAtATime` shows that the station's lock is what the look-up depends on. When no
flush runs beside a cycle, the rows a cycle has at hand stay unflushed
(`UnflushedInHand`), so every commit adds to the use what it adds to the balance and to
what is left out, and what it leaves out belongs to a row that is flushed for good:
`ApartCountsExactly`, and `FlushedRowsStay`, by which flushed rows are frozen then.

**OrderAllocationProofs.** The invariant joins the types, `QuantitiesAddUp`,
`OpenedOrdersSequenced` and `HeldOrdersRememberStatus` with what they need of the
transactions and edits under way: a row that one transaction has written is written by no
other (`Exclusive`); a transaction's version of a line is the committed one plus
what it has allocated, and what it advances was opened before (`TxSound`); an edit's
reads are still good for what it may write (`EditsSound`), a deduction's line exists or
its write hits nothing (`ScrapsSound`). The commit and the abort then add, or drop, the
same amount on both sides of the sum. Theorems: `InductiveInvariant`, `TypeCorrect`,
`QuantitiesAlwaysAddUp`, `OpenedOrdersHavePlaces`, `HeldOrdersCanResume`,
`SettledOrdersAreFinal` (an action property).

Three of the statements that races refute are proved for cycles and edits that take turns
(`OneWriter`). What a race breaks is the freshness of what was read, and so the
invariant is `NothingStale`: an order in a cycle's or a user's hands is not completed or
cancelled, and the lines of an order whose line a user edits have no allocations. With
`WithinTargets`, by which what `Select` has returned has room for one more
item until `Allocate` adds it, it gives `TurnsKeepOrdersFinal` and
`TurnsKeepAllocatedLines` (action properties) and `TurnsNeverOverAllocate`. Deductions are
not held back: they only lower what counts against the target. They do matter to a line's
status, which is planned from one read and written with another: that no line is
COMPLETED before its time (`TurnsKeepLineStatus`) needs `OneActor`, and the invariant
`StatusesAgree`, by which the rows, the versions of them that a cycle has yet to commit,
and the statuses that are planned but not yet written all agree with the quantities.

**ProductMaterialsProofs.** `Inductive == TypeOK /\ RowsSound /\ CurrentIsLatest /\
ReadsFresh`. `ReadsFresh` says of an edit that nobody has overtaken that what it read is
still so; from it each write of such an edit keeps every group sound, one lemma per
operation. `RowsSound` is what holds races or not: a group that is there was created, a
version is within its bound, and an edit knows the rows it is about. Theorems:
`InductiveInvariant`, `TypeCorrect`, `CurrentAlwaysLatest`, `GroupsBreakOnlyByRaces` (an
action property). If nobody writes by what a write of somebody else has overtaken
(`NoneOvertaken`), groups never break (`FreshWritesKeepGroups`), and each version is made
from the one before it (`FreshUpdatesChain`): the version an update has read is the latest
until it writes (`UpdatesFresh`), because whoever writes in between overtakes it.

**EventExecutionProofs.** `Inductive == TypeOK /\ Locked /\ JobLogAgrees /\ RunsSound /\
SuccessMeansDone /\ RowsSound /\ OnlyFailuresOrphan`. The holder of the advisory lock is
the one change that has passed it (`Locked`), so a commit replaces exactly what other
changes left open. A run that comes to its n-th action without an error finds those before it
performed (`RunsSound`), which is what success rests on. What a row that nobody
will settle has behind it stays so: an API that is dead, a job that is given up, a latest
run that broke (`Broken`). The lemmas `OrphansKept` and `MoveKeepsOrphans` say this once
for every step that leaves requests, stalls and broken runs as they are. Theorems:
`InductiveInvariant`, `TypeCorrect`, `JobLogAlwaysAgrees`, `SuccessIsComplete`,
`OnlyFailuresLeaveOrphans`. An execution that has one run settles once
(`LoneRunsSettleOnce`): as long as `RunsAlone` holds, a run at work has a row that is still
RUNNING and is the only one of its job (`BusyIsRunning`), so the unconditional update at
its end overwrites nothing. `ChangesLeaveOneOpen` is the same for the job log: rows that
changes wrote are never two (`JobLogAgrees`).

**EventPipelineProofs.** That a repeated reading triggers nothing of its own point is decided
when it arrives, but only used after a queue, a fetch and a wait. The invariant carries it
along: the cache has one entry per point and never more than it may (`Cache`); what
the last reading of a point was is what the cache has of it (`LastInCache`), so a
repeated reading leaves with a snapshot whose value before is its value
(`GoodReadings`); it stays one in the queue, and the handler that judges it finds no
event of that point to call (`GoodHandlers`), since none of the operators holds of a value
that has not changed (`NoChangeNoHold`). That the cache throws out its eldest entry, and
never the one it sets, is the longest part (`SetSound`). `Runtime` counts the places:
`Schedule` fills what is free and no more. Theorems:
`InductiveInvariant`, `TypeCorrect`, `RepeatsAreSilent`.

**BucketProofs.** For `MetricBuckets`: `Inductive == TypeOK /\ Bounded(live) /\ Bounded(log)
/\ \A p \in Procs : Sound(p)`. No hour of the station or of the site shows more than its
`Cycle` rows and the completions that ended none, in either table (`Bounded`). That is not
inductive alone, since the processes write what they have read: `Sound` says what is in
their hands. `PhaseSound` says who is where in its loop, `ReadSound` that what is about to
be written is not more than was made either, `MoveSound` that rows being moved, or found in
both tables by an update, are still there to be kept unless somebody crossed it, `HourSound`
how far an uncrossed rebuild has brought its hour. Steps of others either leave a process's
part of the tables alone or mark it as crossed (`Bystander`, `WriteStep`), so each action is
proved for its own process only. The sums of the tick and of the rollups rest on the sum
lemmas (`TotalSums`, `SumOfType`), which need no operator as a parameter: that the function
which adds one element at a time exists on the subsets of a finite set (`SumExists`) follows
from induction over a bound. Theorems: `InductiveInvariant`, `TypeCorrect`,
`NothingCountedTwice`, `LossesAreCrossings` (an action property), `QuietRebuilds`,
`TotalType`.

For `HourBuckets`, which has no state, the theorems are about the operators, for all times
and anchors: each hour of a shift lies in it, is not empty and not longer than an hour
(`HoursLieInShift`); every timestamp of a shift has one (`HoursCoverShift`), so
the error of `findHourBucketInShift` is never thrown; and no more than one
(`HoursAreDisjoint`). Without a schedule a timestamp's hour is among the 24 of its day
(`ClockHourOfDay`), and the hours of timestamps on both sides of a change of the zone's
offset by whole hours are the same or do not overlap (`ClockHoursNeverOverlap`), although
midnight is computed with the timestamp's own offset and not, as the comment in
`metrics/shift.ts` says, verified at midnight. They rest on lemmas about `\div`.

For `RollupSchedule`, used as an instance under the hypothesis `RollupBounds`, the
invariant `RollupInductive` ties the two workers to the jobs: a worker holds a job of its
own queue, replaces what that job's handler is about, and as long as nothing has failed a
job is active exactly while it is run (`ActiveIsRun`). Theorems: `RollupInvariant`,
`RollupTypes` and `ApartPlansHold`. The latter needs `HandlersPlan`: a tick
that has replaced a boundary has left it planned, and a shift change leaves a tick or is
about to add one. Where the two overlap, each may remove what the other has just planned.

**What types rest on.** `TypeOK` of `CycleRecord`, `StationDetection`, `RollupSchedule`,
`MaterialUsage`, `OrderAllocation`, `EventExecution`, `ReplayReconcile`, `ProductMaterials`
and `MetricBuckets` is proved (`TypeCorrect`, `DetectTypes`, `RollupTypes`, `ReplayTypes`)
rather than checked by a run.

**Statements about instances.** `QuietDetection`, `ApartPlansHold` and `NothingForgotten`
prove `QuietTimersAreExact`, `ApartPlansStay` and `NoReplayForgotten`, which runs of
`StationDetection`, `RollupSchedule` and `ReplayReconcile` check, through an instance
whose constants and variables are those of the proofs' module.

**Only model-checked.** Liveness (`TimerActs`, `BoundaryBringsTick`, `RestartHeals`,
`SumsSettle`, `QueueDrains`, `ExecutionEnds`), which is out of the prover's reach under
fairness. Every other property of a run is proved.

## 6. What is not modelled, and why

- Shift instances (`facility/shift`, `metrics/shift.ts` but for its hours). What reading
  has shown: `reconcileShiftInstances` runs in about six statements without a transaction;
  the minute tick ignores what a reconciliation has reserved and creates again what it
  skipped, and a tick that read before an assignment ended creates its instances again;
  the check whether an instance is in use does not see material usage, whose rows go with
  it by a cascade (`inventory.prisma:514`), nor archived buckets; the cache of resolved
  shifts may name deleted instances for 30 s. The code states no promise about these
  interleavings that a property could be taken from; the plan begins with them.
- Dispositions other than their deduction from an order, corrections of a log, the
  material ledger outside a flush: planned. That a disposition is deducted *once* depends on
  its callers (`disposition-log.ts:251`, `332`), which are not modelled: here a deduction
  runs once or is lost.
- KPI formulas and the columns of a bucket other than its count: arithmetic over SQL
  aggregates. Day rows and the site's shifts are summed like the rows that are modelled.
- Time zones and calendars: data of a library; `HourBuckets` takes the offset as given.
- A product's own versions follow the protocol of `ProductMaterials`; pictures, labels and
  copies are single inserts.
- CRUD, permissions, dashboards, e-mail, bridges, the event processor's shell: single-row
  writes or unacknowledged publications without protocol state. Sessions and invitations
  of accounts, and the stale gateway check, are left for later.
- Deadlocks between row locks and the advisory lock: PostgreSQL breaks them by an abort,
  and every transaction here may abort at any step; that a victim is retried is outside
  the code.
- The event's effect on several stations at once: the modules are about one station, one
  shift, one product or one site's orders, and the locks and job ids are per station.
- Abstractions inside the models: what a reconciliation recomputes is one step
  (`Rebuild`); the debounce delay and the tick's period are "sooner or later"; a failed
  job that stalls twice is a failure like another; several items of one product are one.
- Of a user's edits, what is read and checked is one step, except where a version is
  numbered or a place drawn: writes that come between two checks of one request are
  the same as writes before or after both for the properties here.

## 7. Plan

In order of importance:

1. `ShiftSchedule`: assignments, the reconciliation and the minute tick over the
   instances of one scope; that instances of a scope do not overlap once both rest.
2. `Dispositions`: logs, their corrections and removals against the quantity of an item;
   the ledger's balance.
3. A module for the order of locks across a completion: advisory lock, cycle rows,
   staging rows, order rows.
4. The stale gateway check against a heartbeat; sessions and invitations; `TtlCache`.

Proofs to come: with the modules above, their invariants. Of those there are, a variant
for the liveness of each queue, as far as it is a safety property: which step brings a
waiting job closer to its end, and that no other step takes it back.

## 8. Running it

`tlc -config <run>.cfg <module>` for each run of `PROJECT.json`; `tlapm <module>Proofs.tla`
for the proofs. Every property of a run has a mutant: a definition of the model and an
operator that changes it as a plausible bug would. With the mutant in its place, the
property fails.
