# tp-job: a verification project

tp-job is a job scheduler: one Go process, one database (SQLite or MySQL), workers that
register by heartbeat, receive runs by HTTP POST and report their status back. This
directory models its core in TLA+, checks it with TLC and proves its safety properties and
both refinements with TLAPS.

Paths below are relative to `src/internal/` unless they say otherwise.

## The system

| component | state | operations | files |
|---|---|---|---|
| dispatch core | rows of `job_instance`; in memory `slots`, `held`, the goroutine of each row | scheduled and manual trigger, dispatch, failed dispatch, requeue | `dispatch/scheduler.go`, `dispatch/executor.go`, `repository/instance.go` |
| manual queue | heap `pq`, `pqIndex`, `pqSeq`, timers, `wake` | push, pop, push back, requeue, change of priority | `dispatch/scheduler.go`, `dservice/instance.go` |
| reaper | list of one scan | scan active and unbound rows, judge, finalize | `dispatch/scheduler.go` |
| retry pump | list of one scan; `next_retry_time` | scan, claim, child check, slot, create | `dispatch/scheduler.go` |
| instance service | none | report, stop, cancel, retry, set priority | `dservice/instance.go` |
| worker registry | workers and last heartbeat, in-flight counts | heartbeat, pick, sweep | `workerreg/registry.go` |
| recovery | none | `RecoverStaleActive`, `RecoverQueued` at start | `dispatch/scheduler.go`, `src/main.go` |
| job table and cursor | rows of `job` with `next_run_time` | create, update, delete, trigger; list due, advance | `dservice/job.go`, `repository/job.go`, `schedtime/next.go` |
| requests on jobs | none | REST API, OpenAPI (save, copy, export, enable, run), import from a PowerJob server | `protocol/own/`, `protocol/powerjob/openapi.go` |
| callback pump | rows of `instance_callback` | send, mark, retry, purge | `dispatch/callback.go`, `repository/callback.go` |
| instance log | files and a lock for each | append, read, sweep | `instancelog/logger.go` |
| sessions, login limiter | maps in memory | login, get, logout, reap | `auth/`, `protocol/own/auth.go` |
| worker protocols, accounts, configuration, web console | none that schedules | translate requests into the calls above | `protocol/`, `dservice/app.go`, `config/`, `src/web` |

How they interact:

- The loops (`Run`, `RunManualDispatcher`, `RunInstanceReaper`, `RunRetryPump`) and one
  goroutine for each dispatched row share the database rows and, under `slotMu`, the
  slots. HTTP handlers (a worker's report, Stop, Cancel, Retry) write the same rows and
  release the same slots.
- A slot is taken by `tryAcquire` before the row is known or bound, is bound to the row by
  `bindHeld`, and is given back by whoever ends the row: `releaseByInstance` is idempotent
  through `held`.
- Every ordinary write of a status is guarded by `status NOT IN (terminal)`; Stop and
  Cancel are not.
- A job is read by `ListDue`, and a goroutine (`execute`) computes the next instant, claims
  the cursor with a compare-and-set and creates the row; requests read and write the same
  job between any two of these steps.
- A row that waits (manual, without a worker, or recovered) is carried by exactly one of a
  timer, the heap, the dispatcher's hand or its goroutine; `SetPriority` writes the row and
  then the item in the heap.
- A retry is a new row of the same chain (`root_instance_id`, `retry_index`), made by the
  pump for a row whose `next_retry_time` has come.

What is hard about it: the status in the database, the slot in memory and the worker's
real state change at three places without a common lock; each writer reads first and
writes later; workers answer late or twice or never; database calls fail one by one; and a
crash forgets slots, queue, timers and registry at once. What makes each component correct:

- core: a slot is released exactly once however a row ends; the limit of a job holds; a
  final status stays; a row is sent at most once; a queued row is never forgotten;
- retry: one child for each attempt, never two live rows of a chain, no owed retry lost;
- registry: counts match the rows sent, never stay too high;
- queue: order by priority then age, no item overtaken for ever;
- jobs: each due time runs at most once and under the definition in force, an enabled job
  has a cursor, an update leaves alone what it does not name, a source is imported once;
- callback pump: an event is delivered or dead, pending rows are never purged;
- instance log: one writer for a file at a time.

## Modules

| module | what it is |
|---|---|
| `InstanceStatus` | the nine states and the sets every guard is made of |
| `Scheduler` | the dispatch core with reaper, pump, registry, handlers, crash and recovery; its properties and the deliberately wrong variants that show each property can fail |
| `RunLifecycle` | the abstract specification: runs wait, run, end; a limit for each job; retries one at a time within a budget |
| `SchedulerRefinement` | the mapping under which `Scheduler` implements `RunLifecycle` |
| `MCScheduler` | values of the function constants for TLC |
| `SchedulerProofs` | `TypeCorrect`: the types are invariant |
| `SlotProofs` | `SlotNotLeaked` and `SlotsExact`: the slot invariants |
| `DispatchProofs` | final statuses, the way of a row to its worker, the in-flight counts |
| `RetryProofs` | the retry chains: in order, one live attempt, none lost |
| `RefinementProofs` | the limit of a job, and that `Scheduler` implements `RunLifecycle` |
| `CallbackPump` | the outbox `instance_callback` and the pump that posts it |
| `CallbackProofs` | type correctness and the three safety properties of the pump |
| `PriorityQueue` | the abstract specification of a queue: whoever takes an entry gets the best one |
| `ManualQueue` | the binary heap with its index, the dispatcher, delayed pushes, `SetPriority`, restart; implements `PriorityQueue` |
| `MCQueue` | values of its function constants |
| `QueueProofs` | the heap keeps its order and its index, the invariants of the queue, and that it implements `PriorityQueue` |
| `Catalog` | the job table, `JobService`, the requests that reach it, and the scheduler from the due cursor to the row |
| `MCCatalog` | the definitions, updates and imports of its runs |
| `CatalogProofs` | types, sources, the shared slots, cursors, claims and partial updates of the job table |

### How `Scheduler` corresponds to the code

One action is one database statement or transaction, or one critical section, and the
goroutines interleave between actions. `task[i]` is where the code of row `i` stands:

    timer -> queue -> check -> bind -> pick -> mark -> send -> sent -> (idle)
                 (enqueueManual) (runManualHeld)   (dispatchToWorker)
    auto and retry rows start at bind; unpicked/noworker/requeue is the path without an
    online worker; fail/releaseretry/retry is failDispatch; release ends a stopped row.

| variable | code |
|---|---|
| `ins` | the row: `status`, `job_id`, `trigger_type`, `root_instance_id`, `retry_index`, `worker_address`, and whether `next_retry_time` is set |
| `slots`, `held`, `haddr` | `Scheduler.slots`, `Scheduler.held` and its `addr` |
| `owed` | the worker of a row whose releaser has left `slotMu` and has not yet called `ReleaseInflight` |
| `inflight`, `known`, `online` | `Registry.inflight`, keys of `Registry.workers`, those with a fresh heartbeat |
| `claiming` | goroutines in `execute` between `tryAcquire` and `bindHeld` |
| `handler` | rows a handler has written and not yet released |
| `reap`, `pump` | the loop's list (`todo`), and the step and row it is at |
| `phase`, `boot`, `warm` | start-up recovery and its step; `inWarmup` |
| `delivered` | which workers received the run: they alone report |
| `spent` | how much of the bounds on crashes, expiries and calls is used |

Actions have the names of the Go functions. The reaper judges a row by what its scan saw
(`Scanned`) and writes with the guard, as `finalizeReaped` does; the pump claims by
clearing the mark and uses the scanned row after that. `ReportStatus` releases when the
reported status is final even if no row changed. `releaseByInstance` is two actions: what it
does under `slotMu` (`ReleaseByInstance`), and, if the row was held with a worker, the count
of that worker after the unlock (`LowerInflight`); sweeps, dispatches and other releases
come in between.

With `DbFaults` every call may fail: besides the writes, `loadJobs` (the reaper then fails
every row of its list, the pump drops those it has claimed), the list of `RecoverQueued` and
each `Job.Get` in it (any part of the queued rows comes back). No run has both a crash and
failing calls; the theorems cover the two together.

Abstractions, each of which only adds behaviours unless it says otherwise:

- Time: a delay, a backoff, a heartbeat timeout, a receive or execution timeout may
  elapse at any moment. `receive_timeout_seconds` is taken as positive.
- Order: any queue item may be popped; any candidate may be picked.
- The two updates of `MarkDispatched` are one action (a fault may keep the first alone).
- At most one handler at a time is between its write and its release of a given row. This
  removes behaviours: releases of one row are idempotent, so a second one changes nothing.
- The owner check of a report and its write are one action; PowerJob workers have no
  check, and their reports cover the window.
- `Retry` reads and writes in one action.
- The pump binds the slot of the new row itself; here the row does (`Bind`) and the pump
  may already be at its next row.
- Jobs do not change and are not deleted, and the limits of the scans (500 rows,
  `scheduler.limit`, 5000 at recovery) are not reached. This removes behaviours.
- Panics, callbacks, log lines and request parsing are left out. A graceful shutdown is
  covered by `Crash`, which may come after any step.
- `InstanceService.SetStatus` has no route and is not an action.

### How `CallbackPump` corresponds to the code

`cb[e]` is a row of `instance_callback` (state and attempt; "purged" and "deleted" when it
is gone). `pump` is the goroutine of `run`: `todo` holds the rows of the current scan with
the attempt read then, `cur` the row `once` is at, `pc` which statement comes next:

    idle --send--> progress --MarkRetry--> sent --MarkSent--> idle
              \-> fail --MarkRetry or MarkDead--> idle
         progress at the limit --MarkDead--> idle

`Update` is what the three marks share: `WHERE id = ?` with no guard on the state, no
effect on a row that is gone, and an error that `once` only logs. `sends` and `acked` are
history: calls of `send`, and events that got a 2xx. After an error nobody knows whether
the receiver took the event; at a shutdown `send` fails at once, which counts as an attempt
too. `PurgeOld` (its own goroutine) and `DeleteJob` interleave with the pump. Time is
abstracted: a backoff or the retention may be over at any moment, and `ListDue` may return
any of the pending rows. Which change of an instance makes a row is not modelled: a row
may appear at any time.

### How `ManualQueue` corresponds to the code

| variable | code |
|---|---|
| `row` | status and priority of the row; "active" stands for `waiting_receive` and `running`, "ended" for every final status |
| `heap` | `pq` (a sequence of pointers), the items with `priority`, `seq` and `pqIdx`, and the keys of `pqIndex` |
| `timer` | a push under way: the goroutine of `SubmitManual`, the timer of `SubmitManualDelayed` or of `requeueAfterNoWorker`, with the priority it has captured |
| `notifying`, `wake` | pushers between unlock and `notifyWake`; the token in the channel |
| `disp` | where `RunManualDispatcher` is: testing the length, asleep, with an item in hand, pushing it back, in the 100 ms pause |
| `task` | `runManualHeld` of a row, or `requeueAfterNoWorker` |
| `slots`, `held` | the same as in `Scheduler` |
| `call` | a caller of `SetPriority` between its two writes |

`Less`, `Swap`, `Push` and `Pop` are the methods of `pqHeap`; `Up`, `Down` and `Fix` are
those of `container/heap` (external), with places counted from 1. Their loops, and the one
of `RecoverQueued`, are rounds of `Loop`: a round does nothing once the loop has stopped,
so that the number of rounds is a bound and not part of the algorithm. Nothing is sorted by
definition: that the head of `pq` is the best item is what `ImplementsPriorityQueue`
checks. Only the list of `RecoverQueued` is given by its order (`ORDER BY` in
`ListQueued`): its n-th row is the one with n - 1 rows ahead of it. Taken together here and spread over several steps in `Scheduler`: the dispatch
proper, between the read of the row and the answer of the worker. No database call fails,
and a row handed back by its worker is left to `Scheduler` (`handed_back`). `SetPriority`
reads and writes in one action: its guard is in the statement (`status = 'queued'`).

### How `Catalog` corresponds to the code

Time is a counter. A cron expression is the set of instants it names, an interval the set
of its length, `Bad` a text that does not parse; the empty set is a five-field cron
expression that names no instant (it does not parse as anything else). `Expression` is the
set of texts that occur. A deleted row keeps its place in `rows` as "deleted", so that ids
stay what they are. A job has `enabled`, `kind`, `expr`, the window `start` and `end`,
its source (`from`), the two retry options and `next`.

- `call[c]` is one request. What the code reads before it writes is kept in it: a copy and
  an import hold the job or definition to create, an import of a known source the fields to
  update, an update the columns it has computed. Each read and each write is an action.
- `CreateJob` is the REST request, `SaveJob` the OpenAPI one, whose kind has gone through
  the wire codes; `JobToDTO`, `SavedFields` and `ConvertPJJob` are the conversions between
  a job, what is exported, what is saved and what a PowerJob server offers.
- `Fingerprint` maps the spellings of a server's address to one source.
- `list[j]` is the copy of a due job `runOnce` has read, `exec[j]` its goroutine
  `execute`: `compute`, `claim` (`AdvanceNextRun`), `create`.
- `slots[j]` is the one counter of a job that scheduled, manual and retry rows share;
  `dispatch` asks for its first slot (`TryAcquire(j, 1)`), the others for one of
  `MaxConcurrency`. What a row does with it is all that is kept of a row (`Scheduler` models
  the rest): a row *queued* for a slot takes one (`TakeSlot`), gives it back when no worker
  is online (`GiveBack`), and leaves it when it ends (`EndRow`) or is deleted; a retry takes
  one again (`RetryRow`). A manual row that its worker hands back keeps its slot (*handed*).
  A crash empties the counter: rows with a worker go on without a slot (*loose*), the others
  are queued again.
- A retry is a round of the row it retries, and which ends are failures is left open: any
  row that ended may be retried while `RetryCount` lasts.
- The claim and the create of a scheduled row may fail (`ClaimFails`, `CreateRowFails`).
- `overtaken` is history: the jobs of which some update was written after the job had
  changed since it was read, or after the cursor it had computed was already due. The code
  has no guard against either, so the properties about definitions are stated for the
  other jobs; what happens to overtaken ones is told below.
- One app; columns no code of the module reads (name, tag, parameters, limits) are left
  out, so is the dry run of an import. An import of several jobs is several requests.

## Runs

The runs of `callbacks.cfg` are of `CallbackPump`, `queue` and `stale_priority` of `MCQueue`,
`catalog` and `impossible_cron` of `MCCatalog`, all others of `MCScheduler`. `MaxTriggers`, `MaxCalls`, `MaxExpiries`, `MaxCrashes`,
`MaxMishaps`, `MaxTime` and the sets `Instance`, `JobId` and `Caller` (one request each) are
bounds of the model, `JobId` through `HasNextId`. When they are used up the model stops, so
the runs say `CHECK_DEADLOCK FALSE`.

| run | instance | what it shows |
|---|---|---|
| `core` | 2 rows, one job, one slot, one retry, hand-backs and late reports, one call | `SlotAccounting`, `InFlightBound`, `InflightExact`, `RetryNeverLost`, and that `Scheduler` implements `RunLifecycle` |
| `crash` | one chain with one retry and a third row left over, 2 workers of both protocols, one crash, one call, warm-up | `NoLeakedSlot`, `RetryChain`, `OneLiveAttempt`, `NoRedelivery`, `NothingStranded`, `TerminalStable` |
| `faults` | a job with 2 slots, a scheduled or manual row and its retry, one Stop or Retry call, every database call may fail, a worker expires and is swept, no execution timeout | `TypeOK`, `SlotAccounting`, `NoLeakedSlot`, `InflightNoOvercount` |
| `live` | 2 rows, one retry, fairness | `RunsEnd`, `RetriesHappen` |
| `queue` | 3 rows, two jobs with one slot each, one `SetPriority` up or down, one missing worker or restart, one row stopped, fairness | `TypeOK`, `IndexExact`, `OneCarrier`, `NoLostWakeup`, `SlotsHeld`, `QueueDrains`, and that `ManualQueue` implements `PriorityQueue` |
| `catalog` | 2 job ids, one job with 2 slots and one with a retry, one server with two spellings, 2 requests, 3 instants, one crash, failing claim or failing create, fairness | `TypeOK`, `EnabledIsScheduled`, `OncePerDue`, `SourceOnce`, `SlotHeld`, `ClaimInForce`, `PartialUpdate`, `DueIsTaken` |
| `callbacks` | 2 events, 2 attempts, 2 failing database calls, one crash, fairness | `TypeOK`, `SendsBounded`, `GivenUpLate`, `FinalStays`, `EventsEnd` |

Why the bounds are enough: two rows are the fewest that compete for one slot, and each
hazard listed in `PROJECT.json` needs at most two actors on one row and one more row; the
third row of `crash` is where a second child of the same row would go; one crash, one expiry
and one call at every possible point meet every step of every other actor. In `faults` both
slots are in use when a scheduled run is claimed beside a manual row, and when a row that
was just finished is retried before its releaser gets to its slot. No safety property depends
on the bounds: each is proved for all values of the constants. In `callbacks`, two events
show that rows of one scan do not disturb each other, and two attempts are the fewest with
one that is not the last.

Three rows are the fewest with an item that is moved by `Swap` while another is set, and
with a refused item in front of one of another job. Two requests at a time are the fewest
that overtake each other; with two ids a copy or an import meets the job it may duplicate;
three instants let a cursor come due, be claimed, and come due again while a row of the
first instant is still in flight. Two requests and a scheduled run are one more than the
slots, so that a manual row waits for a slot and a due job for both kinds of rows; the
window makes the first claim one without a row; a retry of the imported job takes the only
slot that its next scheduled run needs; and the crash or failing call falls anywhere.

Some properties are checked where they are meant and not elsewhere. `RetryNeverLost` is
about failures the scheduler itself decides: in `core` workers report running and success or hand the
row back. `InflightExact` is stated without sweeps; `InflightNoOvercount` with them.
`NothingStranded` is checked for workers that do not hand rows back. `TerminalStable` allows
the one write without a guard, Stop or Cancel of a row already finished.
`EnabledIsScheduled`, `OncePerDue`, `ClaimInForce` and `PartialUpdate` leave out jobs some
update of which was overtaken; what may happen to these is told below.
`DueIsTaken` leaves out jobs with a manual row handed back and not yet stopped: it keeps its
slot, so `dispatch` passes over the job (the row is the one of `handed_back`).

### What the code does and its documents do not say

Five runs show a disagreement with a document or comment (quoted in `PROJECT.json`,
`findings`):

- `reported_failed`: a row that its worker reports failed gets no `next_retry_time`; the
  documents say that `failed` and `timeout` are retried while the budget lasts.
- `waiting_failed`: `ListUnboundQueued` assumes that an unbound queued scheduled row was
  handed back, but such rows also wait in the queue for a worker to come online, and the
  reaper fails them after 30 s; the documents say they are not failed.
- `handed_back`: a manual row that its worker hands back is in no queue any more, is not
  scanned by the reaper and keeps its slot, which also stops the schedule of its job; the
  document says it is dispatched again.
- `stale_priority`: a priority set while a delayed trigger waits in its timer does not
  reach the item that is pushed later; the comments say that no stale priority remains.
- `impossible_cron`: for a five-field cron expression that names no instant (30 February)
  the next run is the zero time, which is due for ever: one run follows the other. (With
  SQLite; MySQL in strict mode refuses the date when the job is written.)

Met while modelling, without a run of its own:

- After a restart slots are not rebuilt for rows still with workers, so a job may exceed
  `MaxConcurrency`: `core.cfg` with `MaxCrashes = 1` violates `InFlightBound`.
- An event whose last attempt is answered with 2xx is marked dead although no database
  call fails (`markProgress` compares the count before `MarkSent`).
- `fix_delay` is timed from the trigger like `fix_rate`, not from the completion of the
  last run (design.md:157): a run longer than the delay is followed at once by the next (not
  before, as `dispatch` starts no scheduled run beside a row of the job that has a slot).
- `delay` ("after the creation", design.md:158) comes back after each run, and `run_at`
  ("once at a time", design.md:159) never has a cursor.
- `copyJob` copies the source of its original, so its create always meets the unique
  index; `SourceOnce` holds because of it, and API.md:448 promises a new job.
- What `exportJob` returns makes a `delay` job an `api` job when it is saved again.
- Of two updates at the same time, one that enables a job and one that gives it a schedule,
  neither computes a cursor, and the job is enabled without one, although the comment of
  `Update` (dservice/job.go:109) says that recomputing prevents this; an update written late
  may bring back an instant already run, or hold a cursor already past. These are the
  overtaken jobs.
- Stop and Cancel write over a final status, as the comment of `SetStatus` says: a row that
  has just succeeded becomes stopped.
- A job deleted between the read and the create of a trigger or a claim leaves a row
  without a job, which the recovery skips.
- The test against overflow of an interval (`schedtime/next.go:83`) comes after the
  product may have wrapped around.
- The comment at `scheduler.go:442` says that a refused item goes to the tail, the one at
  line 465 that it keeps its place: it keeps its place.

### Fairness

`FairSpec` assumes what the code's loops do: goroutines run on (`WF` of every dispatch
step, of the reaper's and pump's steps, of a handler's release, of recovery), workers that
live keep sending heartbeats, timers fire. Strong fairness stands at three places. A queue
item whose job has free slots again and again is popped in the end: true of items of equal
priority, which the heap serves first in first out (a stream of higher priority may starve
it). A due row is in some scan of the pump. And a row the reaper looks at again and again
is ended in the end, because the age it is judged by only grows; a job of the run has
`TimeoutSec > 0`, without which the code promises nothing. No fairness is assumed of
reports, triggers, Stop, Cancel or Retry, of crashes or of failing calls.

`ManualQueue`: the dispatcher goes on whenever it can (it returns only when the process
stops), the pushers, timers and goroutines of each row go on, and a worker that has a row
ends it. With this alone `QueueDrains` holds: an item refused for want of a slot is popped
again, in front of others, but each time after the pause, and slots come back. The number
of rows is bounded: with triggers of higher priority without end a row may wait for ever.

`Catalog`: the scan and its goroutine go on for each job. While rows of a job have
a slot again and again, one of them ends at last (strong fairness of `LeaveSlot`): its worker
reports, or the reaper ends it, and no row waits for a worker for ever, giving its slot back
in each round. None is assumed for a row handed back, nor of requests, retries, crashes, or of time:
`DueIsTaken` says that a due job is worked off even if the clock stands still.

`CallbackPump` has its own `FairSpec`: the loop goes on with the row it is at (`send` has a
timeout), and each pending row is in some later scan, because `ListDue` takes the rows due
longest first. Failing database calls are bounded, so "every event ends" means once they
succeed again.

## Proofs

TLAPS checks every theorem for every value of the constants that satisfies the assumptions
of its module (`SchedulerAssumption`, `CallbackAssumption`, `QueueAssumptions`,
`CatalogAssumptions`, `DefinitionAssumptions`): any finite set of rows and workers, any jobs,
limits, budgets, requests and bounds, with crashes and failing calls unless a hypothesis
says otherwise. Every safety property that a passing run checks has its theorem.

### What is proved, and the hypotheses

| theorem | property | hypothesis, and what the code does without it |
|---|---|---|
| `TypeCorrect`, `SlotNotLeaked`, `SlotsExact` | `TypeOK`, `NoLeakedSlot`, `SlotAccounting` | none |
| `FinalIsFinal`, `CountsNotOver` | `TerminalStable`, `InflightNoOvercount` | none |
| `CountsExact` | `InflightExact` | no heartbeat expires: `Sweep` forgets a worker's count while rows hold it (a release between unlock and `ReleaseInflight` is counted, not excluded) |
| `SentOnce` | `NoRedelivery` | no hand-backs, or no crash: `RecoverQueued` queues a row handed back like one never sent |
| `NobodyStranded` | `NothingStranded` | no hand-backs (`handed_back`), no failing calls: a failed `Get` drops a queue item |
| `HandedBackFound` | an unbound row, for the reaper's scan | no failing calls |
| `ChainsInOrder`, `OneAttemptAtATime` | `RetryChain`, `OneLiveAttempt` | no failing calls: a failed `ExistsRetryChild` counts as "no child" |
| `NoRetryLost` | `RetryNeverLost` | no crash and no failing call between failure and mark, or claim and create; no failure reported by the worker (`reported_failed`) |
| `WithinLimit` | `InFlightBound` | no crash: slots start at zero while rows stay with workers; no failing calls |
| `RunLifecycleImplemented` | `ImplementsRunLifecycle` | the same, because `RunLifecycle` promises the limit and one retry at a time |
| `PumpTypeCorrect`, `AttemptsBounded`, `NotGivenUpEarly`, `FinalRowsStay` | those of `callbacks` | none |
| `QueueTypeCorrect`, `QueueIndexExact`, `QueueOneCarrier`, `QueueWakes`, `QueueSlotsHeld`, `QueueImplemented` | those of `queue` | none |
| `CatalogTypeCorrect`, `SourcesOnce`, `SlotsOwned`, `EnabledScheduled`, `ClaimsInForce`, `UpdatesPartial` | those of `catalog` | none |
| `RunOncePerDue` | `OncePerDue` | no cron expression without an instant (`impossible_cron`) |

The hypotheses are those of the runs: `core` has no crash, no failing call and no expiry,
and its workers report no failure; in `crash` workers hand no row back and no call fails.

### The arguments

*Dispatch core.* The types alone are not inductive: an action that reads
`ins[pump.ins].job` needs that `pump.ins` is a row. `Refs` says that every reference held by
a goroutine, a loop or a handler is to an existing row, and that a dispatch past `pick` has
a target; `RowsKept` that a step never takes a row away or changes its job, root or index.

- `SlotNotLeaked` rests on `Quiet` (nothing runs during the recovery) and `HeldFree` (a row
  is not held before its dispatch binds it or after it was given back to wait):
  `MarkDispatched` sees every end that happens before it, and every end after it comes with
  its own release.
- `SlotsExact`: every step is of one of three kinds, each a lemma about cardinalities:
  neutral (`Neutral`), one more user or claim with one more slot (`AddUser`), or a release
  (`Release`: a held row leaves together with its slot).
- `SentOnce`, `NobodyStranded` and `HandedBackFound` rest on `Course`: a row on its way has
  not been delivered and no worker reports on it (`Unsent`); one that was sent is queued
  again by a hand-back only, which unbinds it (`Marked`); whoever releases or retries a row
  finds it finished (`Ended`); and a queued row has a carrier (`Carried`).
- The counts: a release under `slotMu` leaves the rows that a count stands for (`SentTo`)
  as they are, since the row goes from `held` to `owed`; it leaves them, and the count goes
  down, at `LowerInflight`. `AddrHeld` (an address stands in `held` only for a bound row
  whose dispatch is over) says that no row is in both, and with it `Counts` holds step by
  step.

*Retries.* `Shape` is what the rows alone say: roots exist, indexes are dense and within
the budget. It holds with failing calls too. `Single` ties the rows to the pump: no two
rows of a chain have one index, the pump creates only where there is no child, and only
finished rows have children. That is inductive together with `Course`, because a finished
row stays finished.

*Refinement of `RunLifecycle`.* `LiveHeld` (a live row with a worker or on its way to one
holds its slot) gives the limit. Every step that the abstract run sees is a new row
(`MapTrigger`, `MapRetry`) or one write of one status (`OneStatus`, `MapStatus`); the other
steps stutter.

*Callback pump.* The pump counts from what it has read: `Todo` and `Current` say that a row
the pump knows of is still pending with that very attempt, or was deleted, and that it is
in the scan once; `Rows` relates attempts to calls of `send`, which differ by the call in
flight and by the counts lost (`Lost`). `MarkIInv` covers the three actions that mark a row.

*Manual queue.* The loops of `container/heap` are followed round by round. `LoopRule` says
that what holds at the start and is handed on by each round holds at the end; it is proved
from the well-foundedness of finite sets, since induction over numbers is not available.
The loop invariants are: all places are in order but for one item, which may be too good
for its place while `Up` runs (`AlmostUp`) or too bad while `Down` runs (`AlmostDown`), and
the children of that place are no better than its parent (`Grandparent`). After a change
of priority the item may be either (`AlmostFix`): `Down` orders the heap or leaves it as it
was for `Up` (`DownSorts`, `UpSorts`). From these follow `PushSorts`, `PopSorts`,
`ReprioritizedSorts`, and, because the root of an ordered heap is the best of all
(`RootFirst`, by a least counterexample), each step of `PriorityQueue`. `RebuildSorts` is
about the loop of `RecoverQueued`: the places of `RecoveryOrder` are a bijection
(`RecoveryOrderLists`), so every queued row is pushed once. The invariant of the steps is
`QueueInv`: order and index (`HeapInv`), different numbers of the items, of the one in hand
too (`Numbered`), and where a row is and what its status says of it (`Carried`), which the
slots need: a row refused, dropped or requeued is not held.

*Job table.* `CatalogInv` has one conjunct for each place that knows something of a job.
`CopiesInForce`: the cursor of a job never comes back to that of a copy under another
schedule, so that the compare-and-set on the cursor alone proves the copy to be in force.
`NextComputed` and `WritesSound`: what a goroutine or a request has computed and not yet
written fits what it has read. `JobsSound`: an enabled job is legal and has a cursor or is
exhausted, unless overtaken. `SlotsCounted`: the counter is the number of rows with a slot
plus one for the goroutine, also for an id not yet given; a step of a row moves both or
neither (`RowStepEffect`). `FreshIds` and `SourceOnce` are the rest; `RunOncePerDue` adds `RowsBehind` (the rows of a job lie before its cursor).

### Only model-checked

- Liveness: `RunsEnd`, `RetriesHappen`, `QueueDrains`, `DueIsTaken`, `EventsEnd`. Fairness
  and ENABLED are beyond the prover.
- What the five runs with a counterexample show.

## Plan

1. Done: `InstanceStatus`, `Scheduler`, `RunLifecycle`, `SchedulerRefinement`, their runs.
2. Done: `CallbackPump` with its run.
3. Done: `PriorityQueue` and `ManualQueue` with their runs.
4. Done: `Catalog` with its runs.
5. Done: the theorems above, for every safety property of the passing runs.
6. Open: what still holds where a hypothesis of a theorem fails, as theorems of their own.
   With failing calls, a second child of a row comes only from a failed `ExistsRetryChild`;
   after a crash a job exceeds its limit by no more than the rows then with workers.

## What is not modelled

See `components` in `PROJECT.json` for each part.

- Retry backoff (`retryBackoff`, `computeRetryInterval`): a pure function; the models let
  any delay elapse.
- Instance log, sessions and login limiter: state of their own, each operation under one
  lock, and nothing that schedules depends on them.
- Accounts of apps and admins: single statements. `App.Delete` counts the jobs of the app
  and then deletes it, and `JobService.Create` does not look at the app, so a job may be
  created for an app just deleted; the models have one app.
- Failing database calls in `ManualQueue` and, but for the claim and the create of a
  scheduled row, in `Catalog` (they are in `Scheduler` and `CallbackPump`).
- `DomainToWire`, views, lists, request parsing, configuration, logging, the PowerJob
  client and the web console: input and output without scheduling state.
