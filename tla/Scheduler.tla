------------------------------ MODULE Scheduler ------------------------------
(***************************************************************************)
(* The dispatch core of tp-job: the rows of table job_instance, the        *)
(* scheduler's in-memory state (job slots, held instances, queue, timers,  *)
(* dispatch goroutines, reaper, retry pump), the worker registry and the   *)
(* workers' reports.                                                       *)
(*                                                                         *)
(* One action is one database statement or transaction, or one critical    *)
(* section; goroutines interleave between them.  Time is abstracted: a     *)
(* delay, a heartbeat timeout or a receive or execution timeout may elapse *)
(* at any moment.                                                          *)
(***************************************************************************)
EXTENDS Integers, FiniteSets, InstanceStatus

CONSTANTS Instance,        \* primary keys of job_instance (bounds the run)
          Job, Worker, None,
          AutoJob,         \* jobs with a schedule
          MaxConcurrency,  \* [Job -> Int]
          RetryCount,      \* [Job -> Int]
          HasTimeout,      \* jobs with TimeoutSec > 0
          Matches,         \* [Job -> SUBSET Worker]: workers whose tags match
          HttpWorker,      \* workers of the simple protocol: their reports are owner-checked
          Reports,         \* statuses a worker reports
          StopStatuses,    \* statuses the Stop and Cancel calls write
          DbFaults,        \* may a database call fail?
          Warmup,          \* is worker.warmup_seconds > 0?
          MaxCrashes,      \* bound on crashes of the server
          MaxTriggers,     \* bound on triggered rows (retries come on top)
          MaxExpiries,     \* bound on expired heartbeats
          MaxCalls         \* bound on Stop, Cancel and Retry calls

ASSUME SchedulerAssumption ==
  /\ Instance \subseteq Nat /\ IsFiniteSet(Instance) /\ IsFiniteSet(Worker)
  /\ None \notin Instance \cup Job \cup Worker
  /\ AutoJob \subseteq Job /\ HasTimeout \subseteq Job
  /\ MaxConcurrency \in [Job -> Int] /\ RetryCount \in [Job -> Int]
  /\ Matches \in [Job -> SUBSET Worker] /\ HttpWorker \subseteq Worker
  /\ Reports \subseteq Status
  /\ StopStatuses \subseteq {"stopped", "canceled"}
  /\ DbFaults \in BOOLEAN /\ Warmup \in BOOLEAN
  /\ MaxCrashes \in Nat /\ MaxTriggers \in Nat
  /\ MaxExpiries \in Nat /\ MaxCalls \in Nat

VARIABLES
  ins,        \* [Instance -> row of job_instance]
  task,       \* [Instance -> where the goroutine, queue item or timer of the row stands]
  target,     \* [Instance -> worker that the dispatch of the row picked]
  slots,      \* Scheduler.slots: job -> slots taken
  held,       \* domain of Scheduler.held
  haddr,      \* worker address in Scheduler.held
  inflight,   \* Registry.inflight: worker -> count
  owed,       \* [Instance -> worker whose count the releaser of the row has yet to lower]
  claiming,   \* jobs whose scheduled run took a slot and has no row yet
  handler,    \* rows an HTTP handler has written and not yet released
  reap,       \* reaper: [pc, ins, todo]
  pump,       \* retry pump: [pc, ins, todo]
  known,      \* workers with an entry in Registry.workers
  online,     \* workers whose heartbeat is fresh
  warm,       \* inWarmup
  phase,      \* "up", or "boot" while main runs the recovery
  boot,       \* row RecoverStaleActive has failed and not yet scheduled for retry
  spent,      \* crashes, expiries and calls so far
  delivered   \* [Instance -> workers that received the run request]

dbVars   == <<ins>>
taskVars == <<task, target>>
slotVars == <<slots, held, haddr, inflight, owed>>
loopVars == <<claiming, handler, reap, pump>>
regVars  == <<known, online>>
envVars  == <<warm, phase, boot>>
vars == <<dbVars, taskVars, slotVars, loopVars, regVars, envVars, delivered, spent>>
-----------------------------------------------------------------------------
(* Definitions whose comment begins with "Wrong:" are deliberately broken      *)
(* variants of the definition after them.  No action uses one: put in its      *)
(* place, TLC must find the property it names violated.                        *)

(* Rows. *)

Absent == [status |-> "absent", job |-> None, trig |-> "none", root |-> None,
           idx |-> 0, addr |-> None, retryAt |-> FALSE]

\* retryAt: next_retry_time is not null.  root: None stands for 0, the row is the first.
Row == [status: Status, job: Job, trig: TriggerType, root: Instance \cup {None},
        idx: Nat, addr: Worker \cup {None}, retryAt: BOOLEAN]

NewRow(j, trig, root, idx) ==
  [status |-> "queued", job |-> j, trig |-> trig, root |-> root, idx |-> idx,
   addr |-> None, retryAt |-> FALSE]

Exists(i)     == ins[i].status # "absent"
IsTerminal(i) == ins[i].status \in Terminal
IsActive(i)   == ins[i].status \in Active

\* The primary key is assigned in increasing order.
IsNextId(i) == ~Exists(i) /\ \A k \in Instance : k < i => Exists(k)

RootOf(i) == IF ins[i].root = None THEN i ELSE ins[i].root

SlotCap(j) == IF MaxConcurrency[j] < 1 THEN 1 ELSE MaxConcurrency[j]

\* The row as the guarded write of status s leaves it: "queued" unbinds the worker.
Written(row, s) ==
  [row EXCEPT !.status = s, !.addr = IF s = "queued" THEN None ELSE @]

\* scheduleRetry: sets next_retry_time when the job has budget left.
HasBudget(row) == RetryCount[row.job] > 0 /\ row.idx < RetryCount[row.job]
WithRetry(row) == [row EXCEPT !.retryAt = @ \/ HasBudget(row)]
-----------------------------------------------------------------------------
(* Slots (all under slotMu). *)

\* Wrong: a count is not kept at zero (TypeOK).
DecUnguarded(n) == n - 1

Dec(n) == IF n <= 1 THEN 0 ELSE n - 1

\* Wrong: one slot too many (InFlightBound).
TryAcquireOffByOne(j, max) ==
  /\ slots[j] <= max
  /\ slots' = [slots EXCEPT ![j] = @ + 1]

TryAcquire(j, max) ==
  /\ slots[j] < max
  /\ slots' = [slots EXCEPT ![j] = @ + 1]

ReleaseByJob(j) == slots' = [slots EXCEPT ![j] = Dec(@)]

\* Wrong: the worker's count is not given back (InflightNoOvercount).
ReleaseKeepsCount(i) ==
  /\ held' = held \ {i}
  /\ haddr' = [haddr EXCEPT ![i] = None]
  /\ slots' = IF i \in held THEN [slots EXCEPT ![ins[i].job] = Dec(@)] ELSE slots
  /\ UNCHANGED owed

\* What happens under slotMu.  The worker's count is lowered after the unlock
\* (LowerInflight), by the one who found the row held.
ReleaseByInstance(i) ==
  /\ held' = held \ {i}
  /\ haddr' = [haddr EXCEPT ![i] = None]
  /\ slots' = IF i \in held THEN [slots EXCEPT ![ins[i].job] = Dec(@)] ELSE slots
  /\ owed' = IF i \in held THEN [owed EXCEPT ![i] = haddr[i]] ELSE owed

BindHeld(i) ==
  /\ held' = held \cup {i}
  /\ haddr' = [haddr EXCEPT ![i] = None]

\* Wrong: counts the send although the slot has been released (InflightExact).
BindWorkerAddrUnchecked(i, w) ==
  /\ haddr' = [haddr EXCEPT ![i] = IF i \in held THEN w ELSE @]
  /\ inflight' = [inflight EXCEPT ![w] = @ + 1]

\* Only when the slot is still held: a release in between has already happened.
BindWorkerAddr(i, w) ==
  IF i \in held
  THEN /\ haddr' = [haddr EXCEPT ![i] = w]
       /\ inflight' = [inflight EXCEPT ![w] = @ + 1]
  ELSE UNCHANGED <<haddr, inflight>>

\* Bounds of the model, not of the code.
CanTrigger ==
  /\ Cardinality({i \in Instance : Exists(i) /\ ins[i].root = None}) < MaxTriggers
  /\ pump.pc = "create" => Cardinality({i \in Instance : ~Exists(i)}) > 1

IdLeft == \E i \in Instance : ~Exists(i)

Spend(what, max) ==
  /\ spent[what] < max
  /\ spent' = [spent EXCEPT ![what] = @ + 1]

\* The loops and the HTTP server are started when the recovery is over; every other
\* action has its cause in one of theirs.
Up == phase = "up"

Goto(i, pc) == task' = [task EXCEPT ![i] = pc]
SetTarget(i, w) == target' = [target EXCEPT ![i] = w]
-----------------------------------------------------------------------------
Init ==
  /\ ins = [i \in Instance |-> Absent]
  /\ task = [i \in Instance |-> "idle"]
  /\ target = [i \in Instance |-> None]
  /\ slots = [j \in Job |-> 0]
  /\ held = {}
  /\ haddr = [i \in Instance |-> None]
  /\ inflight = [w \in Worker |-> 0]
  /\ owed = [i \in Instance |-> None]
  /\ claiming = {}
  /\ handler = {}
  /\ reap = [pc |-> "idle", ins |-> None, todo |-> {}]
  /\ pump = [pc |-> "idle", ins |-> None, todo |-> {}]
  /\ known = {}
  /\ online = {}
  /\ warm = Warmup
  /\ phase = "up"
  /\ boot = None
  /\ spent = [crashes |-> 0, expiries |-> 0, calls |-> 0]
  /\ delivered = [i \in Instance |-> {}]
-----------------------------------------------------------------------------
(* Scheduled trigger: dispatch and execute. *)

\* A due job takes a slot only when the job has none in flight.
AutoAcquire(j) ==
  /\ Up
  /\ j \in AutoJob
  /\ TryAcquire(j, 1)
  /\ claiming' = claiming \cup {j}
  /\ UNCHANGED <<dbVars, taskVars, held, haddr, inflight, owed, handler, reap, pump, regVars, envVars, delivered, spent>>

\* The cursor had moved, the run is outside the window, or a database call failed.
AutoAbandon(j) ==
  /\ j \in claiming
  /\ ReleaseByJob(j)
  /\ claiming' = claiming \ {j}
  /\ UNCHANGED <<dbVars, taskVars, held, haddr, inflight, owed, handler, reap, pump, regVars, envVars, delivered, spent>>

AutoCreate(j, i) ==
  /\ j \in claiming
  /\ IsNextId(i) /\ CanTrigger
  /\ ins' = [ins EXCEPT ![i] = NewRow(j, "auto", None, 0)]
  /\ Goto(i, "bind")
  /\ claiming' = claiming \ {j}
  /\ UNCHANGED <<target, slotVars, handler, reap, pump, regVars, envVars, delivered, spent>>
-----------------------------------------------------------------------------
(* Manual trigger, queue and queue consumer. *)

\* The row exists before the item reaches the queue: at once, or when the delay is over.
SubmitManual(j, i) ==
  /\ Up
  /\ IsNextId(i) /\ CanTrigger
  /\ ins' = [ins EXCEPT ![i] = NewRow(j, "manual", None, 0)]
  /\ Goto(i, "timer")
  /\ UNCHANGED <<target, slotVars, loopVars, regVars, envVars, delivered, spent>>

PushPending(i) ==
  /\ task[i] = "timer"
  /\ Goto(i, "queue")
  /\ UNCHANGED <<dbVars, target, slotVars, loopVars, regVars, envVars, delivered, spent>>

\* The queue order is not modelled: any item may be the one popped.
PopPending(i) ==
  /\ task[i] = "queue"
  /\ TryAcquire(ins[i].job, SlotCap(ins[i].job))
  /\ Goto(i, "check")
  /\ UNCHANGED <<dbVars, target, held, haddr, inflight, owed, loopVars, regVars, envVars, delivered, spent>>

\* Slots full: a live item goes back into the queue, a finished one is dropped.
DropPending(i) ==
  /\ task[i] = "queue"
  /\ slots[ins[i].job] >= SlotCap(ins[i].job)
  /\ IsTerminal(i)
  /\ Goto(i, "idle")
  /\ UNCHANGED <<dbVars, target, slotVars, loopVars, regVars, envVars, delivered, spent>>

\* Wrong: drops a finished item and keeps its slot (SlotAccounting).
CheckPendingKeepsSlot(i) ==
  /\ task[i] = "check"
  /\ Goto(i, IF IsTerminal(i) THEN "idle" ELSE "bind")
  /\ UNCHANGED <<dbVars, target, slotVars, loopVars, regVars, envVars, delivered, spent>>

\* runManualHeld looks at the row again before it binds the slot; a failed Get drops the item.
CheckPending(i) ==
  /\ task[i] = "check"
  /\ \/ /\ IsTerminal(i) \/ DbFaults
        /\ ReleaseByJob(ins[i].job)
        /\ Goto(i, "idle")
     \/ /\ ~IsTerminal(i)
        /\ Goto(i, "bind")
        /\ UNCHANGED slots
  /\ UNCHANGED <<dbVars, target, held, haddr, inflight, owed, loopVars, regVars, envVars, delivered, spent>>
-----------------------------------------------------------------------------
(* dispatchToWorker and the two continuations of its callers. *)

Bind(i) ==
  /\ task[i] = "bind"
  /\ BindHeld(i)
  /\ Goto(i, "pick")
  /\ UNCHANGED <<dbVars, target, slots, inflight, owed, loopVars, regVars, envVars, delivered, spent>>

Candidates(i) == online \cap Matches[ins[i].job]

\* Load and score only order the candidates: any of them may be picked.
PickWorker(i) ==
  /\ task[i] = "pick"
  /\ \/ \E w \in Candidates(i) : SetTarget(i, w) /\ Goto(i, "mark")
     \/ Candidates(i) = {} /\ Goto(i, "unpicked") /\ UNCHANGED target
  /\ UNCHANGED <<dbVars, slotVars, loopVars, regVars, envVars, delivered, spent>>

\* A second look at the registry decides between waiting and failing.
HasOnlineWorker(i) ==
  /\ task[i] = "unpicked"
  /\ Goto(i, IF online = {} THEN "noworker" ELSE "fail")
  /\ UNCHANGED <<dbVars, target, slotVars, loopVars, regVars, envVars, delivered, spent>>

\* Wrong: a row found finished is left without a release (NoLeakedSlot).
MarkDispatchedKeepsSlot(i) ==
  /\ task[i] = "mark"
  /\ ins' = [ins EXCEPT ![i].addr = target[i],
                        ![i].status = IF IsTerminal(i) THEN @ ELSE "waiting_receive"]
  /\ Goto(i, IF IsTerminal(i) THEN "idle" ELSE "send")
  /\ UNCHANGED <<target, slotVars, loopVars, regVars, envVars, delivered, spent>>

\* Wrong: no terminal guard on the status (TerminalStable).
MarkDispatchedUnguarded(i) ==
  /\ task[i] = "mark"
  /\ ins' = [ins EXCEPT ![i].addr = target[i], ![i].status = "waiting_receive"]
  /\ Goto(i, "send")
  /\ UNCHANGED <<target, slotVars, loopVars, regVars, envVars, delivered, spent>>

\* worker_address is written whatever the status; only the status is guarded.  With
\* callbacks off the two updates share no transaction: the second alone may fail.
MarkDispatched(i) ==
  /\ task[i] = "mark"
  /\ \/ /\ ins' = [ins EXCEPT ![i].addr = target[i],
                              ![i].status = IF IsTerminal(i) THEN @ ELSE "waiting_receive"]
        /\ Goto(i, IF IsTerminal(i) THEN "release" ELSE "send")
     \/ /\ DbFaults
        /\ ins' \in {ins, [ins EXCEPT ![i].addr = target[i]]}
        /\ Goto(i, "fail")
  /\ UNCHANGED <<target, slotVars, loopVars, regVars, envVars, delivered, spent>>

\* The POST may fail after the worker took the request.
Send(i) ==
  /\ task[i] = "send"
  /\ \/ /\ delivered' = [delivered EXCEPT ![i] = @ \cup {target[i]}]
        /\ \E pc \in {"sent", "fail"} : Goto(i, pc)
     \/ /\ Goto(i, "fail")
        /\ UNCHANGED delivered
  /\ UNCHANGED <<dbVars, target, slotVars, loopVars, regVars, envVars, spent>>

Sent(i) ==
  /\ task[i] = "sent"
  /\ BindWorkerAddr(i, target[i])
  /\ Goto(i, "idle")
  /\ SetTarget(i, None)
  /\ UNCHANGED <<dbVars, slots, held, owed, loopVars, regVars, envVars, delivered, spent>>

\* Wrong: returns when no row was changed, before the release (NoLeakedSlot).
FailDispatchReturnsEarly(i) ==
  /\ task[i] = "fail"
  /\ SetTarget(i, None)
  /\ \/ /\ ~IsTerminal(i)
        /\ ins' = [ins EXCEPT ![i] = [@ EXCEPT !.status = "failed", !.addr = None]]
        /\ Goto(i, "releaseretry")
     \/ IsTerminal(i) /\ Goto(i, "idle") /\ UNCHANGED ins
  /\ UNCHANGED <<slotVars, loopVars, regVars, envVars, delivered, spent>>

\* failDispatch, first statement.  No row changed: release without a retry.
FailDispatch(i) ==
  /\ task[i] = "fail"
  /\ SetTarget(i, None)
  /\ \/ /\ ~IsTerminal(i)
        /\ ins' = [ins EXCEPT ![i] = [@ EXCEPT !.status = "failed", !.addr = None]]
        /\ Goto(i, "releaseretry")
     \/ /\ IsTerminal(i) \/ DbFaults
        /\ Goto(i, "release")
        /\ UNCHANGED ins
  /\ UNCHANGED <<slotVars, loopVars, regVars, envVars, delivered, spent>>

\* What follows the release, by the path that led to it.
AfterRelease == [release |-> "idle", releaseretry |-> "retry", noworker |-> "requeue"]

ReleaseTask(i) ==
  /\ task[i] \in DOMAIN AfterRelease
  /\ ReleaseByInstance(i)
  /\ Goto(i, AfterRelease[task[i]])
  /\ SetTarget(i, None)
  /\ UNCHANGED <<dbVars, inflight, loopVars, regVars, envVars, delivered, spent>>

\* failDispatch, last statement.
RetryTask(i) ==
  /\ task[i] = "retry"
  /\ \/ ins' = [ins EXCEPT ![i] = WithRetry(@)]
     \/ DbFaults /\ UNCHANGED ins
  /\ Goto(i, "idle")
  /\ UNCHANGED <<target, slotVars, loopVars, regVars, envVars, delivered, spent>>

\* Wrong: the timer is not started (RunsEnd).
RequeueForgotten(i) ==
  /\ task[i] = "requeue"
  /\ Goto(i, "idle")
  /\ UNCHANGED <<dbVars, target, slotVars, loopVars, regVars, envVars, delivered, spent>>

\* requeueAfterNoWorker: a row that ended meanwhile is not queued again.
RequeueAfterNoWorker(i) ==
  /\ task[i] = "requeue"
  /\ \/ (~IsTerminal(i) \/ DbFaults) /\ Goto(i, "timer")
     \/ IsTerminal(i) /\ Goto(i, "idle")
  /\ UNCHANGED <<dbVars, target, slotVars, loopVars, regVars, envVars, delivered, spent>>
-----------------------------------------------------------------------------
(* Handlers: worker reports, Stop, Cancel and Retry.  At most one handler at *)
(* a time stands between its write and its release of one row.               *)

\* Wrong: a late report reopens a finished row (OneLiveAttempt).
ReportUnguarded(i, w, s) ==
  /\ Up
  /\ w \in delivered[i]
  /\ i \notin handler
  /\ ins' = [ins EXCEPT ![i] = Written(@, s)]
  /\ handler' = IF s \in Terminal THEN handler \cup {i} ELSE handler
  /\ UNCHANGED <<taskVars, slotVars, claiming, reap, pump, regVars, envVars, delivered, spent>>

\* Reports are lost, late, repeated and reordered at will.  The owner check of the
\* simple protocol compares the row's address; the PowerJob protocol has none, and
\* its codes do not cover every status.
Report(i, w, s) ==
  /\ Up
  /\ w \in delivered[i]
  /\ IF w \in HttpWorker THEN ins[i].addr = w ELSE s \in PowerJobReports
  /\ i \notin handler
  /\ ins' = IF IsTerminal(i) THEN ins ELSE [ins EXCEPT ![i] = Written(@, s)]
  /\ handler' = IF s \in Terminal THEN handler \cup {i} ELSE handler
  /\ UNCHANGED <<taskVars, slotVars, claiming, reap, pump, regVars, envVars, delivered, spent>>

\* Stop and Cancel write without the terminal guard.
Stop(i, s) ==
  /\ Up
  /\ Exists(i)
  /\ i \notin handler
  /\ Spend("calls", MaxCalls)
  /\ ins' = [ins EXCEPT ![i].status = s]
  /\ handler' = handler \cup {i}
  /\ UNCHANGED <<taskVars, slotVars, claiming, reap, pump, regVars, envVars, delivered>>

ReleaseInFlight(i) ==
  /\ i \in handler
  /\ ReleaseByInstance(i)
  /\ handler' = handler \ {i}
  /\ UNCHANGED <<dbVars, taskVars, inflight, claiming, reap, pump, regVars, envVars, delivered, spent>>

\* Registry.ReleaseInflight, the last thing a handler or a dispatch does for the row;
\* the reaper goes on to the retry.
LowerInflight(i) ==
  /\ owed[i] # None
  /\ inflight' = [inflight EXCEPT ![owed[i]] = Dec(@)]
  /\ owed' = [owed EXCEPT ![i] = None]
  /\ reap' = IF reap.pc = "lower" /\ reap.ins = i THEN [reap EXCEPT !.pc = "retry"] ELSE reap
  /\ UNCHANGED <<dbVars, taskVars, slots, held, haddr, claiming, handler, pump, regVars, envVars, delivered, spent>>

Retry(i) ==
  /\ Up
  /\ ins[i].status \in Retryable
  /\ HasBudget(ins[i])
  /\ Spend("calls", MaxCalls)
  /\ ins' = [ins EXCEPT ![i].retryAt = TRUE]
  /\ UNCHANGED <<taskVars, slotVars, loopVars, regVars, envVars, delivered>>
-----------------------------------------------------------------------------
(* Reaper: a list read from the database, then one row at a time. *)

Seen(i, hasJob) ==
  [ins |-> i, status |-> ins[i].status, addr |-> ins[i].addr, hasJob |-> hasJob]

\* loadJobs: when it fails, no row of the list has its job.
ReapScan(S) ==
  /\ Up
  /\ reap.pc = "idle" /\ reap.todo = {}
  /\ S # {}
  /\ \E hasJob \in {TRUE, ~DbFaults} : reap' = [reap EXCEPT !.todo = {Seen(i, hasJob) : i \in S}]
  /\ UNCHANGED <<dbVars, taskVars, slotVars, claiming, handler, pump, regVars, envVars, delivered, spent>>

ReapScanActive == ReapScan({i \in Instance : IsActive(i)})

\* ListUnboundQueued: queued, unbound, auto or retry, not updated for 30 s.
ReapScanUnbound ==
  \E S \in SUBSET {i \in Instance : /\ ins[i].status = "queued"
                                    /\ ins[i].addr = None
                                    /\ ins[i].trig \in {"auto", "retry"}} : ReapScan(S)

\* reapOnce and stallReason on the row as the scan saw it; "none" leaves the row alone.
StallVerdicts(r) ==
  IF ~r.hasJob \/ r.status = "queued" \/ r.addr = None \/ (~warm /\ r.addr \notin online)
  THEN {"failed"}
  ELSE {"none"} \cup (IF ~warm /\ r.status = "waiting_receive" THEN {"failed"} ELSE {})
                \cup (IF ins[r.ins].job \in HasTimeout THEN {"timeout"} ELSE {})

\* finalizeReaped, the guarded write: no row changed, nothing else is done.
ReapJudge(r) ==
  /\ reap.pc = "idle" /\ r \in reap.todo
  /\ \E v \in StallVerdicts(r) :
       \/ /\ v # "none" /\ ~IsTerminal(r.ins)
          /\ ins' = [ins EXCEPT ![r.ins].status = v]
          /\ reap' = [pc |-> "release", ins |-> r.ins, todo |-> reap.todo \ {r}]
       \/ /\ v = "none" \/ IsTerminal(r.ins) \/ DbFaults
          /\ reap' = [reap EXCEPT !.todo = @ \ {r}]
          /\ UNCHANGED ins
  /\ UNCHANGED <<taskVars, slotVars, claiming, handler, pump, regVars, envVars, delivered, spent>>

ReapRelease ==
  /\ reap.pc = "release"
  /\ ReleaseByInstance(reap.ins)
  /\ reap' = [reap EXCEPT !.pc = IF reap.ins \in held /\ haddr[reap.ins] # None
                                THEN "lower" ELSE "retry"]
  /\ UNCHANGED <<dbVars, taskVars, inflight, claiming, handler, pump, regVars, envVars, delivered, spent>>

ReapRetry ==
  /\ reap.pc = "retry"
  /\ \/ ins' = [ins EXCEPT ![reap.ins] = WithRetry(@)]
     \/ DbFaults /\ UNCHANGED ins
  /\ reap' = [reap EXCEPT !.pc = "idle", !.ins = None]
  /\ UNCHANGED <<taskVars, slotVars, claiming, handler, pump, regVars, envVars, delivered, spent>>
-----------------------------------------------------------------------------
(* Retry pump: the due list, then one row at a time. *)

PumpScan ==
  /\ Up
  /\ pump.pc = "idle" /\ pump.todo = {}
  /\ \E S \in SUBSET {i \in Instance : ins[i].status \in Retryable /\ ins[i].retryAt} :
       /\ S # {}
       /\ pump' = [pump EXCEPT !.todo = S]
  /\ UNCHANGED <<dbVars, taskVars, slotVars, claiming, handler, reap, regVars, envVars, delivered, spent>>

\* Wrong: the last retry of the budget is never made (RetriesHappen).
ClearNextRetryTimeOffByOne(i) ==
  /\ pump.pc = "idle" /\ i \in pump.todo
  /\ ins' = [ins EXCEPT ![i].retryAt = FALSE]
  /\ pump' = IF ins[i].retryAt /\ ins[i].idx + 1 < RetryCount[ins[i].job]
             THEN [pc |-> "exists", ins |-> i, todo |-> pump.todo \ {i}]
             ELSE [pump EXCEPT !.todo = @ \ {i}]
  /\ UNCHANGED <<taskVars, slotVars, claiming, handler, reap, regVars, envVars, delivered, spent>>

\* The clear is the claim; the status is the one the scan saw.  The row is passed over
\* when the clear fails and, its mark gone, when loadJobs had failed for its list.
ClearNextRetryTime(i) ==
  /\ pump.pc = "idle" /\ i \in pump.todo
  /\ \/ /\ ins' = [ins EXCEPT ![i].retryAt = FALSE]
        /\ pump' = IF ins[i].retryAt /\ ins[i].idx < RetryCount[ins[i].job]
                   THEN [pc |-> "exists", ins |-> i, todo |-> pump.todo \ {i}]
                   ELSE [pump EXCEPT !.todo = @ \ {i}]
     \/ /\ DbFaults
        /\ ins' \in {ins, [ins EXCEPT ![i].retryAt = FALSE]}
        /\ pump' = [pump EXCEPT !.todo = @ \ {i}]
  /\ UNCHANGED <<taskVars, slotVars, claiming, handler, reap, regVars, envVars, delivered, spent>>

RetryChildren(i) ==
  {k \in Instance : ins[k].root = RootOf(i) /\ ins[k].idx = ins[i].idx + 1}

\* Wrong: an existing retry is not looked for (RetryChain).
ExistsRetryChildSkipped ==
  /\ pump.pc = "exists"
  /\ pump' = [pump EXCEPT !.pc = "acquire"]
  /\ UNCHANGED <<dbVars, taskVars, slotVars, claiming, handler, reap, regVars, envVars, delivered, spent>>

\* A failed query counts as "no child".
ExistsRetryChild ==
  /\ pump.pc = "exists"
  /\ \/ /\ RetryChildren(pump.ins) # {}
        /\ pump' = [pump EXCEPT !.pc = "idle", !.ins = None]
     \/ /\ RetryChildren(pump.ins) = {} \/ DbFaults
        /\ pump' = [pump EXCEPT !.pc = "acquire"]
  /\ UNCHANGED <<dbVars, taskVars, slotVars, claiming, handler, reap, regVars, envVars, delivered, spent>>

PumpAcquire ==
  LET j == ins[pump.ins].job
  IN /\ pump.pc = "acquire"
     /\ \/ IdLeft /\ TryAcquire(j, SlotCap(j)) /\ pump' = [pump EXCEPT !.pc = "create"]
        \/ slots[j] >= SlotCap(j) /\ pump' = [pump EXCEPT !.pc = "defer"] /\ UNCHANGED slots
     /\ UNCHANGED <<dbVars, taskVars, held, haddr, inflight, owed, claiming, handler, reap, regVars, envVars, delivered, spent>>

\* Wrong: the mark the pump cleared is not set again (RetryNeverLost).
PumpDeferForgets ==
  /\ pump.pc = "defer"
  /\ pump' = [pump EXCEPT !.pc = "idle", !.ins = None]
  /\ UNCHANGED <<dbVars, taskVars, slotVars, claiming, handler, reap, regVars, envVars, delivered, spent>>

\* No slot: the mark is set again, a second later.
PumpDefer ==
  /\ pump.pc = "defer"
  /\ \/ ins' = [ins EXCEPT ![pump.ins].retryAt = TRUE]
     \/ DbFaults /\ UNCHANGED ins
  /\ pump' = [pump EXCEPT !.pc = "idle", !.ins = None]
  /\ UNCHANGED <<taskVars, slotVars, claiming, handler, reap, regVars, envVars, delivered, spent>>

PumpCreate(k) ==
  /\ pump.pc = "create"
  /\ IsNextId(k)
  /\ ins' = [ins EXCEPT ![k] = NewRow(ins[pump.ins].job, "retry", RootOf(pump.ins),
                                      ins[pump.ins].idx + 1)]
  /\ Goto(k, "bind")
  /\ pump' = [pump EXCEPT !.pc = "idle", !.ins = None]
  /\ UNCHANGED <<target, slotVars, claiming, handler, reap, regVars, envVars, delivered, spent>>

\* Wrong: the slot stays taken (SlotAccounting).
PumpCreateFailsKeepsSlot ==
  /\ DbFaults
  /\ pump.pc = "create"
  /\ pump' = [pump EXCEPT !.pc = "idle", !.ins = None]
  /\ UNCHANGED <<dbVars, taskVars, slotVars, claiming, handler, reap, regVars, envVars, delivered, spent>>

PumpCreateFails ==
  /\ DbFaults
  /\ pump.pc = "create"
  /\ ReleaseByJob(ins[pump.ins].job)
  /\ pump' = [pump EXCEPT !.pc = "idle", !.ins = None]
  /\ UNCHANGED <<dbVars, taskVars, held, haddr, inflight, owed, claiming, handler, reap, regVars, envVars, delivered, spent>>
-----------------------------------------------------------------------------
(* Registry and environment. *)

Heartbeat(w) ==
  /\ Up
  /\ w \notin online
  /\ known' = known \cup {w}
  /\ online' = online \cup {w}
  /\ UNCHANGED <<dbVars, taskVars, slotVars, loopVars, envVars, delivered, spent>>

HeartbeatExpires(w) ==
  /\ Up
  /\ w \in online
  /\ Spend("expiries", MaxExpiries)
  /\ online' = online \ {w}
  /\ UNCHANGED <<dbVars, taskVars, slotVars, loopVars, known, envVars, delivered>>

\* Forgets every expired worker together with its count.
Sweep ==
  /\ Up
  /\ known # online
  /\ known' = online
  /\ inflight' = [w \in Worker |-> IF w \in known \ online THEN 0 ELSE inflight[w]]
  /\ UNCHANGED <<dbVars, taskVars, slots, held, haddr, owed, loopVars, online, envVars, delivered, spent>>

WarmupEnds ==
  /\ Up
  /\ warm
  /\ warm' = FALSE
  /\ UNCHANGED <<dbVars, taskVars, slotVars, loopVars, regVars, phase, boot, delivered, spent>>
-----------------------------------------------------------------------------
(* Crash and recovery: main runs RecoverStaleActive, then RecoverQueued,   *)
(* before it starts the loops and the HTTP server.                         *)

\* The process ends anywhere; the next one begins with what NewScheduler makes.
Crash ==
  /\ Spend("crashes", MaxCrashes)
  /\ phase' = "boot" /\ boot' = None /\ warm' = Warmup
  /\ task' = [i \in Instance |-> "idle"]
  /\ target' = [i \in Instance |-> None]
  /\ slots' = [j \in Job |-> 0]
  /\ held' = {}
  /\ haddr' = [i \in Instance |-> None]
  /\ inflight' = [w \in Worker |-> 0]
  /\ owed' = [i \in Instance |-> None]
  /\ claiming' = {} /\ handler' = {}
  /\ reap' = [pc |-> "idle", ins |-> None, todo |-> {}]
  /\ pump' = [pc |-> "idle", ins |-> None, todo |-> {}]
  /\ known' = {} /\ online' = {}
  /\ UNCHANGED <<dbVars, delivered>>

\* Only rows started longer ago than the grace are failed: any active row may be one.
RecoverStaleActive(i) ==
  /\ phase = "boot" /\ boot = None
  /\ IsActive(i)
  /\ ins' = [ins EXCEPT ![i].status = "failed"]
  /\ boot' = i
  /\ UNCHANGED <<taskVars, slotVars, loopVars, regVars, warm, phase, delivered, spent>>

RecoverRetry ==
  /\ phase = "boot" /\ boot # None
  /\ \/ ins' = [ins EXCEPT ![boot] = WithRetry(@)]
     \/ DbFaults /\ UNCHANGED ins
  /\ boot' = None
  /\ UNCHANGED <<taskVars, slotVars, loopVars, regVars, warm, phase, delivered, spent>>

\* Wrong: rows a worker may be running are queued too (NoRedelivery).
RecoverUnfinished ==
  /\ phase = "boot" /\ boot = None
  /\ task' = [i \in Instance |-> IF Exists(i) /\ ~IsTerminal(i) THEN "queue" ELSE "idle"]
  /\ phase' = "up"
  /\ UNCHANGED <<dbVars, target, slotVars, loopVars, regVars, warm, boot, delivered, spent>>

\* Wrong: the queue starts empty (NothingStranded).
RecoverNothing ==
  /\ phase = "boot" /\ boot = None
  /\ phase' = "up"
  /\ UNCHANGED <<dbVars, taskVars, slotVars, loopVars, regVars, warm, boot, delivered, spent>>

Queued == {i \in Instance : ins[i].status = "queued"}

\* A failed Job.Get skips its row; a failed list, which main only logs, skips them all.
RecoverQueued ==
  /\ phase = "boot" /\ boot = None
  /\ \E S \in IF DbFaults THEN SUBSET Queued ELSE {Queued} :
       task' = [i \in Instance |-> IF i \in S THEN "queue" ELSE "idle"]
  /\ phase' = "up"
  /\ UNCHANGED <<dbVars, target, slotVars, loopVars, regVars, warm, boot, delivered, spent>>
-----------------------------------------------------------------------------
Trigger(j) ==
  \/ AutoAcquire(j)
  \/ AutoAbandon(j)
  \/ \E i \in Instance : AutoCreate(j, i) \/ SubmitManual(j, i)

Dispatch(i) ==
  \/ PushPending(i)      \/ PopPending(i)      \/ DropPending(i) \/ CheckPending(i)
  \/ Bind(i)             \/ PickWorker(i)      \/ HasOnlineWorker(i)
  \/ MarkDispatched(i)   \/ Send(i)            \/ Sent(i)
  \/ FailDispatch(i)     \/ ReleaseTask(i)     \/ RetryTask(i)
  \/ RequeueAfterNoWorker(i)

Handle(i) ==
  \/ \E w \in Worker, s \in Reports : Report(i, w, s)
  \/ \E s \in StopStatuses : Stop(i, s)
  \/ ReleaseInFlight(i)
  \/ LowerInflight(i)
  \/ Retry(i)

Reaper ==
  \/ ReapScanActive
  \/ ReapScanUnbound
  \/ \E r \in reap.todo : ReapJudge(r)
  \/ ReapRelease
  \/ ReapRetry

RetryPump ==
  \/ PumpScan
  \/ \E i \in pump.todo : ClearNextRetryTime(i)
  \/ ExistsRetryChild
  \/ PumpAcquire
  \/ PumpDefer
  \/ \E k \in Instance : PumpCreate(k)
  \/ PumpCreateFails

Registry ==
  \/ \E w \in Worker : Heartbeat(w) \/ HeartbeatExpires(w)
  \/ Sweep
  \/ WarmupEnds

Recovery ==
  \/ \E i \in Instance : RecoverStaleActive(i)
  \/ RecoverRetry
  \/ RecoverQueued

Next ==
  \/ \E j \in Job : Trigger(j)
  \/ \E i \in Instance : Dispatch(i) \/ Handle(i)
  \/ Reaper \/ RetryPump \/ Registry
  \/ Recovery \/ Crash

Spec == Init /\ [][Next]_vars
-----------------------------------------------------------------------------
(* Fairness.  The loops are tickers and goroutines that always come back, the  *)
(* timers fire, the process stays up and a worker that lives keeps beating.    *)

\* A timeout once elapsed stays elapsed: rescanned for ever, a row is ended in the end.
ReapEnds(i) == \E r \in reap.todo : r.ins = i /\ ReapJudge(r) /\ ins'[i].status \in Terminal

DispatchStep(i) ==
  \/ PushPending(i)    \/ DropPending(i) \/ CheckPending(i) \/ Bind(i)
  \/ PickWorker(i)     \/ HasOnlineWorker(i) \/ MarkDispatched(i) \/ Send(i)
  \/ Sent(i)           \/ FailDispatch(i) \/ ReleaseTask(i) \/ RetryTask(i)
  \/ RequeueAfterNoWorker(i)

\* The due row is taken up by the pump sooner or later, and finds a slot when one
\* is free again and again.
PumpStep ==
  \/ \E i \in pump.todo : ClearNextRetryTime(i)
  \/ ExistsRetryChild
  \/ PumpAcquire
  \/ PumpDefer
  \/ \E k \in Instance : PumpCreate(k)

Fairness ==
  /\ \A i \in Instance :
       /\ WF_vars(DispatchStep(i))
       /\ SF_vars(PopPending(i))
       /\ WF_vars(ReleaseInFlight(i))
       /\ WF_vars(LowerInflight(i))
       /\ SF_vars(ReapEnds(i))
       /\ SF_vars(PumpScan /\ i \in pump'.todo)
  /\ \A w \in Worker : WF_vars(Heartbeat(w))
  /\ \A j \in Job : WF_vars((AutoAbandon(j) \/ \E i \in Instance : AutoCreate(j, i)))
  /\ WF_vars(ReapScanActive)
  /\ WF_vars(\E r \in reap.todo : ReapJudge(r))
  /\ WF_vars((ReapRelease \/ ReapRetry))
  /\ WF_vars(PumpStep)
  /\ WF_vars(Recovery)

FairSpec == Spec /\ Fairness
-----------------------------------------------------------------------------
(* Properties. *)

PC == {"idle", "timer", "queue", "check", "bind", "pick", "unpicked", "mark", "send", "sent",
       "fail", "release", "releaseretry", "noworker", "retry", "requeue"}

Scanned == [ins: Instance, status: Status, addr: Worker \cup {None}, hasJob: BOOLEAN]

\* The variables have their types; in particular no counter falls below zero.
TypeOK ==
  /\ ins \in [Instance -> Row \cup {Absent}]
  /\ task \in [Instance -> PC]
  /\ target \in [Instance -> Worker \cup {None}]
  /\ slots \in [Job -> Nat]
  /\ held \subseteq Instance
  /\ haddr \in [Instance -> Worker \cup {None}]
  /\ inflight \in [Worker -> Nat]
  /\ owed \in [Instance -> Worker \cup {None}]
  /\ claiming \subseteq Job
  /\ handler \subseteq Instance
  /\ reap \in [pc: {"idle", "release", "lower", "retry"}, ins: Instance \cup {None}, todo: SUBSET Scanned]
  /\ pump \in [pc: {"idle", "exists", "acquire", "defer", "create"}, ins: Instance \cup {None},
               todo: SUBSET Instance]
  /\ known \subseteq Worker /\ online \subseteq Worker
  /\ warm \in BOOLEAN
  /\ phase \in {"up", "boot"}
  /\ boot \in Instance \cup {None}
  /\ spent \in [crashes: Nat, expiries: Nat, calls: Nat]
  /\ delivered \in [Instance -> SUBSET Worker]

\* A job's slot counter is exactly the number of those who must give a slot back:
\* the rows bound in held, the dispatches between tryAcquire and bindHeld, a claimed
\* scheduled run and a retry being created.  It never exceeds the job's limit.  No
\* path through Stop, a report, the reaper, a failed send or a failed database call
\* releases twice or not at all (Scheduler.slots and Scheduler.held).
SlotUsers(j) == {i \in Instance : ins[i].job = j /\ (i \in held \/ task[i] \in {"check", "bind"})}
Claims(j) == (IF j \in claiming THEN 1 ELSE 0)
             + (IF pump.pc = "create" /\ ins[pump.ins].job = j THEN 1 ELSE 0)

SlotAccounting ==
  \A j \in Job : /\ slots[j] = Cardinality(SlotUsers(j)) + Claims(j)
                 /\ slots[j] <= SlotCap(j)

\* A finished row that still holds its slot has somebody on the way to release it:
\* a handler, the reaper, or its own dispatch at a step that looks at the status
\* again or releases.  A slot never stays with a finished row (releaseByInstance).
Releasing(i) ==
  \/ i \in handler
  \/ reap.pc = "release" /\ reap.ins = i
  \/ task[i] \in {"pick", "unpicked", "mark", "fail", "release", "releaseretry", "noworker"}

NoLeakedSlot == \A i \in held : IsTerminal(i) => Releasing(i)

\* README "MaxConcurrency": at most SlotCap rows of a job are with a worker at once.
InFlight(j) == {i \in Instance : ins[i].job = j /\ IsActive(i)}
InFlightBound == \A j \in Job : Cardinality(InFlight(j)) <= SlotCap(j)

\* The rows of a chain are numbered 0, 1, 2, ... without a gap or a duplicate, all of
\* one job and within its RetryCount, whoever asks for the retry (ExistsRetryChild).
Chain(i) == {k \in Instance : Exists(k) /\ RootOf(k) = RootOf(i)}

RetryChain ==
  \A i \in Instance : Exists(i) =>
    /\ ins[i].idx = 0 <=> ins[i].root = None
    /\ ins[i].idx > 0 => ins[i].idx <= RetryCount[ins[i].job]
    /\ \A k \in Chain(i) : /\ ins[k].job = ins[i].job
                           /\ ins[k].idx = ins[i].idx => k = i
    /\ \A n \in 0 .. ins[i].idx : \E k \in Chain(i) : ins[k].idx = n

\* At most one row of a chain is unfinished: a retry never runs beside the attempt
\* it replaces, although worker reports arrive late and the pump works on an old list.
OneLiveAttempt ==
  \A i \in Instance : Exists(i) /\ ~IsTerminal(i) =>
    \A k \in Chain(i) : ~IsTerminal(k) => k = i

\* A row on its way to a worker has not been handed to one before: a failed POST, a
\* stop or a restart never sends the same row twice (a retry is a row of its own).
NoRedelivery ==
  \A i \in Instance :
    task[i] \in {"timer", "queue", "check", "bind", "pick", "unpicked", "mark", "send"}
      => delivered[i] = {}

\* Registry.inflight counts, per worker, the held rows that were sent to it and those
\* whose releaser has left slotMu and not yet lowered the count: exactly while no worker
\* was swept, never more than them afterwards.
SentTo(w) == {i \in Instance : (i \in held /\ haddr[i] = w) \/ owed[i] = w}
InflightExact == \A w \in Worker : inflight[w] = Cardinality(SentTo(w))
InflightNoOvercount == \A w \in Worker : inflight[w] <= Cardinality(SentTo(w))

\* A final status is final: no dispatch step, report, reaper or recovery changes it;
\* only Stop and Cancel may overwrite it (the status NOT IN guard of every write).
TerminalStable ==
  [][\A i \in Instance : IsTerminal(i) =>
       ins'[i].status \in {ins[i].status} \cup StopStatuses]_vars

\* A failed or timed out row with budget left is marked for the pump, has its child,
\* or somebody is about to mark it or to create the child.
RetryPending(i) ==
  \/ ins[i].retryAt
  \/ RetryChildren(i) # {}
  \/ task[i] \in {"releaseretry", "retry"}
  \/ reap.pc # "idle" /\ reap.ins = i
  \/ pump.pc # "idle" /\ pump.ins = i
  \/ boot = i

RetryNeverLost ==
  \A i \in Instance : ins[i].status \in Retryable /\ HasBudget(ins[i]) => RetryPending(i)

\* Every queued row is carried on: by a timer, the queue or a goroutine of its own, or
\* it is one the reaper's scan of unbound rows will find (RecoverQueued).
NothingStranded ==
  Up =>
    \A i \in Instance : ins[i].status = "queued" =>
      task[i] # "idle" \/ (ins[i].trig \in {"auto", "retry"} /\ ins[i].addr = None)

\* A row that waits in the queue or for the next attempt is not failed for waiting
\* (a missing worker is no failure: dispatchToWorker's dispatchNoWorker).
WaitingNotFailed ==
  [][\A i \in Instance :
       ins[i].status = "queued" /\ task[i] \in {"timer", "queue"} => ins'[i].status # "failed"]_vars

\* Every row ends: dispatched, reported, timed out or failed, whatever is lost.
RunsEnd == \A i \in Instance : Exists(i) ~> IsTerminal(i)

\* A failed or timed out row with budget left gets its retry (while the model has ids).
RetriesHappen ==
  \A i \in Instance :
    (ins[i].status \in Retryable /\ HasBudget(ins[i])) ~>
      (RetryChildren(i) # {} \/ ins[i].status \notin Retryable \/ ~IdLeft)
=============================================================================
