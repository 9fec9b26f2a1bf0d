------------------------------ MODULE SlotProofs ------------------------------
(***************************************************************************)
(* The job slots of Scheduler: none is leaked, none is counted twice.      *)
(***************************************************************************)
EXTENDS SchedulerProofs

USE DEF dbVars, taskVars, slotVars, loopVars, regVars, envVars
-----------------------------------------------------------------------------
(* While main runs the recovery, nothing else runs and no slot is taken. *)
Quiet ==
  phase = "boot" =>
    /\ held = {} /\ handler = {} /\ claiming = {}
    /\ \A i \in Instance : task[i] = "idle"
    /\ reap.pc = "idle" /\ reap.todo = {}
    /\ pump.pc = "idle" /\ pump.todo = {}

\* A row is not held before its own dispatch binds it, nor after it gave the slot back
\* to wait: otherwise the slot would be counted twice.
HeldFree ==
  \A i \in held : task[i] \notin {"timer", "queue", "check", "bind", "requeue"}

LEMMA NextHeld ==
  ASSUME TypeOK, Refs, Quiet, HeldFree, NoLeakedSlot, [Next]_vars
  PROVE  Quiet' /\ HeldFree' /\ NoLeakedSlot'
<1>1. ASSUME NEW j \in Job, Trigger(j)  PROVE Quiet' /\ HeldFree' /\ NoLeakedSlot'
  <2>1. CASE AutoAcquire(j)
    <3>1. Quiet'
      BY <2>1 DEF Quiet, TypeOK, Up, AutoAcquire, TryAcquire
    <3>2. HeldFree'
      BY <2>1 DEF Quiet, HeldFree, TypeOK, Refs, AutoAcquire, TryAcquire
    <3>3. NoLeakedSlot'
      BY <2>1 DEF Quiet, NoLeakedSlot, Releasing, IsTerminal, TypeOK, Refs, Terminal, Retryable, AutoAcquire, TryAcquire
    <3> QED BY <3>1, <3>2, <3>3
  <2>2. CASE AutoAbandon(j)
    <3>1. Quiet'
      BY <2>2 DEF Quiet, TypeOK, Up, AutoAbandon, ReleaseByJob
    <3>2. HeldFree'
      BY <2>2 DEF Quiet, HeldFree, TypeOK, Refs, AutoAbandon, ReleaseByJob
    <3>3. NoLeakedSlot'
      BY <2>2 DEF Quiet, NoLeakedSlot, Releasing, IsTerminal, TypeOK, Refs, Terminal, Retryable, AutoAbandon, ReleaseByJob
    <3> QED BY <3>1, <3>2, <3>3
  <2>3. ASSUME NEW i \in Instance, AutoCreate(j, i)  PROVE Quiet' /\ HeldFree' /\ NoLeakedSlot'
    <3>1. Quiet'
      BY <2>3 DEF Quiet, TypeOK, Up, AutoCreate, Goto, NewRow
    <3>2. HeldFree'
      BY <2>3 DEF Quiet, HeldFree, TypeOK, Refs, AutoCreate, Goto, NewRow, IsNextId
    <3>3. NoLeakedSlot'
      BY <2>3 DEF Quiet, NoLeakedSlot, Releasing, IsTerminal, TypeOK, Refs, Terminal, Retryable, AutoCreate, Goto, NewRow
    <3> QED BY <3>1, <3>2, <3>3
  <2>4. ASSUME NEW i \in Instance, SubmitManual(j, i)  PROVE Quiet' /\ HeldFree' /\ NoLeakedSlot'
    <3>1. Quiet'
      BY <2>4 DEF Quiet, TypeOK, Up, SubmitManual, Goto, NewRow
    <3>2. HeldFree'
      BY <2>4 DEF Quiet, HeldFree, TypeOK, Refs, SubmitManual, Goto, NewRow, IsNextId
    <3>3. NoLeakedSlot'
      BY <2>4 DEF Quiet, NoLeakedSlot, Releasing, IsTerminal, TypeOK, Refs, Terminal, Retryable, SubmitManual, Goto, NewRow
    <3> QED BY <3>1, <3>2, <3>3
  <2> QED BY <1>1, <2>1, <2>2, <2>3, <2>4 DEF Trigger
<1>2. ASSUME NEW i \in Instance, Dispatch(i)  PROVE Quiet' /\ HeldFree' /\ NoLeakedSlot'
  <2>1. CASE PushPending(i)
    <3>1. Quiet'
      BY <2>1 DEF Quiet, TypeOK, Up, PushPending, Goto
    <3>2. HeldFree'
      BY <2>1 DEF Quiet, HeldFree, TypeOK, Refs, PushPending, Goto
    <3>3. NoLeakedSlot'
      BY <2>1 DEF Quiet, NoLeakedSlot, Releasing, IsTerminal, TypeOK, Refs, Terminal, Retryable, PushPending, Goto
    <3> QED BY <3>1, <3>2, <3>3
  <2>2. CASE PopPending(i)
    <3>1. Quiet'
      BY <2>2 DEF Quiet, TypeOK, Up, PopPending, Goto, TryAcquire
    <3>2. HeldFree'
      BY <2>2 DEF Quiet, HeldFree, TypeOK, Refs, PopPending, Goto, TryAcquire
    <3>3. NoLeakedSlot'
      BY <2>2 DEF Quiet, NoLeakedSlot, Releasing, IsTerminal, TypeOK, Refs, Terminal, Retryable, PopPending, Goto, TryAcquire
    <3> QED BY <3>1, <3>2, <3>3
  <2>3. CASE DropPending(i)
    <3>1. Quiet'
      BY <2>3 DEF Quiet, TypeOK, Up, DropPending, Goto
    <3>2. HeldFree'
      BY <2>3 DEF Quiet, HeldFree, TypeOK, Refs, DropPending, Goto
    <3>3. NoLeakedSlot'
      BY <2>3 DEF Quiet, NoLeakedSlot, Releasing, IsTerminal, TypeOK, Refs, Terminal, Retryable, DropPending, Goto
    <3> QED BY <3>1, <3>2, <3>3
  <2>4. CASE CheckPending(i)
    <3>1. Quiet'
      BY <2>4 DEF Quiet, TypeOK, Up, CheckPending, Goto, ReleaseByJob
    <3>2. HeldFree'
      BY <2>4 DEF Quiet, HeldFree, TypeOK, Refs, CheckPending, Goto, ReleaseByJob
    <3>3. NoLeakedSlot'
      BY <2>4 DEF Quiet, NoLeakedSlot, Releasing, IsTerminal, TypeOK, Refs, Terminal, Retryable, CheckPending, Goto, ReleaseByJob
    <3> QED BY <3>1, <3>2, <3>3
  <2>5. CASE Bind(i)
    <3>1. Quiet'
      BY <2>5 DEF Quiet, TypeOK, Up, Bind, Goto, BindHeld
    <3>2. HeldFree'
      BY <2>5 DEF Quiet, HeldFree, TypeOK, Refs, Bind, Goto, BindHeld
    <3>3. NoLeakedSlot'
      BY <2>5 DEF Quiet, NoLeakedSlot, Releasing, IsTerminal, TypeOK, Refs, Terminal, Retryable, Bind, Goto, BindHeld
    <3> QED BY <3>1, <3>2, <3>3
  <2>6. CASE PickWorker(i)
    <3>1. Quiet'
      BY <2>6 DEF Quiet, TypeOK, Up, PickWorker, Goto, SetTarget, Candidates
    <3>2. HeldFree'
      BY <2>6 DEF Quiet, HeldFree, TypeOK, Refs, PickWorker, Goto, SetTarget, Candidates
    <3>3. NoLeakedSlot'
      BY <2>6 DEF Quiet, NoLeakedSlot, Releasing, IsTerminal, TypeOK, Refs, Terminal, Retryable, PickWorker, Goto, SetTarget, Candidates
    <3> QED BY <3>1, <3>2, <3>3
  <2>7. CASE HasOnlineWorker(i)
    <3>1. Quiet'
      BY <2>7 DEF Quiet, TypeOK, Up, HasOnlineWorker, Goto
    <3>2. HeldFree'
      BY <2>7 DEF Quiet, HeldFree, TypeOK, Refs, HasOnlineWorker, Goto
    <3>3. NoLeakedSlot'
      BY <2>7 DEF Quiet, NoLeakedSlot, Releasing, IsTerminal, TypeOK, Refs, Terminal, Retryable, HasOnlineWorker, Goto
    <3> QED BY <3>1, <3>2, <3>3
  <2>8. CASE MarkDispatched(i)
    <3>1. Quiet'
      BY <2>8 DEF Quiet, TypeOK, Up, MarkDispatched, Goto
    <3>2. HeldFree'
      BY <2>8 DEF Quiet, HeldFree, TypeOK, Refs, MarkDispatched, Goto
    <3>3. ins[i] \in Row
      BY <2>8, ExistsRow DEF Refs, MarkDispatched
    <3>4. \A k \in Instance : ins'[k].status \in Terminal <=> ins[k].status \in Terminal
      BY <2>8, <3>3 DEF TypeOK, Row, Terminal, IsTerminal, MarkDispatched
    <3>5. NoLeakedSlot'
      BY <2>8, <3>4 DEF NoLeakedSlot, Releasing, IsTerminal, TypeOK, MarkDispatched, Goto
    <3> QED BY <3>1, <3>2, <3>5
  <2>9. CASE Send(i)
    <3>1. Quiet'
      BY <2>9 DEF Quiet, TypeOK, Up, Send, Goto
    <3>2. HeldFree'
      BY <2>9 DEF Quiet, HeldFree, TypeOK, Refs, Send, Goto
    <3>3. NoLeakedSlot'
      BY <2>9 DEF Quiet, NoLeakedSlot, Releasing, IsTerminal, TypeOK, Refs, Terminal, Retryable, Send, Goto
    <3> QED BY <3>1, <3>2, <3>3
  <2>10. CASE Sent(i)
    <3>1. Quiet'
      BY <2>10 DEF Quiet, TypeOK, Up, Sent, Goto, SetTarget, BindWorkerAddr
    <3>2. HeldFree'
      BY <2>10 DEF Quiet, HeldFree, TypeOK, Refs, Sent, Goto, SetTarget, BindWorkerAddr
    <3>3. NoLeakedSlot'
      BY <2>10 DEF Quiet, NoLeakedSlot, Releasing, IsTerminal, TypeOK, Refs, Terminal, Retryable, Sent, Goto, SetTarget, BindWorkerAddr
    <3> QED BY <3>1, <3>2, <3>3
  <2>11. CASE FailDispatch(i)
    <3>1. Quiet'
      BY <2>11 DEF Quiet, TypeOK, Up, FailDispatch, Goto, SetTarget
    <3>2. HeldFree'
      BY <2>11 DEF Quiet, HeldFree, TypeOK, Refs, FailDispatch, Goto, SetTarget
    <3>3. NoLeakedSlot'
      BY <2>11 DEF Quiet, NoLeakedSlot, Releasing, IsTerminal, TypeOK, Refs, Terminal, Retryable, FailDispatch, Goto, SetTarget
    <3> QED BY <3>1, <3>2, <3>3
  <2>12. CASE ReleaseTask(i)
    <3>1. Quiet'
      BY <2>12 DEF Quiet, TypeOK, Up, ReleaseTask, Goto, SetTarget, AfterRelease, ReleaseByInstance
    <3>2. HeldFree'
      BY <2>12 DEF Quiet, HeldFree, TypeOK, Refs, ReleaseTask, Goto, SetTarget, AfterRelease, ReleaseByInstance
    <3>3. NoLeakedSlot'
      BY <2>12 DEF Quiet, NoLeakedSlot, Releasing, IsTerminal, TypeOK, Refs, Terminal, Retryable, ReleaseTask, Goto, SetTarget, AfterRelease, ReleaseByInstance
    <3> QED BY <3>1, <3>2, <3>3
  <2>13. CASE RetryTask(i)
    <3>1. Quiet'
      BY <2>13 DEF Quiet, TypeOK, Up, RetryTask, Goto
    <3>2. HeldFree'
      BY <2>13 DEF Quiet, HeldFree, TypeOK, Refs, RetryTask, Goto
    <3>3. i \in Instance /\ ins[i] \in Row
      BY <2>13, ExistsRow DEF Refs, TypeOK, RetryTask
    <3>4. \A k \in Instance : ins'[k].status = ins[k].status
      BY <2>13, <3>3 DEF TypeOK, Row, RetryTask, WithRetry
    <3>5. NoLeakedSlot'
      BY <2>13, <3>4 DEF NoLeakedSlot, Releasing, IsTerminal, TypeOK, Refs, RetryTask, Goto
    <3> QED BY <3>1, <3>2, <3>5
  <2>14. CASE RequeueAfterNoWorker(i)
    <3>1. Quiet'
      BY <2>14 DEF Quiet, TypeOK, Up, RequeueAfterNoWorker, Goto
    <3>2. HeldFree'
      BY <2>14 DEF Quiet, HeldFree, TypeOK, Refs, RequeueAfterNoWorker, Goto
    <3>3. NoLeakedSlot'
      BY <2>14 DEF Quiet, NoLeakedSlot, Releasing, IsTerminal, TypeOK, Refs, Terminal, Retryable, RequeueAfterNoWorker, Goto
    <3> QED BY <3>1, <3>2, <3>3
  <2> QED BY <1>2, <2>1, <2>2, <2>3, <2>4, <2>5, <2>6, <2>7, <2>8, <2>9, <2>10, <2>11, <2>12, <2>13, <2>14 DEF Dispatch
<1>3. ASSUME NEW i \in Instance, Handle(i)  PROVE Quiet' /\ HeldFree' /\ NoLeakedSlot'
  <2>1. ASSUME NEW w \in Worker, NEW s \in Reports, Report(i, w, s)  PROVE Quiet' /\ HeldFree' /\ NoLeakedSlot'
    <3>1. Quiet'
      BY <2>1 DEF Quiet, TypeOK, Up, Report, Written
    <3>2. HeldFree'
      BY <2>1 DEF Quiet, HeldFree, TypeOK, Refs, Report, Written
    <3>3. NoLeakedSlot'
      BY <2>1 DEF Quiet, NoLeakedSlot, Releasing, IsTerminal, TypeOK, Refs, Terminal, Retryable, Report, Written
    <3> QED BY <3>1, <3>2, <3>3
  <2>2. ASSUME NEW s \in StopStatuses, Stop(i, s)  PROVE Quiet' /\ HeldFree' /\ NoLeakedSlot'
    <3>1. Quiet'
      BY <2>2 DEF Quiet, TypeOK, Up, Stop, Spend
    <3>2. HeldFree'
      BY <2>2 DEF Quiet, HeldFree, TypeOK, Refs, Stop, Spend
    <3>3. NoLeakedSlot'
      BY <2>2 DEF Quiet, NoLeakedSlot, Releasing, IsTerminal, TypeOK, Refs, Terminal, Retryable, Stop, Spend
    <3> QED BY <3>1, <3>2, <3>3
  <2>3. CASE ReleaseInFlight(i)
    <3>1. Quiet'
      BY <2>3 DEF Quiet, TypeOK, Up, ReleaseInFlight, ReleaseByInstance
    <3>2. HeldFree'
      BY <2>3 DEF Quiet, HeldFree, TypeOK, Refs, ReleaseInFlight, ReleaseByInstance
    <3>3. NoLeakedSlot'
      BY <2>3 DEF Quiet, NoLeakedSlot, Releasing, IsTerminal, TypeOK, Refs, Terminal, Retryable, ReleaseInFlight, ReleaseByInstance
    <3> QED BY <3>1, <3>2, <3>3
  <2>4. CASE Retry(i)
    <3>1. Quiet'
      BY <2>4 DEF Quiet, TypeOK, Up, Retry, Spend
    <3>2. HeldFree'
      BY <2>4 DEF Quiet, HeldFree, TypeOK, Refs, Retry, Spend
    <3>3. NoLeakedSlot'
      BY <2>4 DEF Quiet, NoLeakedSlot, Releasing, IsTerminal, TypeOK, Refs, Terminal, Retryable, Retry, Spend
    <3> QED BY <3>1, <3>2, <3>3
  <2>5. CASE LowerInflight(i)
    <3>1. Quiet'
      BY <2>5 DEF Quiet, TypeOK, Up, LowerInflight
    <3>2. HeldFree'
      BY <2>5 DEF HeldFree, LowerInflight
    <3>3. NoLeakedSlot'
      BY <2>5 DEF NoLeakedSlot, Releasing, IsTerminal, TypeOK, Terminal, LowerInflight
    <3> QED BY <3>1, <3>2, <3>3
  <2> QED BY <1>3, <2>1, <2>2, <2>3, <2>4, <2>5 DEF Handle
<1>4. CASE Reaper
  <2>1. ASSUME NEW S \in SUBSET {k \in Instance : Exists(k)}, ReapScan(S)  PROVE Quiet' /\ HeldFree' /\ NoLeakedSlot'
    <3>1. Quiet'
      BY <2>1 DEF Quiet, TypeOK, Up, ReapScan, Seen
    <3>2. HeldFree'
      BY <2>1 DEF Quiet, HeldFree, TypeOK, Refs, ReapScan, Seen
    <3>3. NoLeakedSlot'
      BY <2>1 DEF Quiet, NoLeakedSlot, Releasing, IsTerminal, TypeOK, Refs, Terminal, Retryable, ReapScan, Seen
    <3> QED BY <3>1, <3>2, <3>3
  <2>2. ASSUME NEW r \in reap.todo, ReapJudge(r)  PROVE Quiet' /\ HeldFree' /\ NoLeakedSlot'
    <3>1. Quiet'
      BY <2>2 DEF Quiet, TypeOK, Up, ReapJudge, StallVerdicts
    <3>2. HeldFree'
      BY <2>2 DEF Quiet, HeldFree, TypeOK, Refs, ReapJudge, StallVerdicts
    <3>3. NoLeakedSlot'
      BY <2>2 DEF Quiet, NoLeakedSlot, Releasing, IsTerminal, TypeOK, Refs, Terminal, Retryable, ReapJudge, StallVerdicts
    <3> QED BY <3>1, <3>2, <3>3
  <2>3. CASE ReapRelease
    <3>1. Quiet'
      BY <2>3 DEF Quiet, TypeOK, Up, ReapRelease, ReleaseByInstance
    <3>2. HeldFree'
      BY <2>3 DEF Quiet, HeldFree, TypeOK, Refs, ReapRelease, ReleaseByInstance
    <3>3. NoLeakedSlot'
      BY <2>3 DEF Quiet, NoLeakedSlot, Releasing, IsTerminal, TypeOK, Refs, Terminal, Retryable, ReapRelease, ReleaseByInstance
    <3> QED BY <3>1, <3>2, <3>3
  <2>4. CASE ReapRetry
    <3>1. Quiet'
      BY <2>4 DEF Quiet, TypeOK, Up, ReapRetry
    <3>2. HeldFree'
      BY <2>4 DEF Quiet, HeldFree, TypeOK, Refs, ReapRetry
    <3>3. reap.ins \in Instance /\ ins[reap.ins] \in Row
      BY <2>4, ExistsRow DEF Refs, TypeOK, ReapRetry
    <3>4. \A k \in Instance : ins'[k].status = ins[k].status
      BY <2>4, <3>3 DEF TypeOK, Row, ReapRetry, WithRetry
    <3>5. NoLeakedSlot'
      BY <2>4, <3>4 DEF NoLeakedSlot, Releasing, IsTerminal, TypeOK, Refs, ReapRetry
    <3> QED BY <3>1, <3>2, <3>5
  <2> QED BY <1>4, <2>1, <2>2, <2>3, <2>4, ScanSets DEF Reaper, ReapScanActive, ReapScanUnbound
<1>5. CASE RetryPump
  <2>1. CASE PumpScan
    <3>1. Quiet'
      BY <2>1 DEF Quiet, TypeOK, Up, PumpScan
    <3>2. HeldFree'
      BY <2>1 DEF Quiet, HeldFree, TypeOK, Refs, PumpScan
    <3>3. NoLeakedSlot'
      BY <2>1 DEF Quiet, NoLeakedSlot, Releasing, IsTerminal, TypeOK, Refs, Terminal, Retryable, PumpScan
    <3> QED BY <3>1, <3>2, <3>3
  <2>2. ASSUME NEW i \in pump.todo, ClearNextRetryTime(i)  PROVE Quiet' /\ HeldFree' /\ NoLeakedSlot'
    <3>1. Quiet'
      BY <2>2 DEF Quiet, TypeOK, Up, ClearNextRetryTime
    <3>2. HeldFree'
      BY <2>2 DEF Quiet, HeldFree, TypeOK, Refs, ClearNextRetryTime
    <3>3. i \in Instance /\ ins[i] \in Row
      BY <2>2, ExistsRow DEF Refs, TypeOK, ClearNextRetryTime
    <3>4. \A k \in Instance : ins'[k].status = ins[k].status
      BY <2>2, <3>3 DEF TypeOK, Row, ClearNextRetryTime
    <3>5. NoLeakedSlot'
      BY <2>2, <3>4 DEF NoLeakedSlot, Releasing, IsTerminal, TypeOK, Refs, ClearNextRetryTime
    <3> QED BY <3>1, <3>2, <3>5
  <2>3. CASE ExistsRetryChild
    <3>1. Quiet'
      BY <2>3 DEF Quiet, TypeOK, Up, ExistsRetryChild
    <3>2. HeldFree'
      BY <2>3 DEF Quiet, HeldFree, TypeOK, Refs, ExistsRetryChild
    <3>3. NoLeakedSlot'
      BY <2>3 DEF Quiet, NoLeakedSlot, Releasing, IsTerminal, TypeOK, Refs, Terminal, Retryable, ExistsRetryChild
    <3> QED BY <3>1, <3>2, <3>3
  <2>4. CASE PumpAcquire
    <3>1. Quiet'
      BY <2>4 DEF Quiet, TypeOK, Up, PumpAcquire, TryAcquire
    <3>2. HeldFree'
      BY <2>4 DEF Quiet, HeldFree, TypeOK, Refs, PumpAcquire, TryAcquire
    <3>3. NoLeakedSlot'
      BY <2>4 DEF Quiet, NoLeakedSlot, Releasing, IsTerminal, TypeOK, Refs, Terminal, Retryable, PumpAcquire, TryAcquire
    <3> QED BY <3>1, <3>2, <3>3
  <2>5. CASE PumpDefer
    <3>1. Quiet'
      BY <2>5 DEF Quiet, TypeOK, Up, PumpDefer
    <3>2. HeldFree'
      BY <2>5 DEF Quiet, HeldFree, TypeOK, Refs, PumpDefer
    <3>3. pump.ins \in Instance /\ ins[pump.ins] \in Row
      BY <2>5, ExistsRow DEF Refs, TypeOK, PumpDefer
    <3>4. \A k \in Instance : ins'[k].status = ins[k].status
      BY <2>5, <3>3 DEF TypeOK, Row, PumpDefer
    <3>5. NoLeakedSlot'
      BY <2>5, <3>4 DEF NoLeakedSlot, Releasing, IsTerminal, TypeOK, Refs, PumpDefer
    <3> QED BY <3>1, <3>2, <3>5
  <2>6. ASSUME NEW k \in Instance, PumpCreate(k)  PROVE Quiet' /\ HeldFree' /\ NoLeakedSlot'
    <3>1. Quiet'
      BY <2>6 DEF Quiet, TypeOK, Up, PumpCreate, NewRow, Goto
    <3>2. HeldFree'
      BY <2>6 DEF Quiet, HeldFree, TypeOK, Refs, PumpCreate, NewRow, Goto, IsNextId
    <3>3. NoLeakedSlot'
      BY <2>6 DEF Quiet, NoLeakedSlot, Releasing, IsTerminal, TypeOK, Refs, Terminal, Retryable, PumpCreate, NewRow, Goto
    <3> QED BY <3>1, <3>2, <3>3
  <2>7. CASE PumpCreateFails
    <3>1. Quiet'
      BY <2>7 DEF Quiet, TypeOK, Up, PumpCreateFails, ReleaseByJob
    <3>2. HeldFree'
      BY <2>7 DEF Quiet, HeldFree, TypeOK, Refs, PumpCreateFails, ReleaseByJob
    <3>3. NoLeakedSlot'
      BY <2>7 DEF Quiet, NoLeakedSlot, Releasing, IsTerminal, TypeOK, Refs, Terminal, Retryable, PumpCreateFails, ReleaseByJob
    <3> QED BY <3>1, <3>2, <3>3
  <2> QED BY <1>5, <2>1, <2>2, <2>3, <2>4, <2>5, <2>6, <2>7 DEF RetryPump
<1>6. CASE Registry
  <2>1. ASSUME NEW w \in Worker, Heartbeat(w)  PROVE Quiet' /\ HeldFree' /\ NoLeakedSlot'
    <3>1. Quiet'
      BY <2>1 DEF Quiet, TypeOK, Up, Heartbeat
    <3>2. HeldFree'
      BY <2>1 DEF Quiet, HeldFree, TypeOK, Refs, Heartbeat
    <3>3. NoLeakedSlot'
      BY <2>1 DEF Quiet, NoLeakedSlot, Releasing, IsTerminal, TypeOK, Refs, Terminal, Retryable, Heartbeat
    <3> QED BY <3>1, <3>2, <3>3
  <2>2. ASSUME NEW w \in Worker, HeartbeatExpires(w)  PROVE Quiet' /\ HeldFree' /\ NoLeakedSlot'
    <3>1. Quiet'
      BY <2>2 DEF Quiet, TypeOK, Up, HeartbeatExpires, Spend
    <3>2. HeldFree'
      BY <2>2 DEF Quiet, HeldFree, TypeOK, Refs, HeartbeatExpires, Spend
    <3>3. NoLeakedSlot'
      BY <2>2 DEF Quiet, NoLeakedSlot, Releasing, IsTerminal, TypeOK, Refs, Terminal, Retryable, HeartbeatExpires, Spend
    <3> QED BY <3>1, <3>2, <3>3
  <2>3. CASE Sweep
    <3>1. Quiet'
      BY <2>3 DEF Quiet, TypeOK, Up, Sweep
    <3>2. HeldFree'
      BY <2>3 DEF Quiet, HeldFree, TypeOK, Refs, Sweep
    <3>3. NoLeakedSlot'
      BY <2>3 DEF Quiet, NoLeakedSlot, Releasing, IsTerminal, TypeOK, Refs, Terminal, Retryable, Sweep
    <3> QED BY <3>1, <3>2, <3>3
  <2>4. CASE WarmupEnds
    <3>1. Quiet'
      BY <2>4 DEF Quiet, TypeOK, Up, WarmupEnds
    <3>2. HeldFree'
      BY <2>4 DEF Quiet, HeldFree, TypeOK, Refs, WarmupEnds
    <3>3. NoLeakedSlot'
      BY <2>4 DEF Quiet, NoLeakedSlot, Releasing, IsTerminal, TypeOK, Refs, Terminal, Retryable, WarmupEnds
    <3> QED BY <3>1, <3>2, <3>3
  <2> QED BY <1>6, <2>1, <2>2, <2>3, <2>4 DEF Registry
<1>7. CASE Recovery
  <2>1. ASSUME NEW i \in Instance, RecoverStaleActive(i)  PROVE Quiet' /\ HeldFree' /\ NoLeakedSlot'
    <3>1. Quiet'
      BY <2>1 DEF Quiet, TypeOK, Up, RecoverStaleActive, IsActive
    <3>2. HeldFree'
      BY <2>1 DEF Quiet, HeldFree, TypeOK, Refs, RecoverStaleActive, IsActive
    <3>3. NoLeakedSlot'
      BY <2>1 DEF Quiet, NoLeakedSlot, Releasing, IsTerminal, TypeOK, Refs, Terminal, Retryable, RecoverStaleActive, IsActive
    <3> QED BY <3>1, <3>2, <3>3
  <2>2. CASE RecoverRetry
    <3>1. Quiet'
      BY <2>2 DEF Quiet, TypeOK, Up, RecoverRetry
    <3>2. HeldFree'
      BY <2>2 DEF Quiet, HeldFree, TypeOK, Refs, RecoverRetry
    <3>3. NoLeakedSlot'
      BY <2>2 DEF Quiet, NoLeakedSlot, Releasing, IsTerminal, TypeOK, Refs, Terminal, Retryable, RecoverRetry
    <3> QED BY <3>1, <3>2, <3>3
  <2>3. CASE RecoverQueued
    <3>1. Quiet'
      BY <2>3 DEF Quiet, TypeOK, Up, RecoverQueued
    <3>2. HeldFree'
      BY <2>3 DEF Quiet, HeldFree, TypeOK, Refs, RecoverQueued
    <3>3. NoLeakedSlot'
      BY <2>3 DEF Quiet, NoLeakedSlot, Releasing, IsTerminal, TypeOK, Refs, Terminal, Retryable, RecoverQueued
    <3> QED BY <3>1, <3>2, <3>3
  <2> QED BY <1>7, <2>1, <2>2, <2>3 DEF Recovery
<1>8. CASE Crash
  <2>1. Quiet'
    BY <1>8 DEF Quiet, TypeOK, Up, Crash, Spend
  <2>2. HeldFree'
    BY <1>8 DEF Quiet, HeldFree, TypeOK, Refs, Crash, Spend
  <2>3. NoLeakedSlot'
    BY <1>8 DEF Quiet, NoLeakedSlot, Releasing, IsTerminal, TypeOK, Refs, Terminal, Retryable, Crash, Spend
  <2> QED BY <2>1, <2>2, <2>3
<1>9. CASE UNCHANGED vars
  BY <1>9 DEF vars, Quiet, HeldFree, NoLeakedSlot, Releasing, IsTerminal
<1> QED BY <1>1, <1>2, <1>3, <1>4, <1>5, <1>6, <1>7, <1>8, <1>9 DEF Next

HeldInv == TypeOK /\ Refs /\ Quiet /\ HeldFree /\ NoLeakedSlot

LEMMA HeldInvariant == Spec => []HeldInv
<1>1. Init => HeldInv
  BY InitType DEF Init, HeldInv, Quiet, HeldFree, NoLeakedSlot
<1>2. HeldInv /\ [Next]_vars => HeldInv'
  BY NextType, NextHeld DEF HeldInv
<1> QED BY <1>1, <1>2, PTL DEF Spec

\* No finished row keeps its slot: whoever ended it, somebody is about to release it.
THEOREM SlotNotLeaked == Spec => []NoLeakedSlot
<1>1. HeldInv => NoLeakedSlot
  BY DEF HeldInv
<1> QED BY <1>1, HeldInvariant, PTL
-----------------------------------------------------------------------------
(* Counting.  CB: a task that has a slot which is not yet bound in held. *)

CB == {"check", "bind"}

LEMMA UsersFinite ==
  ASSUME NEW j \in Job
  PROVE  IsFiniteSet(SlotUsers(j)) /\ Cardinality(SlotUsers(j)) \in Nat
BY SchedulerAssumption, FS_Subset, FS_CardinalityType DEF SchedulerAssumption, SlotUsers

LEMMA CapPositive == \A j \in Job : SlotCap(j) \in Nat /\ SlotCap(j) >= 1
BY SchedulerAssumption DEF SchedulerAssumption, SlotCap

LEMMA AddUser ==
  ASSUME NEW j \in Job, NEW i, i \notin SlotUsers(j), SlotUsers(j)' = SlotUsers(j) \cup {i}
  PROVE  Cardinality(SlotUsers(j))' = Cardinality(SlotUsers(j)) + 1
BY UsersFinite, FS_AddElement

LEMMA DropUser ==
  ASSUME NEW j \in Job, NEW i \in SlotUsers(j), SlotUsers(j)' = SlotUsers(j) \ {i}
  PROVE  /\ Cardinality(SlotUsers(j))' = Cardinality(SlotUsers(j)) - 1
         /\ Cardinality(SlotUsers(j)) >= 1
<1>1. Cardinality(SlotUsers(j))' = Cardinality(SlotUsers(j)) - 1
  BY UsersFinite, FS_RemoveElement
<1>2. SlotUsers(j) # {}
  OBVIOUS
<1>3. Cardinality(SlotUsers(j)) # 0
  BY <1>2, UsersFinite, FS_EmptySet
<1> QED BY <1>1, <1>3, UsersFinite

\* Users of a job whose rows, bindings and unbound slots a step leaves alone.
LEMMA SameUsers ==
  ASSUME TypeOK, Refs, RowsKept, NEW j \in Job,
         \A k \in Instance : \/ ins[k].job # j /\ ins'[k].job # j
                             \/ /\ k \in held' <=> k \in held
                                /\ task'[k] \in CB <=> task[k] \in CB
  PROVE  SlotUsers(j)' = SlotUsers(j)
<1>1. ASSUME NEW k \in Instance PROVE k \in SlotUsers(j)' <=> k \in SlotUsers(j)
  <2>1. CASE Exists(k)
    BY <2>1 DEF RowsKept, SlotUsers, CB
  <2>2. CASE ~Exists(k)
    BY <2>2, SchedulerAssumption, RowExists DEF SchedulerAssumption, SlotUsers, CB, Refs, TypeOK, Exists
  <2> QED BY <2>1, <2>2
<1> QED BY <1>1 DEF SlotUsers

SameClaims ==
  /\ claiming' = claiming
  /\ pump'.pc = "create" <=> pump.pc = "create"
  /\ pump.pc = "create" => pump'.ins = pump.ins

LEMMA ClaimsKept ==
  ASSUME Refs, RowsKept, SameClaims, NEW j \in Job
  PROVE  Claims(j)' = Claims(j)
BY DEF Refs, RowsKept, SameClaims, Claims

\* A step that takes and gives back nothing.
LEMMA Neutral ==
  ASSUME TypeOK, Refs, RowsKept, SlotAccounting, SameClaims, held' = held, slots' = slots,
         \A k \in Instance : task'[k] \in CB <=> task[k] \in CB
  PROVE  SlotAccounting'
<1> SUFFICES ASSUME NEW j \in Job
             PROVE  /\ slots'[j] = Cardinality(SlotUsers(j))' + Claims(j)'
                    /\ slots'[j] <= SlotCap(j)
  BY DEF SlotAccounting, SlotCap
<1>1. SlotUsers(j)' = SlotUsers(j)
  BY SameUsers
<1>2. Claims(j)' = Claims(j)
  BY ClaimsKept
<1> QED BY <1>1, <1>2 DEF SlotAccounting

\* releaseByInstance gives back one slot if the row holds one, and none otherwise.
LEMMA Release ==
  ASSUME TypeOK, Refs, RowsKept, HeldFree, SlotAccounting, SameClaims,
         NEW i \in Instance, Exists(i), ReleaseByInstance(i),
         \A k \in Instance : task'[k] \in CB <=> task[k] \in CB
  PROVE  SlotAccounting'
<1>1. CASE i \notin held
  BY <1>1, Neutral DEF ReleaseByInstance
<1>2. CASE i \in held
  <2> SUFFICES ASSUME NEW j \in Job
               PROVE  /\ slots'[j] = Cardinality(SlotUsers(j))' + Claims(j)'
                      /\ slots'[j] <= SlotCap(j)
    BY DEF SlotAccounting, SlotCap
  <2>1. Claims(j)' = Claims(j) /\ Claims(j) \in Nat
    BY ClaimsKept DEF Claims
  <2>2. CASE ins[i].job # j
    <3>1. ins'[i].job # j
      BY <2>2 DEF RowsKept
    <3>2. SlotUsers(j)' = SlotUsers(j)
      BY <2>2, <3>1, SameUsers DEF ReleaseByInstance
    <3> QED BY <1>2, <2>1, <2>2, <3>2 DEF SlotAccounting, ReleaseByInstance, TypeOK
  <2>3. CASE ins[i].job = j
    <3>1. i \in SlotUsers(j) /\ task[i] \notin CB
      BY <1>2, <2>3 DEF SlotUsers, HeldFree, CB
    <3>2. ASSUME NEW k \in Instance PROVE k \in SlotUsers(j)' <=> k \in SlotUsers(j) \ {i}
      <4>1. CASE Exists(k)
        BY <3>1, <4>1 DEF RowsKept, SlotUsers, CB, ReleaseByInstance
      <4>2. CASE ~Exists(k)
        BY <3>1, <4>2, SchedulerAssumption, RowExists
           DEF SchedulerAssumption, SlotUsers, CB, Refs, TypeOK, Exists, ReleaseByInstance
      <4> QED BY <4>1, <4>2
    <3>3. SlotUsers(j)' = SlotUsers(j) \ {i}
      BY <3>2 DEF SlotUsers
    <3>4. slots[j] = Cardinality(SlotUsers(j)) + Claims(j) /\ slots[j] <= SlotCap(j)
      BY DEF SlotAccounting
    <3>5. slots'[j] = slots[j] - 1
      BY <1>2, <2>1, <2>3, <3>1, <3>3, <3>4, DropUser, UsersFinite DEF ReleaseByInstance, Dec, TypeOK
    <3>6. Cardinality(SlotUsers(j))' = Cardinality(SlotUsers(j)) - 1
      BY <3>1, <3>3, DropUser
    <3> QED BY <2>1, <3>4, <3>5, <3>6, UsersFinite, CapPositive DEF TypeOK
  <2> QED BY <2>2, <2>3
<1> QED BY <1>1, <1>2

LEMMA NextSlots ==
  ASSUME TypeOK, Refs, Quiet, HeldFree, SlotAccounting, [Next]_vars
  PROVE  SlotAccounting'
<1>0. RowsKept
  BY NextType
<1>1. ASSUME NEW j \in Job, Trigger(j)  PROVE SlotAccounting'
  <2>1. CASE AutoAcquire(j)
    <3> SUFFICES ASSUME NEW q \in Job
                 PROVE  /\ slots'[q] = Cardinality(SlotUsers(q))' + Claims(q)'
                        /\ slots'[q] <= SlotCap(q)
      BY DEF SlotAccounting, SlotCap
    <3>1. SlotUsers(q)' = SlotUsers(q)
      BY <2>1, <1>0, SameUsers DEF AutoAcquire
    <3>2. CASE q # j
      BY <2>1, <3>1, <3>2 DEF SlotAccounting, Claims, AutoAcquire, TryAcquire, TypeOK
    <3>3. CASE q = j
      <4>1. slots[j] = 0 /\ slots'[j] = 1
        BY <2>1 DEF AutoAcquire, TryAcquire, TypeOK
      <4>2. Claims(j) = 0 /\ Cardinality(SlotUsers(j)) = 0
        BY <4>1, UsersFinite DEF SlotAccounting, Claims
      <4>3. Claims(j)' = 1
        BY <2>1, <4>2 DEF AutoAcquire, Claims
      <4> QED BY <3>1, <3>3, <4>1, <4>2, <4>3, CapPositive
    <3> QED BY <3>2, <3>3
  <2>2. CASE AutoAbandon(j)
    <3> SUFFICES ASSUME NEW q \in Job
                 PROVE  /\ slots'[q] = Cardinality(SlotUsers(q))' + Claims(q)'
                        /\ slots'[q] <= SlotCap(q)
      BY DEF SlotAccounting, SlotCap
    <3>1. SlotUsers(q)' = SlotUsers(q)
      BY <2>2, <1>0, SameUsers DEF AutoAbandon
    <3>2. CASE q # j
      BY <2>2, <3>1, <3>2 DEF SlotAccounting, Claims, AutoAbandon, ReleaseByJob, TypeOK
    <3>3. CASE q = j
      <4>1. Claims(j) \in Nat /\ Claims(j) >= 1 /\ Claims(j)' = Claims(j) - 1
        BY <2>2 DEF AutoAbandon, Claims
      <4>2. slots[j] \in Nat /\ slots[j] = Cardinality(SlotUsers(j)) + Claims(j) /\ slots[j] <= SlotCap(j)
        BY DEF SlotAccounting, TypeOK
      <4>3. slots'[j] = slots[j] - 1
        BY <2>2, <4>1, <4>2, UsersFinite DEF AutoAbandon, ReleaseByJob, Dec, TypeOK
      <4> QED BY <3>1, <3>3, <4>1, <4>2, <4>3, UsersFinite, CapPositive
    <3> QED BY <3>2, <3>3
  <2>3. ASSUME NEW i \in Instance, AutoCreate(j, i)  PROVE SlotAccounting'
    <3> SUFFICES ASSUME NEW q \in Job
                 PROVE  /\ slots'[q] = Cardinality(SlotUsers(q))' + Claims(q)'
                        /\ slots'[q] <= SlotCap(q)
      BY DEF SlotAccounting, SlotCap
    <3>1. i \notin held /\ task[i] = "idle" /\ ins[i].job = None /\ ins'[i].job = j /\ task'[i] = "bind"
      BY <2>3, RowExists DEF AutoCreate, IsNextId, Exists, Refs, TypeOK, Goto, NewRow
    <3>2. CASE q # j
      <4>1. ins[i].job # q /\ ins'[i].job # q
        BY <3>1, <3>2, SchedulerAssumption DEF SchedulerAssumption
      <4>2. SlotUsers(q)' = SlotUsers(q)
        BY <2>3, <1>0, <4>1, SameUsers DEF AutoCreate, Goto, TypeOK
      <4>3. Claims(q)' = Claims(q)
        BY <2>3, <1>0, <3>2 DEF Claims, AutoCreate, RowsKept, Refs
      <4> QED BY <2>3, <4>2, <4>3 DEF SlotAccounting, AutoCreate
    <3>3. CASE q = j
      <4>1. i \notin SlotUsers(q)
        BY <3>1, SchedulerAssumption DEF SchedulerAssumption, SlotUsers
      <4>2. ASSUME NEW x \in Instance PROVE x \in SlotUsers(q)' <=> x \in SlotUsers(q) \cup {i}
        <5>1. CASE x = i
          BY <3>1, <3>3, <5>1 DEF SlotUsers
        <5>2. CASE x # i
          BY <2>3, <5>2 DEF SlotUsers, AutoCreate, Goto, TypeOK
        <5> QED BY <5>1, <5>2
      <4>3. SlotUsers(q)' = SlotUsers(q) \cup {i}
        BY <2>3, <4>2 DEF SlotUsers
      <4>4. Cardinality(SlotUsers(q))' = Cardinality(SlotUsers(q)) + 1
        BY <4>1, <4>3, AddUser
      <4>5. Claims(q) \in Nat /\ Claims(q)' = Claims(q) - 1
        BY <2>3, <1>0, <3>3 DEF Claims, AutoCreate, RowsKept, Refs
      <4>6. slots'[q] = slots[q] /\ slots[q] = Cardinality(SlotUsers(q)) + Claims(q) /\ slots[q] <= SlotCap(q)
        BY <2>3 DEF SlotAccounting, AutoCreate
      <4> QED BY <4>4, <4>5, <4>6, UsersFinite
    <3> QED BY <3>2, <3>3
  <2>4. ASSUME NEW i \in Instance, SubmitManual(j, i)  PROVE SlotAccounting'
    <3>1. task[i] = "idle" /\ i \notin held /\ ins[i].status = "absent"
      BY <2>4, <1>0 DEF SubmitManual, IsNextId, Exists, Refs
    <3> QED BY <2>4, <1>0, <3>1, Neutral DEF SameClaims, CB, TypeOK, SubmitManual, Goto
  <2> QED BY <1>1, <2>1, <2>2, <2>3, <2>4 DEF Trigger
<1>2. ASSUME NEW i \in Instance, Dispatch(i)  PROVE SlotAccounting'
  <2>1. CASE PushPending(i)
    BY <2>1, <1>0, Neutral DEF SameClaims, CB, TypeOK, PushPending, Goto
  <2>2. CASE PopPending(i)
    <3> SUFFICES ASSUME NEW q \in Job
                 PROVE  /\ slots'[q] = Cardinality(SlotUsers(q))' + Claims(q)'
                        /\ slots'[q] <= SlotCap(q)
      BY DEF SlotAccounting, SlotCap
    <3>0. Exists(i) /\ i \notin held /\ task'[i] = "check" /\ ins'[i] = ins[i] /\ ins[i].job \in Job
      BY <2>2, ExistsRow DEF PopPending, HeldFree, Refs, TypeOK, Goto, Row
    <3>1. Claims(q)' = Claims(q) /\ Claims(q) \in Nat
      BY <2>2 DEF Claims, PopPending
    <3>2. CASE q # ins[i].job
      <4>1. SlotUsers(q)' = SlotUsers(q)
        BY <2>2, <1>0, <3>0, <3>2, SameUsers DEF PopPending, Goto, TypeOK
      <4> QED BY <2>2, <4>1, <3>1, <3>2 DEF SlotAccounting, PopPending, TryAcquire, TypeOK
    <3>3. CASE q = ins[i].job
      <4>1. i \notin SlotUsers(q)
        BY <2>2, <3>0 DEF SlotUsers, PopPending
      <4>2. SlotUsers(q)' = SlotUsers(q) \cup {i}
        BY <2>2, <3>0, <3>3 DEF SlotUsers, PopPending, Goto, TypeOK
      <4>3. Cardinality(SlotUsers(q))' = Cardinality(SlotUsers(q)) + 1
        BY <4>1, <4>2, AddUser
      <4>4. slots'[q] = slots[q] + 1 /\ slots[q] < SlotCap(q)
        BY <2>2, <3>0, <3>3 DEF PopPending, TryAcquire, TypeOK
      <4>5. slots[q] \in Nat /\ slots[q] = Cardinality(SlotUsers(q)) + Claims(q)
        BY DEF SlotAccounting, TypeOK
      <4> QED BY <3>1, <4>3, <4>4, <4>5, UsersFinite, CapPositive
    <3> QED BY <3>2, <3>3
  <2>3. CASE DropPending(i)
    BY <2>3, <1>0, Neutral DEF SameClaims, CB, TypeOK, DropPending, Goto
  <2>4. CASE CheckPending(i)
    <3> SUFFICES ASSUME NEW q \in Job
                 PROVE  /\ slots'[q] = Cardinality(SlotUsers(q))' + Claims(q)'
                        /\ slots'[q] <= SlotCap(q)
      BY DEF SlotAccounting, SlotCap
    <3>0. Exists(i) /\ i \notin held /\ ins'[i] = ins[i] /\ ins[i].job \in Job
      BY <2>4, ExistsRow DEF CheckPending, HeldFree, Refs, TypeOK, Row
    <3>1. Claims(q)' = Claims(q) /\ Claims(q) \in Nat
      BY <2>4 DEF Claims, CheckPending
    <3>2. CASE task' = [task EXCEPT ![i] = "bind"] /\ UNCHANGED slots
      <4>1. SlotUsers(q)' = SlotUsers(q)
        BY <2>4, <1>0, <3>2, SameUsers DEF CheckPending, CB, TypeOK
      <4> QED BY <4>1, <3>1, <3>2 DEF SlotAccounting
    <3>3. CASE task' = [task EXCEPT ![i] = "idle"] /\ ReleaseByJob(ins[i].job)
      <4>1. CASE q # ins[i].job
        <5>1. SlotUsers(q)' = SlotUsers(q)
          BY <2>4, <1>0, <3>0, <3>3, <4>1, SameUsers DEF CheckPending, TypeOK
        <5> QED BY <3>1, <3>3, <4>1, <5>1 DEF SlotAccounting, ReleaseByJob, TypeOK
      <4>2. CASE q = ins[i].job
        <5>1. i \in SlotUsers(q)
          BY <2>4, <4>2 DEF SlotUsers, CheckPending
        <5>2. SlotUsers(q)' = SlotUsers(q) \ {i}
          BY <2>4, <3>0, <3>3 DEF SlotUsers, CheckPending, TypeOK
        <5>3. Cardinality(SlotUsers(q))' = Cardinality(SlotUsers(q)) - 1 /\ Cardinality(SlotUsers(q)) >= 1
          BY <5>1, <5>2, DropUser
        <5>4. slots[q] \in Nat /\ slots[q] = Cardinality(SlotUsers(q)) + Claims(q) /\ slots[q] <= SlotCap(q)
          BY DEF SlotAccounting, TypeOK
        <5>5. slots'[q] = slots[q] - 1
          BY <3>0, <3>1, <3>3, <4>2, <5>3, <5>4, UsersFinite DEF ReleaseByJob, Dec, TypeOK
        <5> QED BY <3>1, <5>3, <5>4, <5>5, UsersFinite, CapPositive
      <4> QED BY <4>1, <4>2
    <3> QED BY <2>4, <3>2, <3>3 DEF CheckPending, Goto
  <2>5. CASE Bind(i)
    <3> SUFFICES ASSUME NEW q \in Job
                 PROVE  /\ slots'[q] = Cardinality(SlotUsers(q))' + Claims(q)'
                        /\ slots'[q] <= SlotCap(q)
      BY DEF SlotAccounting, SlotCap
    <3>1. \A x \in Instance : (x \in held' \/ task'[x] \in CB) <=> (x \in held \/ task[x] \in CB)
      BY <2>5 DEF Bind, BindHeld, Goto, CB, TypeOK
    <3>2. SlotUsers(q)' = SlotUsers(q)
      BY <2>5, <3>1 DEF SlotUsers, CB, Bind
    <3> QED BY <2>5, <3>2 DEF SlotAccounting, Claims, Bind
  <2>6. CASE PickWorker(i)
    BY <2>6, <1>0, Neutral DEF SameClaims, CB, TypeOK, PickWorker, Goto, SetTarget
  <2>7. CASE HasOnlineWorker(i)
    BY <2>7, <1>0, Neutral DEF SameClaims, CB, TypeOK, HasOnlineWorker, Goto
  <2>8. CASE MarkDispatched(i)
    BY <2>8, <1>0, Neutral DEF SameClaims, CB, TypeOK, MarkDispatched, Goto
  <2>9. CASE Send(i)
    BY <2>9, <1>0, Neutral DEF SameClaims, CB, TypeOK, Send, Goto
  <2>10. CASE Sent(i)
    BY <2>10, <1>0, Neutral DEF SameClaims, CB, TypeOK, Sent, Goto, SetTarget, BindWorkerAddr
  <2>11. CASE FailDispatch(i)
    BY <2>11, <1>0, Neutral DEF SameClaims, CB, TypeOK, FailDispatch, Goto, SetTarget
  <2>12. CASE ReleaseTask(i)
    BY <2>12, <1>0, Release DEF Refs, SameClaims, CB, AfterRelease, TypeOK, ReleaseTask, Goto
  <2>13. CASE RetryTask(i)
    BY <2>13, <1>0, Neutral DEF SameClaims, CB, TypeOK, RetryTask, Goto
  <2>14. CASE RequeueAfterNoWorker(i)
    BY <2>14, <1>0, Neutral DEF SameClaims, CB, TypeOK, RequeueAfterNoWorker, Goto
  <2> QED BY <1>2, <2>1, <2>2, <2>3, <2>4, <2>5, <2>6, <2>7, <2>8, <2>9, <2>10, <2>11, <2>12, <2>13, <2>14 DEF Dispatch
<1>3. ASSUME NEW i \in Instance, Handle(i)  PROVE SlotAccounting'
  <2>1. ASSUME NEW w \in Worker, NEW s \in Reports, Report(i, w, s)  PROVE SlotAccounting'
    BY <2>1, <1>0, Neutral DEF SameClaims, CB, TypeOK, Report
  <2>2. ASSUME NEW s \in StopStatuses, Stop(i, s)  PROVE SlotAccounting'
    BY <2>2, <1>0, Neutral DEF SameClaims, CB, TypeOK, Stop
  <2>3. CASE ReleaseInFlight(i)
    BY <2>3, <1>0, Release DEF Refs, SameClaims, CB, ReleaseInFlight
  <2>4. CASE Retry(i)
    BY <2>4, <1>0, Neutral DEF SameClaims, CB, TypeOK, Retry
  <2>5. CASE LowerInflight(i)
    BY <2>5, <1>0, Neutral DEF SameClaims, CB, TypeOK, LowerInflight
  <2> QED BY <1>3, <2>1, <2>2, <2>3, <2>4, <2>5 DEF Handle
<1>4. CASE Reaper
  <2>1. ASSUME NEW S \in SUBSET {k \in Instance : Exists(k)}, ReapScan(S)  PROVE SlotAccounting'
    BY <2>1, <1>0, Neutral DEF SameClaims, CB, TypeOK, ReapScan
  <2>2. ASSUME NEW r \in reap.todo, ReapJudge(r)  PROVE SlotAccounting'
    BY <2>2, <1>0, Neutral DEF SameClaims, CB, TypeOK, ReapJudge
  <2>3. CASE ReapRelease
    BY <2>3, <1>0, Release DEF Refs, SameClaims, CB, ReapRelease
  <2>4. CASE ReapRetry
    BY <2>4, <1>0, Neutral DEF SameClaims, CB, TypeOK, ReapRetry
  <2> QED BY <1>4, <2>1, <2>2, <2>3, <2>4, ScanSets DEF Reaper, ReapScanActive, ReapScanUnbound
<1>5. CASE RetryPump
  <2>1. CASE PumpScan
    BY <2>1, <1>0, Neutral DEF SameClaims, CB, TypeOK, PumpScan
  <2>2. ASSUME NEW i \in pump.todo, ClearNextRetryTime(i)  PROVE SlotAccounting'
    BY <2>2, <1>0, Neutral DEF SameClaims, CB, TypeOK, ClearNextRetryTime
  <2>3. CASE ExistsRetryChild
    BY <2>3, <1>0, Neutral DEF SameClaims, CB, TypeOK, ExistsRetryChild
  <2>4. CASE PumpAcquire
    <3>1. CASE pump' = [pump EXCEPT !.pc = "defer"] /\ UNCHANGED slots
      BY <2>4, <1>0, <3>1, Neutral DEF SameClaims, PumpAcquire, TypeOK
    <3>2. CASE TryAcquire(ins[pump.ins].job, SlotCap(ins[pump.ins].job)) /\ pump' = [pump EXCEPT !.pc = "create"]
      <4> SUFFICES ASSUME NEW q \in Job
                   PROVE  /\ slots'[q] = Cardinality(SlotUsers(q))' + Claims(q)'
                          /\ slots'[q] <= SlotCap(q)
        BY DEF SlotAccounting, SlotCap
      <4>1. SlotUsers(q)' = SlotUsers(q)
        BY <2>4, <1>0, SameUsers DEF PumpAcquire
      <4>2. ins[pump.ins].job \in Job /\ pump'.pc = "create" /\ pump'.ins = pump.ins /\ pump.pc = "acquire" /\ ins' = ins
        BY <2>4, <3>2, ExistsRow DEF PumpAcquire, Refs, TypeOK, Row
      <4>3. slots[q] \in Nat /\ slots[q] = Cardinality(SlotUsers(q)) + Claims(q) /\ slots[q] <= SlotCap(q)
        BY DEF SlotAccounting, TypeOK
      <4>4. CASE q # ins[pump.ins].job
        BY <2>4, <3>2, <4>1, <4>2, <4>3, <4>4 DEF Claims, PumpAcquire, TryAcquire, TypeOK
      <4>5. CASE q = ins[pump.ins].job
        <5>1. Claims(q) \in Nat /\ Claims(q)' = Claims(q) + 1
          BY <2>4, <4>2, <4>5 DEF Claims, PumpAcquire
        <5>2. slots'[q] = slots[q] + 1 /\ slots[q] < SlotCap(q)
          BY <3>2, <4>2, <4>5 DEF TryAcquire, TypeOK
        <5> QED BY <4>1, <4>3, <5>1, <5>2, UsersFinite, CapPositive
      <4> QED BY <4>4, <4>5
    <3> QED BY <2>4, <3>1, <3>2 DEF PumpAcquire
  <2>5. CASE PumpDefer
    BY <2>5, <1>0, Neutral DEF SameClaims, CB, TypeOK, PumpDefer
  <2>6. ASSUME NEW k \in Instance, PumpCreate(k)  PROVE SlotAccounting'
    <3> SUFFICES ASSUME NEW q \in Job
                 PROVE  /\ slots'[q] = Cardinality(SlotUsers(q))' + Claims(q)'
                        /\ slots'[q] <= SlotCap(q)
      BY DEF SlotAccounting, SlotCap
    <3>0. pump.ins \in Instance /\ pump.ins # k /\ ins[pump.ins] \in Row
      BY <2>6, ExistsRow DEF Refs, PumpCreate, IsNextId
    <3>1. k \notin held /\ task[k] = "idle" /\ ins[k].job = None /\ ins'[k].job = ins[pump.ins].job /\ task'[k] = "bind"
      BY <2>6, <3>0, RowExists DEF PumpCreate, IsNextId, Exists, Refs, TypeOK, Goto, NewRow
    <3>2. CASE q # ins[pump.ins].job
      <4>1. ins[k].job # q /\ ins'[k].job # q
        BY <3>1, <3>2, SchedulerAssumption DEF SchedulerAssumption
      <4>2. SlotUsers(q)' = SlotUsers(q)
        BY <2>6, <1>0, <4>1, SameUsers DEF PumpCreate, Goto, TypeOK
      <4>3. Claims(q)' = Claims(q)
        BY <2>6, <3>0, <1>0, <3>2 DEF Claims, PumpCreate, RowsKept, Refs
      <4> QED BY <2>6, <4>2, <4>3 DEF SlotAccounting, PumpCreate
    <3>3. CASE q = ins[pump.ins].job
      <4>1. k \notin SlotUsers(q)
        BY <3>1, SchedulerAssumption DEF SchedulerAssumption, SlotUsers
      <4>2. ASSUME NEW x \in Instance PROVE x \in SlotUsers(q)' <=> x \in SlotUsers(q) \cup {k}
        <5>1. CASE x = k
          BY <3>1, <3>3, <5>1 DEF SlotUsers
        <5>2. CASE x # k
          BY <2>6, <5>2 DEF SlotUsers, PumpCreate, Goto, TypeOK
        <5> QED BY <5>1, <5>2
      <4>3. SlotUsers(q)' = SlotUsers(q) \cup {k}
        BY <2>6, <4>2 DEF SlotUsers
      <4>4. Cardinality(SlotUsers(q))' = Cardinality(SlotUsers(q)) + 1
        BY <4>1, <4>3, AddUser
      <4>5. Claims(q) \in Nat /\ Claims(q)' = Claims(q) - 1
        BY <2>6, <3>0, <1>0, <3>3 DEF Claims, PumpCreate, RowsKept, Refs
      <4>6. slots'[q] = slots[q] /\ slots[q] = Cardinality(SlotUsers(q)) + Claims(q) /\ slots[q] <= SlotCap(q)
        BY <2>6 DEF SlotAccounting, PumpCreate
      <4> QED BY <4>4, <4>5, <4>6, UsersFinite
    <3> QED BY <3>2, <3>3
  <2>7. CASE PumpCreateFails
    <3> SUFFICES ASSUME NEW q \in Job
                 PROVE  /\ slots'[q] = Cardinality(SlotUsers(q))' + Claims(q)'
                        /\ slots'[q] <= SlotCap(q)
      BY DEF SlotAccounting, SlotCap
    <3>1. SlotUsers(q)' = SlotUsers(q)
      BY <2>7, <1>0, SameUsers DEF PumpCreateFails
    <3>2. /\ pump.ins \in Instance /\ Exists(pump.ins) /\ pump.pc = "create" /\ pump'.pc = "idle"
         /\ claiming' = claiming /\ ReleaseByJob(ins[pump.ins].job)
      BY <2>7 DEF PumpCreateFails, Refs, TypeOK
    <3>3. ins[pump.ins].job \in Job
      BY <3>2, ExistsRow DEF Row
    <3>4. slots[q] \in Nat /\ slots[q] = Cardinality(SlotUsers(q)) + Claims(q) /\ slots[q] <= SlotCap(q)
      BY DEF SlotAccounting, TypeOK
    <3>5. CASE q # ins[pump.ins].job
      BY <3>1, <3>2, <3>3, <3>4, <3>5 DEF Claims, ReleaseByJob, TypeOK
    <3>6. CASE q = ins[pump.ins].job
      <4>1. Claims(q) \in Nat /\ Claims(q) >= 1 /\ Claims(q)' = Claims(q) - 1
        BY <3>2, <3>6 DEF Claims
      <4>2. slots'[q] = slots[q] - 1
        BY <3>2, <3>3, <3>4, <3>6, <4>1, UsersFinite DEF ReleaseByJob, Dec, TypeOK
      <4> QED BY <3>1, <3>4, <4>1, <4>2, UsersFinite, CapPositive
    <3> QED BY <3>5, <3>6
  <2> QED BY <1>5, <2>1, <2>2, <2>3, <2>4, <2>5, <2>6, <2>7 DEF RetryPump
<1>6. CASE Registry
  <2>1. ASSUME NEW w \in Worker, Heartbeat(w)  PROVE SlotAccounting'
    BY <2>1, <1>0, Neutral DEF SameClaims, CB, TypeOK, Heartbeat
  <2>2. ASSUME NEW w \in Worker, HeartbeatExpires(w)  PROVE SlotAccounting'
    BY <2>2, <1>0, Neutral DEF SameClaims, CB, TypeOK, HeartbeatExpires
  <2>3. CASE Sweep
    BY <2>3, <1>0, Neutral DEF SameClaims, CB, TypeOK, Sweep
  <2>4. CASE WarmupEnds
    BY <2>4, <1>0, Neutral DEF SameClaims, CB, TypeOK, WarmupEnds
  <2> QED BY <1>6, <2>1, <2>2, <2>3, <2>4 DEF Registry
<1>7. CASE Recovery
  <2>1. ASSUME NEW i \in Instance, RecoverStaleActive(i)  PROVE SlotAccounting'
    BY <2>1, <1>0, Neutral DEF SameClaims, CB, TypeOK, RecoverStaleActive
  <2>2. CASE RecoverRetry
    BY <2>2, <1>0, Neutral DEF SameClaims, CB, TypeOK, RecoverRetry
  <2>3. CASE RecoverQueued
    BY <2>3, <1>0, Neutral DEF SameClaims, CB, TypeOK, RecoverQueued, Quiet
  <2> QED BY <1>7, <2>1, <2>2, <2>3 DEF Recovery
<1>8. CASE Crash
  <2> SUFFICES ASSUME NEW q \in Job
               PROVE  /\ slots'[q] = Cardinality(SlotUsers(q))' + Claims(q)'
                      /\ slots'[q] <= SlotCap(q)
    BY DEF SlotAccounting, SlotCap
  <2>1. SlotUsers(q)' = {}
    BY <1>8 DEF Crash, SlotUsers
  <2>2. Claims(q)' = 0
    BY <1>8 DEF Crash, Claims
  <2>3. slots'[q] = 0
    BY <1>8 DEF Crash
  <2>4. Cardinality(SlotUsers(q)') = 0
    BY <2>1, FS_EmptySet
  <2> QED BY <2>2, <2>3, <2>4, CapPositive
<1>9. CASE UNCHANGED vars
  BY <1>9, <1>0, Neutral DEF vars, SameClaims
<1> QED BY <1>1, <1>2, <1>3, <1>4, <1>5, <1>6, <1>7, <1>8, <1>9 DEF Next

\* The slot counters are exact and within MaxConcurrency in every reachable state, for
\* any number of jobs, rows and workers, with crashes and failing database calls.
THEOREM SlotsExact == Spec => []SlotAccounting
<1>1. Init => SlotAccounting
  <2> SUFFICES ASSUME Init, NEW j \in Job
               PROVE  /\ slots[j] = Cardinality(SlotUsers(j)) + Claims(j)
                      /\ slots[j] <= SlotCap(j)
    BY DEF SlotAccounting
  <2>1. SlotUsers(j) = {} /\ Claims(j) = 0 /\ slots[j] = 0
    BY DEF Init, SlotUsers, Claims
  <2> QED BY <2>1, FS_EmptySet, CapPositive
<1>2. HeldInv /\ SlotAccounting /\ [Next]_vars => SlotAccounting'
  BY NextSlots DEF HeldInv
<1> QED BY <1>1, <1>2, HeldInvariant, PTL DEF Spec
=============================================================================
