--------------------------- MODULE RefinementProofs ---------------------------
(***************************************************************************)
(* The limit of a job, and the refinement of RunLifecycle by Scheduler.    *)
(*                                                                         *)
(* Every step of Scheduler that changes what RunLifecycle sees is a new    *)
(* row (MapTrigger, MapRetry) or one write of one status (MapStatus).      *)
(***************************************************************************)
EXTENDS RetryProofs, SchedulerRefinement

USE DEF dbVars, taskVars, slotVars, loopVars, regVars, envVars
-----------------------------------------------------------------------------
(* Who holds a slot. *)

\* A row that is unfinished and with a worker, or on its way to one, holds its slot.
LiveHeld ==
  MaxCrashes = 0 /\ ~DbFaults =>
    \A i \in Instance :
      /\ ~IsTerminal(i)
      /\ \/ task[i] \in {"pick", "unpicked", "mark", "send", "sent", "fail", "noworker"}
         \/ delivered[i] # {}
         \/ IsActive(i)
      => i \in held

LEMMA NextLive ==
  ASSUME TypeOK, Refs, Course, LiveHeld, [Next]_vars
  PROVE  LiveHeld'
<1> SUFFICES ASSUME MaxCrashes = 0, ~DbFaults, NEW q \in Instance, ~IsTerminal(q)',
                    \/ task'[q] \in {"pick", "unpicked", "mark", "send", "sent", "fail", "noworker"}
                    \/ delivered'[q] # {}
                    \/ IsActive(q)'
             PROVE  q \in held'
  BY DEF LiveHeld
<1>0. /\ ~IsTerminal(q) /\ ( \/ task[q] \in {"pick", "unpicked", "mark", "send", "sent", "fail", "noworker"}
                             \/ delivered[q] # {}
                             \/ IsActive(q) ) => q \in held
      /\ q \in handler => IsTerminal(q)
      /\ task[q] \in {"release", "releaseretry"} => IsTerminal(q)
      /\ task[q] \in Waiting => delivered[q] = {} /\ ~IsActive(q)
      /\ reap.pc # "idle" => IsTerminal(reap.ins)
      /\ delivered[q] # {} => Exists(q)
      /\ phase = "up"
  BY DEF LiveHeld, Course, Ended, Unsent, NoResend, NoBoot, Refs
<1>t. IsTerminal(q) => IsTerminal(q)'
  BY NextStatus, SchedulerAssumption DEF StatusKept, IsTerminal, Terminal, SchedulerAssumption
<1>1. ~IsTerminal(q)
  BY <1>t
<1>2. ASSUME NEW j \in Job, Trigger(j)  PROVE q \in held'
  <2>1. CASE AutoAcquire(j)
    BY <2>1, <1>0, <1>1 DEF TypeOK, AutoAcquire, IsActive
  <2>2. CASE AutoAbandon(j)
    BY <2>2, <1>0, <1>1 DEF TypeOK, AutoAbandon, IsActive
  <2>3. ASSUME NEW i \in Instance, AutoCreate(j, i)  PROVE q \in held'
    BY <2>3, <1>0, <1>1 DEF TypeOK, AutoCreate, Goto, NewRow, IsNextId, IsActive, Active, Exists
  <2>4. ASSUME NEW i \in Instance, SubmitManual(j, i)  PROVE q \in held'
    BY <2>4, <1>0, <1>1 DEF TypeOK, SubmitManual, Goto, NewRow, IsNextId, IsActive, Active, Exists
  <2> QED BY <1>2, <2>1, <2>2, <2>3, <2>4 DEF Trigger
<1>3. ASSUME NEW i \in Instance, Dispatch(i)  PROVE q \in held'
  <2>1. CASE PushPending(i)
    BY <2>1, <1>0, <1>1 DEF TypeOK, PushPending, Goto, IsActive
  <2>2. CASE PopPending(i)
    BY <2>2, <1>0, <1>1 DEF TypeOK, PopPending, Goto, IsActive
  <2>3. CASE DropPending(i)
    BY <2>3, <1>0, <1>1 DEF TypeOK, DropPending, Goto, IsActive
  <2>4. CASE CheckPending(i)
    BY <2>4, <1>0, <1>1 DEF TypeOK, CheckPending, Goto, IsActive, Waiting
  <2>5. CASE Bind(i)
    BY <2>5, <1>0, <1>1 DEF TypeOK, Bind, Goto, BindHeld, IsActive, Waiting
  <2>6. CASE PickWorker(i)
    BY <2>6, <1>0, <1>1 DEF TypeOK, PickWorker, Goto, IsActive
  <2>7. CASE HasOnlineWorker(i)
    BY <2>7, <1>0, <1>1 DEF TypeOK, HasOnlineWorker, Goto, IsActive
  <2>8. CASE MarkDispatched(i)
    <3>1. i \in Instance /\ ins[i] \in Row
      BY <2>8, ExistsRow DEF TypeOK, Refs, Exists, MarkDispatched
    <3> QED
      BY <2>8, <1>0, <1>1, <3>1 DEF TypeOK, MarkDispatched, Goto, Row, IsTerminal, IsActive, Waiting
  <2>9. CASE Send(i)
    BY <2>9, <1>0, <1>1 DEF TypeOK, Send, Goto, IsActive
  <2>10. CASE Sent(i)
    BY <2>10, <1>0, <1>1 DEF TypeOK, Sent, Goto, IsActive
  <2>11. CASE FailDispatch(i)
    <3>1. i \in Instance /\ ins[i] \in Row
      BY <2>11, ExistsRow DEF TypeOK, Refs, Exists, FailDispatch
    <3> QED
      BY <2>11, <1>0, <1>1, <3>1 DEF TypeOK, FailDispatch, Goto, Row, IsTerminal, IsActive, Waiting
  <2>12. CASE ReleaseTask(i)
    BY <2>12, <1>0, <1>1 DEF TypeOK, ReleaseTask, Goto, AfterRelease, ReleaseByInstance, IsActive,
       Waiting
  <2>13. CASE RetryTask(i)
    <3>1. i \in Instance /\ ins[i] \in Row
      BY <2>13, ExistsRow DEF TypeOK, Refs, Exists, RetryTask
    <3> QED
      BY <2>13, <1>0, <1>1, <3>1 DEF TypeOK, RetryTask, Goto, WithRetry, Row, IsTerminal, IsActive,
         Waiting
  <2>14. CASE RequeueAfterNoWorker(i)
    BY <2>14, <1>0, <1>1 DEF TypeOK, RequeueAfterNoWorker, Goto, IsActive
  <2> QED BY <1>3, <2>1, <2>2, <2>3, <2>4, <2>5, <2>6, <2>7, <2>8, <2>9, <2>10, <2>11, <2>12,
     <2>13, <2>14 DEF Dispatch
<1>4. ASSUME NEW i \in Instance, Handle(i)  PROVE q \in held'
  <2>1. ASSUME NEW w \in Worker, NEW s \in Reports, Report(i, w, s)  PROVE q \in held'
    <3>1. i \in Instance /\ ins[i] \in Row
      BY <2>1, ExistsRow DEF TypeOK, Refs, Exists, Report
    <3> QED
      BY <2>1, <1>0, <1>1, <3>1 DEF TypeOK, Report, Written, Row, IsTerminal, IsActive, Waiting
  <2>2. ASSUME NEW s \in StopStatuses, Stop(i, s)  PROVE q \in held'
    <3>1. i \in Instance /\ ins[i] \in Row /\ ins' = [ins EXCEPT ![i].status = s]
      BY <2>2, ExistsRow DEF Stop
    <3>2. \A x \in Instance : ins'[x].status = IF x = i THEN s ELSE ins[x].status
      BY <3>1, WriteStatus
    <3>3. q # i
      BY <2>2, <3>2, SchedulerAssumption DEF IsTerminal, Terminal, SchedulerAssumption
    <3> QED
      BY <2>2, <1>0, <1>1, <3>2, <3>3 DEF Stop, IsActive
  <2>3. CASE ReleaseInFlight(i)
    BY <2>3, <1>0, <1>1 DEF TypeOK, ReleaseInFlight, ReleaseByInstance, IsActive
  <2>4. CASE Retry(i)
    <3>1. i \in Instance /\ ins[i] \in Row
      BY <2>4, ExistsRow DEF TypeOK, Refs, Exists, Retryable, Retry
    <3> QED
      BY <2>4, <1>0, <1>1, <3>1 DEF TypeOK, Retry, Spend, Row, IsTerminal, IsActive, Waiting
  <2>5. CASE LowerInflight(i)
    BY <2>5, <1>0, <1>1 DEF LowerInflight, IsActive
  <2> QED BY <1>4, <2>1, <2>2, <2>3, <2>4, <2>5 DEF Handle
<1>5. CASE Reaper
  <2>1. ASSUME NEW S \in SUBSET {k \in Instance : Exists(k)}, ReapScan(S)  PROVE q \in held'
    BY <2>1, <1>0, <1>1 DEF TypeOK, ReapScan, Seen, IsActive
  <2>2. ASSUME NEW r \in reap.todo, ReapJudge(r)  PROVE q \in held'
    <3>1. PICK i \in Instance : i = r.ins /\ ins[i] \in Row
      BY <2>2, ExistsRow DEF TypeOK, Refs, ReapJudge, Scanned
    <3>2. CASE UNCHANGED ins
      BY <2>2, <1>0, <1>1, <3>2 DEF ReapJudge, IsActive
    <3>3. ASSUME NEW v \in StallVerdicts(r), v # "none", ins' = [ins EXCEPT ![i].status = v]
          PROVE  q \in held'
      <4>1. v \in {"failed", "timeout"}
        BY <3>3 DEF StallVerdicts
      <4>2. \A x \in Instance : ins'[x].status = IF x = i THEN v ELSE ins[x].status
        BY <3>1, <3>3 DEF TypeOK, Row
      <4>3. q # i
        BY <4>1, <4>2 DEF IsTerminal, Terminal
      <4> QED
        BY <2>2, <1>0, <1>1, <4>2, <4>3 DEF ReapJudge, IsActive
    <3> QED BY <2>2, <3>1, <3>2, <3>3 DEF ReapJudge
  <2>3. CASE ReapRelease
    BY <2>3, <1>0, <1>1 DEF TypeOK, ReapRelease, ReleaseByInstance, IsActive
  <2>4. CASE ReapRetry
    <3>1. reap.ins \in Instance /\ ins[reap.ins] \in Row
      BY <2>4, ExistsRow DEF TypeOK, Refs, Exists, ReapRetry
    <3> QED
      BY <2>4, <1>0, <1>1, <3>1 DEF TypeOK, ReapRetry, WithRetry, Row, IsTerminal, IsActive, Waiting
  <2> QED BY <1>5, <2>1, <2>2, <2>3, <2>4, ScanSets DEF Reaper, ReapScanActive, ReapScanUnbound
<1>6. CASE RetryPump
  <2>1. CASE PumpScan
    BY <2>1, <1>0, <1>1 DEF TypeOK, PumpScan, IsActive
  <2>2. ASSUME NEW i \in pump.todo, ClearNextRetryTime(i)  PROVE q \in held'
    <3>1. i \in Instance /\ ins[i] \in Row
      BY <2>2, ExistsRow DEF TypeOK, Refs, Exists, ClearNextRetryTime
    <3> QED
      BY <2>2, <1>0, <1>1, <3>1 DEF TypeOK, ClearNextRetryTime, Row, IsTerminal, IsActive, Waiting
  <2>3. CASE ExistsRetryChild
    BY <2>3, <1>0, <1>1 DEF TypeOK, ExistsRetryChild, IsActive
  <2>4. CASE PumpAcquire
    BY <2>4, <1>0, <1>1 DEF TypeOK, PumpAcquire, IsActive
  <2>5. CASE PumpDefer
    <3>1. pump.ins \in Instance /\ ins[pump.ins] \in Row
      BY <2>5, ExistsRow DEF TypeOK, Refs, Exists, PumpDefer
    <3> QED
      BY <2>5, <1>0, <1>1, <3>1 DEF TypeOK, PumpDefer, Row, IsTerminal, IsActive, Waiting
  <2>6. ASSUME NEW k \in Instance, PumpCreate(k)  PROVE q \in held'
    <3>1. ~Exists(k) /\ ins' = [ins EXCEPT ![k] = NewRow(ins[pump.ins].job, "retry", RootOf(pump.ins),
                                                     ins[pump.ins].idx + 1)]
      BY <2>6, PumpRow
    <3>2. /\ \A x \in Instance \ {k} : ins'[x] = ins[x]
          /\ ins'[k].status = "queued"
      BY <3>1 DEF NewRow, TypeOK
    <3> QED
      BY <2>6, <1>0, <1>1, <3>1, <3>2 DEF PumpCreate, Goto, IsActive, Active, TypeOK
  <2>7. CASE PumpCreateFails
    BY <2>7, <1>0, <1>1 DEF TypeOK, PumpCreateFails, IsActive
  <2> QED BY <1>6, <2>1, <2>2, <2>3, <2>4, <2>5, <2>6, <2>7 DEF RetryPump
<1>7. CASE Registry
  <2>1. ASSUME NEW w \in Worker, Heartbeat(w)  PROVE q \in held'
    BY <2>1, <1>0, <1>1 DEF TypeOK, Heartbeat, IsActive
  <2>2. ASSUME NEW w \in Worker, HeartbeatExpires(w)  PROVE q \in held'
    BY <2>2, <1>0, <1>1 DEF TypeOK, HeartbeatExpires, Spend, IsActive
  <2>3. CASE Sweep
    BY <2>3, <1>0, <1>1 DEF TypeOK, Sweep, IsActive
  <2>4. CASE WarmupEnds
    BY <2>4, <1>0, <1>1 DEF TypeOK, WarmupEnds, IsActive
  <2> QED BY <1>7, <2>1, <2>2, <2>3, <2>4 DEF Registry
<1>8. CASE Recovery
  <2>1. ASSUME NEW i \in Instance, RecoverStaleActive(i)  PROVE q \in held'
    BY <2>1, <1>0 DEF RecoverStaleActive
  <2>2. CASE RecoverRetry
    BY <2>2, <1>0 DEF RecoverRetry
  <2>3. CASE RecoverQueued
    BY <2>3, <1>0 DEF RecoverQueued
  <2> QED BY <1>8, <2>1, <2>2, <2>3 DEF Recovery
<1>9. CASE Crash
  BY <1>9 DEF Crash, Spend, TypeOK
<1>10. CASE UNCHANGED vars
  BY <1>10, <1>0, <1>1 DEF vars, IsActive
<1> QED BY <1>2, <1>3, <1>4, <1>5, <1>6, <1>7, <1>8, <1>9, <1>10 DEF Next

\* One statement of the database writes the status of one row.
OneStatus ==
  \A p, q \in Instance :
    ins'[p].status # ins[p].status /\ ins'[q].status # ins[q].status => p = q

LEMMA NextStatusOne ==
  ASSUME TypeOK, Refs, [Next]_vars
  PROVE  OneStatus
<1>1. ASSUME NEW j \in Job, Trigger(j)  PROVE OneStatus
  <2>1. CASE AutoAcquire(j)
    BY <2>1 DEF OneStatus, TypeOK, AutoAcquire
  <2>2. CASE AutoAbandon(j)
    BY <2>2 DEF OneStatus, TypeOK, AutoAbandon
  <2>3. ASSUME NEW i \in Instance, AutoCreate(j, i)  PROVE OneStatus
    BY <2>3 DEF OneStatus, TypeOK, AutoCreate
  <2>4. ASSUME NEW i \in Instance, SubmitManual(j, i)  PROVE OneStatus
    BY <2>4 DEF OneStatus, TypeOK, SubmitManual
  <2> QED BY <1>1, <2>1, <2>2, <2>3, <2>4 DEF Trigger
<1>2. ASSUME NEW i \in Instance, Dispatch(i)  PROVE OneStatus
  <2>1. CASE PushPending(i)
    BY <2>1 DEF OneStatus, TypeOK, PushPending
  <2>2. CASE PopPending(i)
    BY <2>2 DEF OneStatus, TypeOK, PopPending
  <2>3. CASE DropPending(i)
    BY <2>3 DEF OneStatus, TypeOK, DropPending
  <2>4. CASE CheckPending(i)
    BY <2>4 DEF OneStatus, TypeOK, CheckPending
  <2>5. CASE Bind(i)
    BY <2>5 DEF OneStatus, TypeOK, Bind
  <2>6. CASE PickWorker(i)
    BY <2>6 DEF OneStatus, TypeOK, PickWorker
  <2>7. CASE HasOnlineWorker(i)
    BY <2>7 DEF OneStatus, TypeOK, HasOnlineWorker
  <2>8. CASE MarkDispatched(i)
    BY <2>8 DEF OneStatus, TypeOK, MarkDispatched
  <2>9. CASE Send(i)
    BY <2>9 DEF OneStatus, TypeOK, Send
  <2>10. CASE Sent(i)
    BY <2>10 DEF OneStatus, TypeOK, Sent
  <2>11. CASE FailDispatch(i)
    BY <2>11 DEF OneStatus, TypeOK, FailDispatch
  <2>12. CASE ReleaseTask(i)
    BY <2>12 DEF OneStatus, TypeOK, ReleaseTask
  <2>13. CASE RetryTask(i)
    BY <2>13 DEF OneStatus, TypeOK, RetryTask
  <2>14. CASE RequeueAfterNoWorker(i)
    BY <2>14 DEF OneStatus, TypeOK, RequeueAfterNoWorker
  <2> QED BY <1>2, <2>1, <2>2, <2>3, <2>4, <2>5, <2>6, <2>7, <2>8, <2>9, <2>10, <2>11, <2>12,
     <2>13, <2>14 DEF Dispatch
<1>3. ASSUME NEW i \in Instance, Handle(i)  PROVE OneStatus
  <2>1. ASSUME NEW w \in Worker, NEW s \in Reports, Report(i, w, s)  PROVE OneStatus
    BY <2>1 DEF OneStatus, TypeOK, Report
  <2>2. ASSUME NEW s \in StopStatuses, Stop(i, s)  PROVE OneStatus
    BY <2>2 DEF OneStatus, TypeOK, Stop
  <2>3. CASE ReleaseInFlight(i)
    BY <2>3 DEF OneStatus, TypeOK, ReleaseInFlight
  <2>4. CASE Retry(i)
    BY <2>4 DEF OneStatus, TypeOK, Retry
  <2>5. CASE LowerInflight(i)
    BY <2>5 DEF OneStatus, LowerInflight
  <2> QED BY <1>3, <2>1, <2>2, <2>3, <2>4, <2>5 DEF Handle
<1>4. CASE Reaper
  <2>1. ASSUME NEW S \in SUBSET {k \in Instance : Exists(k)}, ReapScan(S)  PROVE OneStatus
    BY <2>1 DEF OneStatus, TypeOK, ReapScan
  <2>2. ASSUME NEW r \in reap.todo, ReapJudge(r)  PROVE OneStatus
    BY <2>2 DEF OneStatus, TypeOK, ReapJudge
  <2>3. CASE ReapRelease
    BY <2>3 DEF OneStatus, TypeOK, ReapRelease
  <2>4. CASE ReapRetry
    BY <2>4 DEF OneStatus, TypeOK, ReapRetry
  <2> QED BY <1>4, <2>1, <2>2, <2>3, <2>4, ScanSets DEF Reaper, ReapScanActive, ReapScanUnbound
<1>5. CASE RetryPump
  <2>1. CASE PumpScan
    BY <2>1 DEF OneStatus, TypeOK, PumpScan
  <2>2. ASSUME NEW i \in pump.todo, ClearNextRetryTime(i)  PROVE OneStatus
    BY <2>2 DEF OneStatus, TypeOK, ClearNextRetryTime
  <2>3. CASE ExistsRetryChild
    BY <2>3 DEF OneStatus, TypeOK, ExistsRetryChild
  <2>4. CASE PumpAcquire
    BY <2>4 DEF OneStatus, TypeOK, PumpAcquire
  <2>5. CASE PumpDefer
    BY <2>5 DEF OneStatus, TypeOK, PumpDefer
  <2>6. ASSUME NEW k \in Instance, PumpCreate(k)  PROVE OneStatus
    BY <2>6 DEF OneStatus, TypeOK, PumpCreate
  <2>7. CASE PumpCreateFails
    BY <2>7 DEF OneStatus, TypeOK, PumpCreateFails
  <2> QED BY <1>5, <2>1, <2>2, <2>3, <2>4, <2>5, <2>6, <2>7 DEF RetryPump
<1>6. CASE Registry
  <2>1. ASSUME NEW w \in Worker, Heartbeat(w)  PROVE OneStatus
    BY <2>1 DEF OneStatus, TypeOK, Heartbeat
  <2>2. ASSUME NEW w \in Worker, HeartbeatExpires(w)  PROVE OneStatus
    BY <2>2 DEF OneStatus, TypeOK, HeartbeatExpires
  <2>3. CASE Sweep
    BY <2>3 DEF OneStatus, TypeOK, Sweep
  <2>4. CASE WarmupEnds
    BY <2>4 DEF OneStatus, TypeOK, WarmupEnds
  <2> QED BY <1>6, <2>1, <2>2, <2>3, <2>4 DEF Registry
<1>7. CASE Recovery
  <2>1. ASSUME NEW i \in Instance, RecoverStaleActive(i)  PROVE OneStatus
    BY <2>1 DEF OneStatus, TypeOK, RecoverStaleActive
  <2>2. CASE RecoverRetry
    BY <2>2 DEF OneStatus, TypeOK, RecoverRetry
  <2>3. CASE RecoverQueued
    BY <2>3 DEF OneStatus, TypeOK, RecoverQueued
  <2> QED BY <1>7, <2>1, <2>2, <2>3 DEF Recovery
<1>8. CASE Crash
  BY <1>8 DEF Crash, OneStatus
<1>9. CASE UNCHANGED vars
  BY <1>9 DEF vars, OneStatus
<1> QED BY <1>1, <1>2, <1>3, <1>4, <1>5, <1>6, <1>7, <1>8, <1>9 DEF Next
-----------------------------------------------------------------------------
(* The limit of a job. *)

LEMMA LiveInvariant == Spec => []LiveHeld
<1>1. Init => LiveHeld
  BY DEF Init, LiveHeld, IsActive, Active, Absent
<1>2. HeldInv /\ Course /\ LiveHeld /\ [Next]_vars => LiveHeld'
  BY NextLive DEF HeldInv
<1> QED BY <1>1, <1>2, HeldInvariant, CourseInvariant, PTL DEF Spec

\* What the database shows of a job keeps its limit, because the rows it shows with a
\* worker are among the holders of the job's slots.
LEMMA LimitKept ==
  ASSUME TypeOK, SlotAccounting, LiveHeld, MaxCrashes = 0, ~DbFaults
  PROVE  InFlightBound
<1> SUFFICES ASSUME NEW j \in Job PROVE Cardinality(InFlight(j)) <= SlotCap(j)
  BY DEF InFlightBound
<1>1. InFlight(j) \in SUBSET SlotUsers(j)
  BY DEF InFlight, SlotUsers, LiveHeld, IsActive, IsTerminal, Active, Terminal
<1>2. IsFiniteSet(SlotUsers(j)) /\ Cardinality(SlotUsers(j)) \in Nat
  BY UsersFinite
<1>3. Cardinality(InFlight(j)) <= Cardinality(SlotUsers(j)) /\ Cardinality(InFlight(j)) \in Nat
  BY <1>1, <1>2, FS_Subset, FS_CardinalityType
<1>4. Claims(j) \in Nat
  BY DEF Claims
<1>5. slots[j] = Cardinality(SlotUsers(j)) + Claims(j) /\ slots[j] <= SlotCap(j) /\ SlotCap(j) \in Nat
  BY CapPositive DEF SlotAccounting
<1> QED BY <1>2, <1>3, <1>4, <1>5

\* At most MaxConcurrency runs of a job are with workers.  A crash resets the slots while
\* the rows stay with their workers, and a failed Get drops a queue item, so neither is
\* covered.
THEOREM WithinLimit ==
  ASSUME MaxCrashes = 0, ~DbFaults
  PROVE  Spec => []InFlightBound
<1>1. HeldInv /\ SlotAccounting /\ LiveHeld => InFlightBound
  BY LimitKept DEF HeldInv
<1> QED BY <1>1, HeldInvariant, SlotsExact, LiveInvariant, PTL
-----------------------------------------------------------------------------
(* The refinement of RunLifecycle. *)

\* RunLifecycle takes Cardinality from its own instance of FiniteSets.
LEMMA SameCardinality == \A S : Abstract!Cardinality(S) = Cardinality(S)
BY DEF Abstract!Cardinality, Cardinality

\* What a row's status says of its run.
LEMMA Life ==
  ASSUME NEW i \in Instance
  PROVE  /\ LifeOf(i) = "absent" <=> ~Exists(i)
         /\ LifeOf(i) = "ended" <=> IsTerminal(i)
         /\ LifeOf(i) = "running" <=> IsActive(i)
         /\ LifeOf(i) \in {"absent", "ended", "running", "waiting"}
BY DEF LifeOf, Exists, IsTerminal, IsActive, Terminal, Active

\* A chain has at most as many rows as its last row's number plus one.
LEMMA ChainSize ==
  ASSUME TypeOK, Roots, Dense, Once, NEW p \in Instance, Exists(p), RetryChildren(p) = {}
  PROVE  Cardinality(Chain(p)) <= ins[p].idx + 1
<1> DEFINE n == ins[p].idx
           f == [k \in Chain(p) |-> ins[k].idx]
<1>1. n \in Nat
  BY RootIn
<1>2. ASSUME NEW k \in Chain(p)  PROVE ins[k].idx \in 0 .. n
  <2>1. k \in Instance /\ Exists(k) /\ RootOf(k) = RootOf(p)
    BY DEF Chain
  <2>2. ins[k].idx \in Nat
    BY <2>1, RootIn
  <2>3. ~(n < ins[k].idx)
    BY <2>1, HasChild
  <2> QED BY <1>1, <2>2, <2>3
<1>3. f \in [Chain(p) -> 0 .. n]
  BY <1>2
<1>4. ASSUME NEW a \in Chain(p), NEW b \in Chain(p), f[a] = f[b]  PROVE a = b
  <2>1. b \in Chain(a) /\ Exists(a) /\ a \in Instance
    BY DEF Chain
  <2> QED BY <1>4, <2>1 DEF Once
<1>5. f \in Injection(Chain(p), 0 .. n)
  <2> HIDE DEF f, n
  <2> QED BY <1>3, <1>4 DEF Injection, IsInjective
<1>6. IsFiniteSet(0 .. n) /\ Cardinality(0 .. n) = n + 1
  <2> HIDE DEF n
  <2> QED BY <1>1, FS_Interval
<1> HIDE DEF f
<1> QED BY <1>5, <1>6, FS_Injection

\* A new row that is the first of its chain is a trigger of the abstract specification.
LEMMA MapTrigger ==
  ASSUME TypeOK, NEW k \in Instance, ~Exists(k), NEW j \in Job, NEW t \in TriggerType,
         ins' = [ins EXCEPT ![k] = NewRow(j, t, None, 0)]
  PROVE  Abstract!Next
<1>1. /\ Exists(k)' /\ ins'[k].job = j /\ ins'[k].status = "queued" /\ RootOf(k)' = k
      /\ \A q \in Instance \ {k} : ins'[q] = ins[q] /\ Exists(q)' = Exists(q) /\ RootOf(q)' = RootOf(q)
  BY AddRow
<1>2. LifeOf(k) = "absent" /\ LifeOf(k)' = "waiting"
  BY <1>1 DEF LifeOf, Exists, IsTerminal, IsActive, Terminal, Active
<1>3. \A q \in Instance \ {k} : LifeOf(q)' = LifeOf(q)
  BY <1>1 DEF LifeOf, Exists, IsTerminal, IsActive
<1>4. [i \in Instance |-> LifeOf(i)]' = [[i \in Instance |-> LifeOf(i)] EXCEPT ![k] = "waiting"]
  BY <1>2, <1>3
<1>5. [i \in Instance |-> ins[i].job]' = [[i \in Instance |-> ins[i].job] EXCEPT ![k] = j]
  <2>1. \A q \in Instance \ {k} : ins'[q].job = ins[q].job
    BY <1>1
  <2> QED BY <1>1, <2>1
<1>6. [i \in Instance |-> IF Exists(i) THEN RootOf(i) ELSE None]'
        = [[i \in Instance |-> IF Exists(i) THEN RootOf(i) ELSE None] EXCEPT ![k] = k]
  BY <1>1
<1>7. Abstract!Trigger(k, j)
  BY <1>2, <1>4, <1>5, <1>6 DEF Abstract!Trigger, Abstract!Create
<1> QED BY <1>7 DEF Abstract!Next

\* A row the pump makes is a retry: every run of its chain has ended, and the chain's
\* budget is not used up.
LEMMA MapRetry ==
  ASSUME TypeOK, Refs, Shape, Single, Ended, ~DbFaults, NEW k \in Instance, PumpCreate(k)
  PROVE  Abstract!Next
<1> DEFINE p == pump.ins
           c == RootOf(p)
           j == ins[p].job
           n == ins[p].idx + 1
<1>n. None \notin Instance
  BY SchedulerAssumption DEF SchedulerAssumption
<1>1. /\ p \in Instance /\ Exists(p) /\ ~Exists(k) /\ c \in Instance /\ n \in Nat
      /\ j \in Job /\ RetryChildren(p) = {} /\ IsTerminal(p) /\ ins[p].idx \in Nat
      /\ ins' = [ins EXCEPT ![k] = NewRow(j, "retry", c, n)]
      /\ n <= RetryCount[j]
  <2>1. /\ pump.ins \in Instance /\ Exists(pump.ins) /\ pump.pc = "create" /\ ~Exists(k)
        /\ RootOf(pump.ins) \in Instance /\ ins[pump.ins].idx + 1 \in Nat
        /\ ins[pump.ins].job \in Job
        /\ ins' = [ins EXCEPT ![k] = NewRow(ins[pump.ins].job, "retry", RootOf(pump.ins),
                                            ins[pump.ins].idx + 1)]
    BY PumpRow
  <2>2. RetryChildren(pump.ins) = {} /\ IsTerminal(pump.ins)
    BY <2>1 DEF Single, NoChildYet, Ended
  <2>3. ins[pump.ins].idx \in Nat /\ ins[pump.ins].idx < RetryCount[ins[pump.ins].job]
        /\ RetryCount[ins[pump.ins].job] \in Int
    BY <2>1, RootIn, SchedulerAssumption DEF Shape, PumpBudget, SchedulerAssumption
  <2> QED BY <2>1, <2>2, <2>3
<1>2. Roots /\ Dense /\ Once /\ Parent
  BY DEF Shape, Single
<1>3. Cardinality(Chain(p)) <= n
  BY <1>1, <1>2, ChainSize
<1>4. \A m \in Chain(p) : IsTerminal(m)
  <2> SUFFICES ASSUME NEW m \in Chain(p) PROVE IsTerminal(m)
    OBVIOUS
  <2>1. m \in Instance /\ Exists(m) /\ RootOf(m) = RootOf(p)
    BY DEF Chain
  <2>2. ins[m].idx \in Nat /\ ins[p].idx \in Nat
    BY <1>1, <2>1, RootIn
  <2>3. ~(ins[p].idx < ins[m].idx)
    BY <1>1, <1>2, <2>1, HasChild
  <2>4. CASE ins[m].idx = ins[p].idx
    BY <1>1, <1>2, <2>4 DEF Once
  <2>5. CASE ins[m].idx < ins[p].idx
    BY <1>1, <1>2, <2>1, <2>5, HasChild DEF Parent
  <2> QED BY <2>2, <2>3, <2>4, <2>5
<1>5. ins[c].job = j
  BY <1>1, <1>2 DEF Roots, RootOf
<1>6. p \in Chain(p) /\ \A m \in Instance : m \in Chain(p) <=> (Exists(m) /\ RootOf(m) = c)
  BY <1>1 DEF Chain
<1> HIDE DEF p, c, j, n
<1>7. /\ Exists(k)' /\ ins'[k].job = j /\ ins'[k].status = "queued" /\ RootOf(k)' = c
      /\ \A q \in Instance \ {k} : ins'[q] = ins[q] /\ Exists(q)' = Exists(q) /\ RootOf(q)' = RootOf(q)
  BY <1>n, <1>1 DEF NewRow, TypeOK, Exists, RootOf
<1>8. LifeOf(k) = "absent" /\ LifeOf(k)' = "waiting"
  BY <1>1, <1>7 DEF LifeOf, Exists, IsTerminal, IsActive, Terminal, Active
<1>9. \A q \in Instance \ {k} : LifeOf(q)' = LifeOf(q)
  BY <1>7 DEF LifeOf, Exists, IsTerminal, IsActive
<1>10. [i \in Instance |-> LifeOf(i)]' = [[i \in Instance |-> LifeOf(i)] EXCEPT ![k] = "waiting"]
  BY <1>8, <1>9
<1>11. [i \in Instance |-> ins[i].job]' = [[i \in Instance |-> ins[i].job] EXCEPT ![k] = j]
  <2>1. \A q \in Instance \ {k} : ins'[q].job = ins[q].job
    BY <1>7
  <2> QED BY <1>7, <2>1
<1>12. [i \in Instance |-> IF Exists(i) THEN RootOf(i) ELSE None]'
         = [[i \in Instance |-> IF Exists(i) THEN RootOf(i) ELSE None] EXCEPT ![k] = c]
  BY <1>7
<1>13. Abstract!Members(c) = Chain(p)
  <2>1. Chain(p) \subseteq Instance
    BY DEF Chain
  <2> QED BY <1>n, <1>1, <1>6, <2>1 DEF Abstract!Members
<1>14. \A m \in Chain(p) : [i \in Instance |-> LifeOf(i)][m] = "ended"
  <2>1. Chain(p) \subseteq Instance
    BY DEF Chain
  <2> QED BY <1>4, <2>1, Life
<1>15. [i \in Instance |-> ins[i].job][c] = j
  BY <1>1, <1>5
<1>16. Abstract!Create(k, [i \in Instance |-> ins[i].job][c], c)
  BY <1>8, <1>10, <1>11, <1>12, <1>15 DEF Abstract!Create
<1>17. Abstract!Cardinality(Abstract!Members(c)) <= RetryCount[[i \in Instance |-> ins[i].job][c]]
  <2>1. Cardinality(Chain(p)) \in Nat
    <3>1. Chain(p) \in SUBSET Instance
      BY DEF Chain
    <3> QED BY <3>1, SchedulerAssumption, FS_Subset, FS_CardinalityType DEF SchedulerAssumption
  <2>2. /\ Abstract!Cardinality(Abstract!Members(c)) = Cardinality(Chain(p))
        /\ Cardinality(Chain(p)) <= RetryCount[j]
    <3>1. RetryCount[j] \in Int
      BY <1>1, SchedulerAssumption DEF SchedulerAssumption
    <3> QED BY <1>1, <1>3, <1>13, <2>1, <3>1, SameCardinality
  <2> QED BY <1>1, <1>3, <1>13, <1>15, <2>2
<1>18. Abstract!Retry(k, c)
  BY <1>6, <1>13, <1>14, <1>15, <1>16, <1>17 DEF Abstract!Retry
<1> QED BY <1>1, <1>18 DEF Abstract!Next

\* A step that makes no row writes at most one status: the run starts, is handed back,
\* ends or stays.
LEMMA MapStatus ==
  ASSUME TypeOK, TypeOK', RowsKept, NoNewRow, OneStatus, StatusKept,
         InFlightBound, InFlightBound'
  PROVE  Abstract!Next \/ UNCHANGED Abstract!vars
<1>1. \A k \in Instance :
        Exists(k)' = Exists(k) /\ ins'[k].job = ins[k].job /\ RootOf(k)' = RootOf(k)
  BY SameShape
<1>2. /\ [i \in Instance |-> ins[i].job]' = [i \in Instance |-> ins[i].job]
      /\ [i \in Instance |-> IF Exists(i) THEN RootOf(i) ELSE None]'
           = [i \in Instance |-> IF Exists(i) THEN RootOf(i) ELSE None]
  BY <1>1
<1>t. \A i \in Instance : IsTerminal(i) => IsTerminal(i)'
  BY SchedulerAssumption DEF StatusKept, IsTerminal, Terminal, SchedulerAssumption
<1>3. \A i \in Instance : ins'[i].status = ins[i].status => LifeOf(i)' = LifeOf(i)
  BY DEF LifeOf, Exists, IsTerminal, IsActive
<1>4. CASE \A i \in Instance : LifeOf(i)' = LifeOf(i)
  BY <1>2, <1>4 DEF Abstract!vars
<1>5. ASSUME NEW r \in Instance, LifeOf(r)' # LifeOf(r)
      PROVE  Abstract!Next
  <2>1. \A q \in Instance \ {r} : ins'[q].status = ins[q].status /\ LifeOf(q)' = LifeOf(q)
    BY <1>3, <1>5 DEF OneStatus
  <2>2. \A s : LifeOf(r)' = s =>
          [i \in Instance |-> LifeOf(i)]' = [[i \in Instance |-> LifeOf(i)] EXCEPT ![r] = s]
    BY <2>1
  <2>3. /\ LifeOf(r) \in {"waiting", "running"}
        /\ LifeOf(r)' \in {"waiting", "running", "ended"}
    <3>1. /\ LifeOf(r) = "absent" <=> ~Exists(r)
          /\ LifeOf(r) = "ended" <=> IsTerminal(r)
          /\ LifeOf(r) \in {"absent", "ended", "running", "waiting"}
      BY Life
    <3>2. /\ (LifeOf(r) = "absent")' <=> ~Exists(r)'
          /\ (LifeOf(r) = "ended")' <=> IsTerminal(r)'
          /\ LifeOf(r)' \in {"absent", "ended", "running", "waiting"}
      BY DEF LifeOf, Exists, IsTerminal, IsActive, Terminal, Active
    <3> QED BY <1>1, <1>t, <1>5, <3>1, <3>2
  <2>4. CASE LifeOf(r)' = "ended"
    <3>1. Abstract!End(r)
      BY <1>2, <2>2, <2>3, <2>4 DEF Abstract!End
    <3> QED BY <3>1 DEF Abstract!Next
  <2>5. CASE LifeOf(r) = "running" /\ LifeOf(r)' = "waiting"
    <3>1. Abstract!HandBack(r)
      BY <1>2, <2>2, <2>5 DEF Abstract!HandBack
    <3> QED BY <3>1 DEF Abstract!Next
  <2>6. CASE LifeOf(r) = "waiting" /\ LifeOf(r)' = "running"
    <3>0. PICK j : j = ins[r].job
      OBVIOUS
    <3>1. Exists(r) /\ ~IsActive(r) /\ IsActive(r)'
      BY <2>6, Life DEF LifeOf, Exists, IsTerminal, IsActive, Terminal, Active
    <3>2. j \in Job /\ SlotCap(j) \in Nat
      BY <3>0, <3>1, RootIn, CapPositive
    <3>3. InFlight(j)' = InFlight(j) \cup {r} /\ r \notin InFlight(j)
      BY <1>1, <2>1, <3>0, <3>1 DEF InFlight, IsActive
    <3>4. IsFiniteSet(InFlight(j)) /\ Cardinality(InFlight(j)) \in Nat
      <4>1. InFlight(j) \in SUBSET Instance
        BY DEF InFlight
      <4> QED BY <4>1, SchedulerAssumption, FS_Subset, FS_CardinalityType DEF SchedulerAssumption
    <3>5. Cardinality(InFlight(j)') = Cardinality(InFlight(j)) + 1
      BY <3>3, <3>4, FS_AddElement
    <3>6. Cardinality(InFlight(j)') <= SlotCap(j)
      <4>1. \A q \in Job : Cardinality(InFlight(q)') <= SlotCap(q)
        BY DEF InFlightBound, SlotCap
      <4> QED BY <3>2, <4>1
    <3>7. Abstract!Running(j) = InFlight(j)
      <4>1. \A q \in Instance : LifeOf(q) = "running" <=> IsActive(q)
        BY Life
      <4> QED BY <4>1 DEF Abstract!Running, InFlight
    <3>8. Cardinality(InFlight(j)) < SlotCap(j)
      BY <3>2, <3>4, <3>5, <3>6
    <3>9. [i \in Instance |-> ins[i].job][r] = j /\ [q \in Job |-> SlotCap(q)][j] = SlotCap(j)
      BY <3>0, <3>2
    <3>10. Abstract!Cardinality(Abstract!Running([i \in Instance |-> ins[i].job][r]))
             < [q \in Job |-> SlotCap(q)][[i \in Instance |-> ins[i].job][r]]
      BY <3>7, <3>8, <3>9, SameCardinality DEF Abstract!Running
    <3>11. Abstract!Start(r)
      BY <1>2, <2>2, <2>6, <3>10 DEF Abstract!Start
    <3> QED BY <3>11 DEF Abstract!Next
  <2> QED BY <1>5, <2>3, <2>4, <2>5, <2>6
<1> QED BY <1>4, <1>5

LEMMA MapInit == Init => Abstract!Init
<1> SUFFICES ASSUME Init PROVE Abstract!Init
  OBVIOUS
<1>1. \A i \in Instance : ins[i] = Absent
  BY DEF Init
<1>2. \A i \in Instance : ~Exists(i) /\ LifeOf(i) = "absent" /\ ins[i].job = None
  <2>1. \A i \in Instance : ins[i].status = "absent" /\ ins[i].job = None
    BY <1>1 DEF Absent
  <2> QED BY <2>1 DEF LifeOf, Exists, IsTerminal, IsActive, Terminal, Active
<1> QED BY <1>2 DEF Abstract!Init

\* Every behaviour of the dispatch core shows in the database a behaviour of RunLifecycle:
\* a row starts only within its job's limit, ends once, and is retried by one new row at a
\* time, when its whole chain has ended and while the budget lasts.
THEOREM RunLifecycleImplemented ==
  ASSUME MaxCrashes = 0, ~DbFaults
  PROVE  Spec => ImplementsRunLifecycle
<1> DEFINE I == ChainInv /\ InFlightBound
<1>1. I /\ I' /\ [Next]_vars => [Abstract!Next]_(Abstract!vars)
  <2> SUFFICES ASSUME ChainInv, ChainInv', InFlightBound, InFlightBound', [Next]_vars
               PROVE  Abstract!Next \/ UNCHANGED Abstract!vars
    OBVIOUS
  <2>1. /\ TypeOK /\ TypeOK' /\ Refs /\ RowsKept /\ Shape /\ Single /\ Ended /\ StatusKept
        /\ OneStatus
    BY NextType, NextStatus, NextStatusOne DEF ChainInv, HeldInv, Course
  <2>2. CASE NoNewRow
    BY <2>1, <2>2, MapStatus
  <2>3. CASE NewRoot
    BY <2>1, <2>3, MapTrigger DEF NewRoot
  <2>4. ASSUME NEW k \in Instance, PumpCreate(k)  PROVE Abstract!Next
    BY <2>1, <2>4, MapRetry
  <2> QED BY <2>1, <2>2, <2>3, <2>4, NextRows
<1>2. Spec => []I
  BY ChainInvariant, WithinLimit, PTL
<1> QED BY <1>1, <1>2, MapInit, PTL DEF Spec, ImplementsRunLifecycle, Abstract!Spec
=============================================================================
