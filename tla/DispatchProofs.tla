---------------------------- MODULE DispatchProofs ----------------------------
(***************************************************************************)
(* What happens to a row of Scheduler on its way: its final status stays,  *)
(* it is sent once, it is never left queued without a carrier, and the     *)
(* registry's in-flight counts match the rows that were sent.              *)
(***************************************************************************)
EXTENDS SlotProofs

USE DEF dbVars, taskVars, slotVars, loopVars, regVars, envVars
-----------------------------------------------------------------------------
(* Final statuses. *)

\* No write but Stop and Cancel touches the status of a finished row.
StatusKept ==
  \A i \in Instance : IsTerminal(i) => ins'[i].status \in {ins[i].status} \cup StopStatuses

LEMMA NextStatus ==
  ASSUME TypeOK, Refs, [Next]_vars
  PROVE  StatusKept
<1>1. ASSUME NEW j \in Job, Trigger(j)  PROVE StatusKept
  <2>1. CASE AutoAcquire(j)
    BY <2>1 DEF StatusKept, IsTerminal, Exists, TypeOK, AutoAcquire, TryAcquire
  <2>2. CASE AutoAbandon(j)
    BY <2>2 DEF StatusKept, IsTerminal, Exists, TypeOK, AutoAbandon, ReleaseByJob
  <2>3. ASSUME NEW i \in Instance, AutoCreate(j, i)  PROVE StatusKept
    BY <2>3 DEF StatusKept, IsTerminal, Exists, TypeOK, AutoCreate, Goto, NewRow, IsNextId, Terminal
  <2>4. ASSUME NEW i \in Instance, SubmitManual(j, i)  PROVE StatusKept
    BY <2>4 DEF StatusKept, IsTerminal, Exists, TypeOK, SubmitManual, Goto, NewRow, IsNextId,
       Terminal
  <2> QED BY <1>1, <2>1, <2>2, <2>3, <2>4 DEF Trigger
<1>2. ASSUME NEW i \in Instance, Dispatch(i)  PROVE StatusKept
  <2>1. CASE PushPending(i)
    BY <2>1 DEF StatusKept, IsTerminal, Exists, TypeOK, PushPending, Goto
  <2>2. CASE PopPending(i)
    BY <2>2 DEF StatusKept, IsTerminal, Exists, TypeOK, PopPending, Goto, TryAcquire
  <2>3. CASE DropPending(i)
    BY <2>3 DEF StatusKept, IsTerminal, Exists, TypeOK, DropPending, Goto
  <2>4. CASE CheckPending(i)
    BY <2>4 DEF StatusKept, IsTerminal, Exists, TypeOK, CheckPending, Goto, ReleaseByJob
  <2>5. CASE Bind(i)
    BY <2>5 DEF StatusKept, IsTerminal, Exists, TypeOK, Bind, Goto, BindHeld
  <2>6. CASE PickWorker(i)
    BY <2>6 DEF StatusKept, IsTerminal, Exists, TypeOK, PickWorker, Goto, SetTarget, Candidates
  <2>7. CASE HasOnlineWorker(i)
    BY <2>7 DEF StatusKept, IsTerminal, Exists, TypeOK, HasOnlineWorker, Goto
  <2>8. CASE MarkDispatched(i)
    BY <2>8, ExistsRow DEF StatusKept, IsTerminal, Exists, TypeOK, MarkDispatched, Goto, Refs, Row
  <2>9. CASE Send(i)
    BY <2>9 DEF StatusKept, IsTerminal, Exists, TypeOK, Send, Goto
  <2>10. CASE Sent(i)
    BY <2>10 DEF StatusKept, IsTerminal, Exists, TypeOK, Sent, Goto, SetTarget, BindWorkerAddr
  <2>11. CASE FailDispatch(i)
    BY <2>11, ExistsRow DEF StatusKept, IsTerminal, Exists, TypeOK, FailDispatch, Goto, SetTarget,
       Refs, Row
  <2>12. CASE ReleaseTask(i)
    BY <2>12 DEF StatusKept, IsTerminal, Exists, TypeOK, ReleaseTask, Goto, SetTarget,
       AfterRelease, ReleaseByInstance
  <2>13. CASE RetryTask(i)
    BY <2>13, ExistsRow DEF StatusKept, IsTerminal, Exists, TypeOK, RetryTask, Goto, WithRetry,
       Refs, Row
  <2>14. CASE RequeueAfterNoWorker(i)
    BY <2>14 DEF StatusKept, IsTerminal, Exists, TypeOK, RequeueAfterNoWorker, Goto
  <2> QED BY <1>2, <2>1, <2>2, <2>3, <2>4, <2>5, <2>6, <2>7, <2>8, <2>9, <2>10, <2>11, <2>12,
     <2>13, <2>14 DEF Dispatch
<1>3. ASSUME NEW i \in Instance, Handle(i)  PROVE StatusKept
  <2>1. ASSUME NEW w \in Worker, NEW s \in Reports, Report(i, w, s)  PROVE StatusKept
    BY <2>1, ExistsRow DEF StatusKept, IsTerminal, Exists, TypeOK, Report, Written, Refs, Row
  <2>2. ASSUME NEW s \in StopStatuses, Stop(i, s)  PROVE StatusKept
    BY <2>2, ExistsRow DEF StatusKept, IsTerminal, Exists, TypeOK, Stop, Spend, Refs, Row
  <2>3. CASE ReleaseInFlight(i)
    BY <2>3 DEF StatusKept, IsTerminal, Exists, TypeOK, ReleaseInFlight, ReleaseByInstance
  <2>4. CASE Retry(i)
    BY <2>4, ExistsRow DEF StatusKept, IsTerminal, Exists, TypeOK, Retry, Spend, Refs, Row,
       Retryable, Terminal
  <2>5. CASE LowerInflight(i)
    BY <2>5 DEF StatusKept, IsTerminal, LowerInflight
  <2> QED BY <1>3, <2>1, <2>2, <2>3, <2>4, <2>5 DEF Handle
<1>4. CASE Reaper
  <2>1. ASSUME NEW S \in SUBSET {k \in Instance : Exists(k)}, ReapScan(S)  PROVE StatusKept
    BY <2>1 DEF StatusKept, IsTerminal, Exists, TypeOK, ReapScan, Seen
  <2>2. ASSUME NEW r \in reap.todo, ReapJudge(r)  PROVE StatusKept
    BY <2>2, ExistsRow DEF StatusKept, IsTerminal, Exists, TypeOK, ReapJudge, Refs, Row
  <2>3. CASE ReapRelease
    BY <2>3 DEF StatusKept, IsTerminal, Exists, TypeOK, ReapRelease, ReleaseByInstance
  <2>4. CASE ReapRetry
    BY <2>4, ExistsRow DEF StatusKept, IsTerminal, Exists, TypeOK, ReapRetry, WithRetry, Refs, Row
  <2> QED BY <1>4, <2>1, <2>2, <2>3, <2>4, ScanSets DEF Reaper, ReapScanActive, ReapScanUnbound
<1>5. CASE RetryPump
  <2>1. CASE PumpScan
    BY <2>1 DEF StatusKept, IsTerminal, Exists, TypeOK, PumpScan, IsActive, Active, Terminal
  <2>2. ASSUME NEW i \in pump.todo, ClearNextRetryTime(i)  PROVE StatusKept
    BY <2>2, ExistsRow DEF StatusKept, IsTerminal, Exists, TypeOK, ClearNextRetryTime, Refs, Row
  <2>3. CASE ExistsRetryChild
    BY <2>3 DEF StatusKept, IsTerminal, Exists, TypeOK, ExistsRetryChild
  <2>4. CASE PumpAcquire
    BY <2>4 DEF StatusKept, IsTerminal, Exists, TypeOK, PumpAcquire, TryAcquire
  <2>5. CASE PumpDefer
    BY <2>5, ExistsRow DEF StatusKept, IsTerminal, Exists, TypeOK, PumpDefer, Refs, Row
  <2>6. ASSUME NEW k \in Instance, PumpCreate(k)  PROVE StatusKept
    BY <2>6 DEF StatusKept, IsTerminal, Exists, TypeOK, PumpCreate, NewRow, Goto, IsNextId, Terminal
  <2>7. CASE PumpCreateFails
    BY <2>7 DEF StatusKept, IsTerminal, Exists, TypeOK, PumpCreateFails, ReleaseByJob
  <2> QED BY <1>5, <2>1, <2>2, <2>3, <2>4, <2>5, <2>6, <2>7 DEF RetryPump
<1>6. CASE Registry
  <2>1. ASSUME NEW w \in Worker, Heartbeat(w)  PROVE StatusKept
    BY <2>1 DEF StatusKept, IsTerminal, Exists, TypeOK, Heartbeat
  <2>2. ASSUME NEW w \in Worker, HeartbeatExpires(w)  PROVE StatusKept
    BY <2>2 DEF StatusKept, IsTerminal, Exists, TypeOK, HeartbeatExpires, Spend
  <2>3. CASE Sweep
    BY <2>3 DEF StatusKept, IsTerminal, Exists, TypeOK, Sweep
  <2>4. CASE WarmupEnds
    BY <2>4 DEF StatusKept, IsTerminal, Exists, TypeOK, WarmupEnds
  <2> QED BY <1>6, <2>1, <2>2, <2>3, <2>4 DEF Registry
<1>7. CASE Recovery
  <2>1. ASSUME NEW i \in Instance, RecoverStaleActive(i)  PROVE StatusKept
    BY <2>1, ExistsRow DEF StatusKept, IsTerminal, Exists, TypeOK, RecoverStaleActive, Refs, Row,
       IsActive, Active, Terminal
  <2>2. CASE RecoverRetry
    BY <2>2, ExistsRow DEF StatusKept, IsTerminal, Exists, TypeOK, RecoverRetry, WithRetry, Refs,
       Row
  <2>3. CASE RecoverQueued
    BY <2>3 DEF StatusKept, IsTerminal, Exists, TypeOK, RecoverQueued
  <2> QED BY <1>7, <2>1, <2>2, <2>3 DEF Recovery
<1>8. CASE Crash
    BY <1>8 DEF Crash, StatusKept, TypeOK
<1>9. CASE UNCHANGED vars
    BY <1>9 DEF vars, StatusKept, TypeOK
<1> QED BY <1>1, <1>2, <1>3, <1>4, <1>5, <1>6, <1>7, <1>8, <1>9 DEF Next

\* Every write of a status but those of Stop and Cancel is guarded: a finished row stays
\* as it is in every step, crashes and the recovery included.
THEOREM FinalIsFinal == Spec => TerminalStable
<1>1. HeldInv /\ [Next]_vars => [StatusKept]_vars
  BY NextStatus DEF HeldInv
<1>2. StatusKept
        <=> \A i \in Instance : IsTerminal(i) => ins'[i].status \in {ins[i].status} \cup StopStatuses
  BY DEF StatusKept
<1> QED BY <1>1, <1>2, HeldInvariant, PTL DEF Spec, TerminalStable
-----------------------------------------------------------------------------
(* The course of a row from its queue to a worker. *)

\* A row is handed back by its worker, or a crash meets it: in either case nobody may
\* send it a second time, but in both together the recovery does.
NoResend == "queued" \notin Reports \/ MaxCrashes = 0

Waiting == {"timer", "queue", "check", "bind", "pick", "unpicked", "mark", "noworker", "requeue"}

\* A row on its way to a worker has not been handed to one, and no worker reports on it.
Unsent ==
  NoResend =>
    \A i \in Instance :
      /\ task[i] \in Waiting \cup {"send"} => delivered[i] = {}
      /\ task[i] \in Waiting => ~IsActive(i)

\* A row that was sent is queued again by a hand-back only, which unbinds it.
Marked ==
  \A i \in Instance :
    /\ "queued" \notin Reports /\ delivered[i] # {} => ins[i].status # "queued"
    /\ task[i] \in {"send", "sent"} /\ ins[i].status = "queued"
         => "queued" \in Reports /\ ins[i].addr = None

\* Whoever releases, retries or marks a row finds it finished, and so it stays.
Ended ==
  /\ \A i \in Instance :
       \/ i \in handler
       \/ task[i] \in {"releaseretry", "retry"}
       \/ task[i] = "release" /\ ~DbFaults
       => IsTerminal(i)
  /\ reap.pc # "idle" => IsTerminal(reap.ins)
  /\ boot # None => IsTerminal(boot)
  /\ \A i \in pump.todo : IsTerminal(i)
  /\ pump.pc # "idle" => IsTerminal(pump.ins)

NoBoot == MaxCrashes = 0 => phase = "up"

\* Without failing calls, a queued row has a carrier or was handed back.
Carried ==
  ~DbFaults /\ Up =>
    \A i \in Instance : ins[i].status = "queued" =>
      task[i] # "idle" \/ ("queued" \in Reports /\ ins[i].addr = None)

Course == Unsent /\ Marked /\ Ended /\ NoBoot /\ Carried

\* The status a write leaves in a row, and nowhere else.
LEMMA WriteStatus ==
  ASSUME TypeOK, NEW i \in Instance, ins[i] \in Row, NEW v, ins' = [ins EXCEPT ![i].status = v]
  PROVE  \A q \in Instance : ins'[q].status = IF q = i THEN v ELSE ins[q].status
<1> DEFINE row == [ins[i] EXCEPT !.status = v]
<1>1. row.status = v
  BY DEF Row
<1>2. ins' = [ins EXCEPT ![i] = row]
  OBVIOUS
<1> HIDE DEF row
<1>3. \A q \in Instance : ins'[q] = IF q = i THEN row ELSE ins[q]
  BY <1>2 DEF TypeOK
<1> QED BY <1>1, <1>3

LEMMA WriteFailed ==
  ASSUME TypeOK, NEW i \in Instance, ins[i] \in Row,
         ins' = [ins EXCEPT ![i] = [ins[i] EXCEPT !.status = "failed", !.addr = None]]
  PROVE  \A q \in Instance : ins'[q].status = IF q = i THEN "failed" ELSE ins[q].status
<1> DEFINE row == [ins[i] EXCEPT !.status = "failed", !.addr = None]
<1>1. row.status = "failed"
  BY DEF Row
<1>2. ins' = [ins EXCEPT ![i] = row]
  OBVIOUS
<1> HIDE DEF row
<1>3. \A q \in Instance : ins'[q] = IF q = i THEN row ELSE ins[q]
  BY <1>2 DEF TypeOK
<1> QED BY <1>1, <1>3

LEMMA NextCourse ==
  ASSUME TypeOK, Refs, Quiet, Course, [Next]_vars
  PROVE  Course'
<1>0. /\ Unsent /\ Marked /\ Ended /\ NoBoot /\ Carried
      /\ StatusKept /\ StopStatuses \subseteq Terminal /\ None \notin Instance
      /\ \A i \in Instance : IsTerminal(i) => IsTerminal(i)'
  BY NextStatus, SchedulerAssumption DEF Course, StatusKept, SchedulerAssumption, IsTerminal, Terminal
<1>1. ASSUME NEW j \in Job, Trigger(j)  PROVE Course'
  <2>1. CASE AutoAcquire(j)
    <3>1. Unsent'
      BY <2>1, <1>0 DEF Unsent, Waiting, Refs, Active, Terminal, IsTerminal, IsActive, TypeOK,
         AutoAcquire, TryAcquire
    <3>2. Marked'
      BY <2>1, <1>0 DEF Marked, Refs, Terminal, IsTerminal, IsActive, TypeOK, AutoAcquire,
         TryAcquire
    <3>3. Ended'
      BY <2>1, <1>0 DEF Ended, Refs, StatusKept, Terminal, IsTerminal, IsActive, TypeOK,
         AutoAcquire, TryAcquire
    <3>4. NoBoot'
      BY <2>1, <1>0 DEF NoBoot, IsTerminal, IsActive, TypeOK, AutoAcquire, TryAcquire
    <3>5. Carried'
      BY <2>1, <1>0 DEF Carried, Up, Ended, Marked, Terminal, IsTerminal, IsActive, TypeOK,
         AutoAcquire, TryAcquire
    <3> QED BY <3>1, <3>2, <3>3, <3>4, <3>5 DEF Course
  <2>2. CASE AutoAbandon(j)
    <3>1. Unsent'
      BY <2>2, <1>0 DEF Unsent, Waiting, Refs, Active, Terminal, IsTerminal, IsActive, TypeOK,
         AutoAbandon, ReleaseByJob
    <3>2. Marked'
      BY <2>2, <1>0 DEF Marked, Refs, Terminal, IsTerminal, IsActive, TypeOK, AutoAbandon,
         ReleaseByJob
    <3>3. Ended'
      BY <2>2, <1>0 DEF Ended, Refs, StatusKept, Terminal, IsTerminal, IsActive, TypeOK,
         AutoAbandon, ReleaseByJob
    <3>4. NoBoot'
      BY <2>2, <1>0 DEF NoBoot, IsTerminal, IsActive, TypeOK, AutoAbandon, ReleaseByJob
    <3>5. Carried'
      BY <2>2, <1>0 DEF Carried, Up, Ended, Marked, Terminal, IsTerminal, IsActive, TypeOK,
         AutoAbandon, ReleaseByJob
    <3> QED BY <3>1, <3>2, <3>3, <3>4, <3>5 DEF Course
  <2>3. ASSUME NEW i \in Instance, AutoCreate(j, i)  PROVE Course'
    <3>1. Unsent'
      BY <2>3, <1>0 DEF Unsent, Waiting, Refs, Active, Terminal, IsTerminal, IsActive, TypeOK,
         AutoCreate, Goto, NewRow, IsNextId
    <3>2. Marked'
      BY <2>3, <1>0 DEF Marked, Refs, Terminal, IsTerminal, IsActive, TypeOK, AutoCreate, Goto,
         NewRow, IsNextId
    <3>3. Ended'
      BY <2>3, <1>0 DEF Ended, Refs, StatusKept, Terminal, IsTerminal, IsActive, TypeOK,
         AutoCreate, Goto, NewRow, IsNextId
    <3>4. NoBoot'
      BY <2>3, <1>0 DEF NoBoot, IsTerminal, IsActive, TypeOK, AutoCreate, Goto, NewRow, IsNextId
    <3>5. Carried'
      BY <2>3, <1>0 DEF Carried, Up, Ended, Marked, Terminal, IsTerminal, IsActive, TypeOK,
         AutoCreate, Goto, NewRow, IsNextId
    <3> QED BY <3>1, <3>2, <3>3, <3>4, <3>5 DEF Course
  <2>4. ASSUME NEW i \in Instance, SubmitManual(j, i)  PROVE Course'
    <3>1. Unsent'
      BY <2>4, <1>0 DEF Unsent, Waiting, Refs, Active, Terminal, IsTerminal, IsActive, TypeOK,
         SubmitManual, Goto, NewRow, IsNextId
    <3>2. Marked'
      BY <2>4, <1>0 DEF Marked, Refs, Terminal, IsTerminal, IsActive, TypeOK, SubmitManual, Goto,
         NewRow, IsNextId
    <3>3. Ended'
      BY <2>4, <1>0 DEF Ended, Refs, StatusKept, Terminal, IsTerminal, IsActive, TypeOK,
         SubmitManual, Goto, NewRow, IsNextId
    <3>4. NoBoot'
      BY <2>4, <1>0 DEF NoBoot, IsTerminal, IsActive, TypeOK, SubmitManual, Goto, NewRow, IsNextId
    <3>5. Carried'
      BY <2>4, <1>0 DEF Carried, Up, Ended, Marked, Terminal, IsTerminal, IsActive, TypeOK,
         SubmitManual, Goto, NewRow, IsNextId
    <3> QED BY <3>1, <3>2, <3>3, <3>4, <3>5 DEF Course
  <2> QED BY <1>1, <2>1, <2>2, <2>3, <2>4 DEF Trigger
<1>2. ASSUME NEW i \in Instance, Dispatch(i)  PROVE Course'
  <2>1. CASE PushPending(i)
    <3>1. Unsent'
      BY <2>1, <1>0 DEF Unsent, Waiting, Refs, Active, Terminal, IsTerminal, IsActive, TypeOK,
         PushPending, Goto
    <3>2. Marked'
      BY <2>1, <1>0 DEF Marked, Refs, Terminal, IsTerminal, IsActive, TypeOK, PushPending, Goto
    <3>3. Ended'
      BY <2>1, <1>0 DEF Ended, Refs, StatusKept, Terminal, IsTerminal, IsActive, TypeOK,
         PushPending, Goto
    <3>4. NoBoot'
      BY <2>1, <1>0 DEF NoBoot, IsTerminal, IsActive, TypeOK, PushPending, Goto
    <3>5. Carried'
      BY <2>1, <1>0 DEF Carried, Up, Ended, Marked, Terminal, IsTerminal, IsActive, TypeOK,
         PushPending, Goto
    <3> QED BY <3>1, <3>2, <3>3, <3>4, <3>5 DEF Course
  <2>2. CASE PopPending(i)
    <3>1. Unsent'
      BY <2>2, <1>0 DEF Unsent, Waiting, Refs, Active, Terminal, IsTerminal, IsActive, TypeOK,
         PopPending, Goto, TryAcquire
    <3>2. Marked'
      BY <2>2, <1>0 DEF Marked, Refs, Terminal, IsTerminal, IsActive, TypeOK, PopPending, Goto,
         TryAcquire
    <3>3. Ended'
      BY <2>2, <1>0 DEF Ended, Refs, StatusKept, Terminal, IsTerminal, IsActive, TypeOK,
         PopPending, Goto, TryAcquire
    <3>4. NoBoot'
      BY <2>2, <1>0 DEF NoBoot, IsTerminal, IsActive, TypeOK, PopPending, Goto, TryAcquire
    <3>5. Carried'
      BY <2>2, <1>0 DEF Carried, Up, Ended, Marked, Terminal, IsTerminal, IsActive, TypeOK,
         PopPending, Goto, TryAcquire
    <3> QED BY <3>1, <3>2, <3>3, <3>4, <3>5 DEF Course
  <2>3. CASE DropPending(i)
    <3>1. Unsent'
      BY <2>3, <1>0 DEF Unsent, Waiting, Refs, Active, Terminal, IsTerminal, IsActive, TypeOK,
         DropPending, Goto
    <3>2. Marked'
      BY <2>3, <1>0 DEF Marked, Refs, Terminal, IsTerminal, IsActive, TypeOK, DropPending, Goto
    <3>3. Ended'
      BY <2>3, <1>0 DEF Ended, Refs, StatusKept, Terminal, IsTerminal, IsActive, TypeOK,
         DropPending, Goto
    <3>4. NoBoot'
      BY <2>3, <1>0 DEF NoBoot, IsTerminal, IsActive, TypeOK, DropPending, Goto
    <3>5. Carried'
      BY <2>3, <1>0 DEF Carried, Up, Ended, Marked, Terminal, IsTerminal, IsActive, TypeOK,
         DropPending, Goto
    <3> QED BY <3>1, <3>2, <3>3, <3>4, <3>5 DEF Course
  <2>4. CASE CheckPending(i)
    <3>1. Unsent'
      BY <2>4, <1>0 DEF Unsent, Waiting, Refs, Active, Terminal, IsTerminal, IsActive, TypeOK,
         CheckPending, Goto, ReleaseByJob
    <3>2. Marked'
      BY <2>4, <1>0 DEF Marked, Refs, Terminal, IsTerminal, IsActive, TypeOK, CheckPending, Goto,
         ReleaseByJob
    <3>3. Ended'
      BY <2>4, <1>0 DEF Ended, Refs, StatusKept, Terminal, IsTerminal, IsActive, TypeOK,
         CheckPending, Goto, ReleaseByJob
    <3>4. NoBoot'
      BY <2>4, <1>0 DEF NoBoot, IsTerminal, IsActive, TypeOK, CheckPending, Goto, ReleaseByJob
    <3>5. Carried'
      BY <2>4, <1>0 DEF Carried, Up, Ended, Marked, Terminal, IsTerminal, IsActive, TypeOK,
         CheckPending, Goto, ReleaseByJob
    <3> QED BY <3>1, <3>2, <3>3, <3>4, <3>5 DEF Course
  <2>5. CASE Bind(i)
    <3>1. Unsent'
      BY <2>5, <1>0 DEF Unsent, Waiting, Refs, Active, Terminal, IsTerminal, IsActive, TypeOK,
         Bind, Goto, BindHeld
    <3>2. Marked'
      BY <2>5, <1>0 DEF Marked, Refs, Terminal, IsTerminal, IsActive, TypeOK, Bind, Goto, BindHeld
    <3>3. Ended'
      BY <2>5, <1>0 DEF Ended, Refs, StatusKept, Terminal, IsTerminal, IsActive, TypeOK, Bind,
         Goto, BindHeld
    <3>4. NoBoot'
      BY <2>5, <1>0 DEF NoBoot, IsTerminal, IsActive, TypeOK, Bind, Goto, BindHeld
    <3>5. Carried'
      BY <2>5, <1>0 DEF Carried, Up, Ended, Marked, Terminal, IsTerminal, IsActive, TypeOK, Bind,
         Goto, BindHeld
    <3> QED BY <3>1, <3>2, <3>3, <3>4, <3>5 DEF Course
  <2>6. CASE PickWorker(i)
    <3>1. Unsent'
      BY <2>6, <1>0 DEF Unsent, Waiting, Refs, Active, Terminal, IsTerminal, IsActive, TypeOK,
         PickWorker, Goto, SetTarget, Candidates
    <3>2. Marked'
      BY <2>6, <1>0 DEF Marked, Refs, Terminal, IsTerminal, IsActive, TypeOK, PickWorker, Goto,
         SetTarget, Candidates
    <3>3. Ended'
      BY <2>6, <1>0 DEF Ended, Refs, StatusKept, Terminal, IsTerminal, IsActive, TypeOK,
         PickWorker, Goto, SetTarget, Candidates
    <3>4. NoBoot'
      BY <2>6, <1>0 DEF NoBoot, IsTerminal, IsActive, TypeOK, PickWorker, Goto, SetTarget,
         Candidates
    <3>5. Carried'
      BY <2>6, <1>0 DEF Carried, Up, Ended, Marked, Terminal, IsTerminal, IsActive, TypeOK,
         PickWorker, Goto, SetTarget, Candidates
    <3> QED BY <3>1, <3>2, <3>3, <3>4, <3>5 DEF Course
  <2>7. CASE HasOnlineWorker(i)
    <3>1. Unsent'
      BY <2>7, <1>0 DEF Unsent, Waiting, Refs, Active, Terminal, IsTerminal, IsActive, TypeOK,
         HasOnlineWorker, Goto
    <3>2. Marked'
      BY <2>7, <1>0 DEF Marked, Refs, Terminal, IsTerminal, IsActive, TypeOK, HasOnlineWorker, Goto
    <3>3. Ended'
      BY <2>7, <1>0 DEF Ended, Refs, StatusKept, Terminal, IsTerminal, IsActive, TypeOK,
         HasOnlineWorker, Goto
    <3>4. NoBoot'
      BY <2>7, <1>0 DEF NoBoot, IsTerminal, IsActive, TypeOK, HasOnlineWorker, Goto
    <3>5. Carried'
      BY <2>7, <1>0 DEF Carried, Up, Ended, Marked, Terminal, IsTerminal, IsActive, TypeOK,
         HasOnlineWorker, Goto
    <3> QED BY <3>1, <3>2, <3>3, <3>4, <3>5 DEF Course
  <2>8. CASE MarkDispatched(i)
    <3>1. i \in Instance /\ ins[i] \in Row
      BY <2>8, ExistsRow DEF TypeOK, Refs, Row, Exists, MarkDispatched
    <3>2. /\ \A q \in Instance : ins'[q].status \in {ins[q].status, "waiting_receive"}
          /\ \A q \in Instance \ {i} : ins'[q] = ins[q] /\ task'[q] = task[q]
          /\ task'[i] \in {"send", "release", "fail"}
          /\ task'[i] = "send" => ins'[i].status = "waiting_receive"
          /\ task'[i] = "release" => IsTerminal(i)
      BY <2>8, <3>1 DEF TypeOK, Row, MarkDispatched, Goto
    <3>3. Unsent'
      BY <2>8, <1>0, <3>1, <3>2 DEF Unsent, Waiting, Refs, Active, Terminal, IsTerminal, IsActive,
         TypeOK, MarkDispatched, Goto
    <3>4. Marked'
      BY <2>8, <1>0, <3>1, <3>2 DEF Marked, Refs, Terminal, IsTerminal, IsActive, TypeOK,
         MarkDispatched, Goto
    <3>5. Ended'
      BY <2>8, <1>0, <3>1, <3>2 DEF Ended, Refs, StatusKept, Terminal, IsTerminal, IsActive,
         TypeOK, MarkDispatched, Goto
    <3>6. NoBoot'
      BY <2>8, <1>0, <3>1, <3>2 DEF NoBoot, IsTerminal, IsActive, TypeOK, MarkDispatched, Goto
    <3>7. Carried'
      BY <2>8, <1>0, <3>1, <3>2 DEF Carried, Up, Ended, Marked, Terminal, IsTerminal, IsActive,
         TypeOK, MarkDispatched, Goto
    <3> QED BY <3>3, <3>4, <3>5, <3>6, <3>7 DEF Course
  <2>9. CASE Send(i)
    <3>1. Unsent'
      BY <2>9, <1>0 DEF Unsent, Waiting, Refs, Active, Terminal, IsTerminal, IsActive, TypeOK,
         Send, Goto
    <3>2. Marked'
      BY <2>9, <1>0 DEF Marked, Refs, Terminal, IsTerminal, IsActive, TypeOK, Send, Goto
    <3>3. Ended'
      BY <2>9, <1>0 DEF Ended, Refs, StatusKept, Terminal, IsTerminal, IsActive, TypeOK, Send, Goto
    <3>4. NoBoot'
      BY <2>9, <1>0 DEF NoBoot, IsTerminal, IsActive, TypeOK, Send, Goto
    <3>5. Carried'
      BY <2>9, <1>0 DEF Carried, Up, Ended, Marked, Terminal, IsTerminal, IsActive, TypeOK, Send,
         Goto
    <3> QED BY <3>1, <3>2, <3>3, <3>4, <3>5 DEF Course
  <2>10. CASE Sent(i)
    <3>1. Unsent'
      BY <2>10, <1>0 DEF Unsent, Waiting, Refs, Active, Terminal, IsTerminal, IsActive, TypeOK,
         Sent, Goto, SetTarget, BindWorkerAddr
    <3>2. Marked'
      BY <2>10, <1>0 DEF Marked, Refs, Terminal, IsTerminal, IsActive, TypeOK, Sent, Goto,
         SetTarget, BindWorkerAddr
    <3>3. Ended'
      BY <2>10, <1>0 DEF Ended, Refs, StatusKept, Terminal, IsTerminal, IsActive, TypeOK, Sent,
         Goto, SetTarget, BindWorkerAddr
    <3>4. NoBoot'
      BY <2>10, <1>0 DEF NoBoot, IsTerminal, IsActive, TypeOK, Sent, Goto, SetTarget, BindWorkerAddr
    <3>5. Carried'
      BY <2>10, <1>0 DEF Carried, Up, Ended, Marked, Terminal, IsTerminal, IsActive, TypeOK, Sent,
         Goto, SetTarget, BindWorkerAddr
    <3> QED BY <3>1, <3>2, <3>3, <3>4, <3>5 DEF Course
  <2>11. CASE FailDispatch(i)
    <3>1. i \in Instance /\ ins[i] \in Row
      BY <2>11, ExistsRow DEF TypeOK, Refs, Row, Exists, FailDispatch
    <3>2. /\ \A q \in Instance : ins'[q].status \in {ins[q].status, "failed"}
          /\ \A q \in Instance \ {i} : ins'[q] = ins[q] /\ task'[q] = task[q]
          /\ task'[i] \in {"release", "releaseretry"}
          /\ task'[i] = "releaseretry" => ins'[i].status = "failed"
          /\ task'[i] = "release" => IsTerminal(i) \/ DbFaults
      <4>1. ins' = ins \/ ins' = [ins EXCEPT ![i] = [ins[i] EXCEPT !.status = "failed", !.addr = None]]
        BY <2>11 DEF TypeOK, Row, FailDispatch, Goto
      <4>2. \A q \in Instance : ins'[q].status \in {ins[q].status, "failed"}
        BY <4>1, <3>1, WriteFailed
      <4>3. \A q \in Instance \ {i} : ins'[q] = ins[q] /\ task'[q] = task[q]
        BY <2>11, <4>1, <3>1 DEF TypeOK, FailDispatch, Goto
      <4>4. /\ task'[i] \in {"release", "releaseretry"}
            /\ task'[i] = "release" => IsTerminal(i) \/ DbFaults
        BY <2>11 DEF TypeOK, FailDispatch, Goto
      <4>5. CASE task'[i] = "releaseretry"
        <5>1. ins' = [ins EXCEPT ![i] = [ins[i] EXCEPT !.status = "failed", !.addr = None]]
          BY <2>11, <4>5 DEF TypeOK, FailDispatch, Goto
        <5> QED BY <5>1, <3>1, <4>2, <4>3, <4>4, WriteFailed
      <4> QED BY <4>2, <4>3, <4>4, <4>5
    <3>3. Unsent'
      BY <2>11, <1>0, <3>1, <3>2 DEF Unsent, Waiting, Refs, Active, Terminal, IsTerminal, IsActive,
         TypeOK, FailDispatch, Goto, SetTarget
    <3>4. Marked'
      BY <2>11, <1>0, <3>1, <3>2 DEF Marked, Refs, Terminal, IsTerminal, IsActive, TypeOK,
         FailDispatch, Goto, SetTarget
    <3>5. Ended'
      BY <2>11, <1>0, <3>1, <3>2 DEF Ended, Refs, StatusKept, Terminal, IsTerminal, IsActive,
         TypeOK, FailDispatch, Goto, SetTarget
    <3>6. NoBoot'
      BY <2>11, <1>0, <3>1, <3>2 DEF NoBoot, IsTerminal, IsActive, TypeOK, FailDispatch, Goto,
         SetTarget
    <3>7. Carried'
      BY <2>11, <1>0, <3>1, <3>2 DEF Carried, Up, Ended, Marked, Terminal, IsTerminal, IsActive,
         TypeOK, FailDispatch, Goto, SetTarget
    <3> QED BY <3>3, <3>4, <3>5, <3>6, <3>7 DEF Course
  <2>12. CASE ReleaseTask(i)
    <3>1. Unsent'
      BY <2>12, <1>0 DEF Unsent, Waiting, Refs, Active, Terminal, IsTerminal, IsActive, TypeOK,
         ReleaseTask, Goto, SetTarget, AfterRelease, ReleaseByInstance
    <3>2. Marked'
      BY <2>12, <1>0 DEF Marked, Refs, Terminal, IsTerminal, IsActive, TypeOK, ReleaseTask, Goto,
         SetTarget, AfterRelease, ReleaseByInstance
    <3>3. Ended'
      BY <2>12, <1>0 DEF Ended, Refs, StatusKept, Terminal, IsTerminal, IsActive, TypeOK,
         ReleaseTask, Goto, SetTarget, AfterRelease, ReleaseByInstance
    <3>4. NoBoot'
      BY <2>12, <1>0 DEF NoBoot, IsTerminal, IsActive, TypeOK, ReleaseTask, Goto, SetTarget,
         AfterRelease, ReleaseByInstance
    <3>5. Carried'
      BY <2>12, <1>0 DEF Carried, Up, Ended, Marked, Terminal, IsTerminal, IsActive, TypeOK,
         ReleaseTask, Goto, SetTarget, AfterRelease, ReleaseByInstance
    <3> QED BY <3>1, <3>2, <3>3, <3>4, <3>5 DEF Course
  <2>13. CASE RetryTask(i)
    <3>1. i \in Instance /\ ins[i] \in Row
      BY <2>13, ExistsRow DEF TypeOK, Refs, Row, Exists, RetryTask
    <3>2. \A q \in Instance : ins'[q].status = ins[q].status /\ ins'[q].addr = ins[q].addr
      BY <2>13, <3>1 DEF TypeOK, Row, RetryTask, Goto, WithRetry
    <3>3. Unsent'
      BY <2>13, <1>0, <3>2 DEF Unsent, Waiting, Refs, Active, Terminal, IsTerminal, IsActive,
         TypeOK, RetryTask, Goto, WithRetry
    <3>4. Marked'
      BY <2>13, <1>0, <3>2 DEF Marked, Refs, Terminal, IsTerminal, IsActive, TypeOK, RetryTask,
         Goto, WithRetry
    <3>5. Ended'
      BY <2>13, <1>0, <3>2 DEF Ended, Refs, StatusKept, Terminal, IsTerminal, IsActive, TypeOK,
         RetryTask, Goto, WithRetry
    <3>6. NoBoot'
      BY <2>13, <1>0, <3>2 DEF NoBoot, IsTerminal, IsActive, TypeOK, RetryTask, Goto, WithRetry
    <3>7. Carried'
      BY <2>13, <1>0, <3>2 DEF Carried, Up, Ended, Marked, Terminal, IsTerminal, IsActive, TypeOK,
         RetryTask, Goto, WithRetry
    <3> QED BY <3>3, <3>4, <3>5, <3>6, <3>7 DEF Course
  <2>14. CASE RequeueAfterNoWorker(i)
    <3>1. Unsent'
      BY <2>14, <1>0 DEF Unsent, Waiting, Refs, Active, Terminal, IsTerminal, IsActive, TypeOK,
         RequeueAfterNoWorker, Goto
    <3>2. Marked'
      BY <2>14, <1>0 DEF Marked, Refs, Terminal, IsTerminal, IsActive, TypeOK,
         RequeueAfterNoWorker, Goto
    <3>3. Ended'
      BY <2>14, <1>0 DEF Ended, Refs, StatusKept, Terminal, IsTerminal, IsActive, TypeOK,
         RequeueAfterNoWorker, Goto
    <3>4. NoBoot'
      BY <2>14, <1>0 DEF NoBoot, IsTerminal, IsActive, TypeOK, RequeueAfterNoWorker, Goto
    <3>5. Carried'
      BY <2>14, <1>0 DEF Carried, Up, Ended, Marked, Terminal, IsTerminal, IsActive, TypeOK,
         RequeueAfterNoWorker, Goto
    <3> QED BY <3>1, <3>2, <3>3, <3>4, <3>5 DEF Course
  <2> QED BY <1>2, <2>1, <2>2, <2>3, <2>4, <2>5, <2>6, <2>7, <2>8, <2>9, <2>10, <2>11, <2>12,
     <2>13, <2>14 DEF Dispatch
<1>3. ASSUME NEW i \in Instance, Handle(i)  PROVE Course'
  <2>1. ASSUME NEW w \in Worker, NEW s \in Reports, Report(i, w, s)  PROVE Course'
    <3>1. i \in Instance /\ ins[i] \in Row
      BY <2>1, ExistsRow DEF TypeOK, Refs, Row, Exists, Report
    <3>2. /\ \A q \in Instance : ins'[q].status \in {ins[q].status, s}
          /\ \A q \in Instance \ {i} : ins'[q] = ins[q]
          /\ delivered[i] # {}
          /\ s \in Reports
      BY <2>1, <3>1 DEF TypeOK, Row, Report, Written
    <3>3. Unsent'
      BY <2>1, <1>0, <3>1, <3>2 DEF Unsent, Waiting, Refs, Active, Terminal, IsTerminal, IsActive,
         TypeOK, Report, Written
    <3>4. Marked'
      BY <2>1, <1>0, <3>1, <3>2 DEF Marked, Refs, Terminal, Unsent, NoResend, IsTerminal, IsActive,
         TypeOK, Report, Written
    <3>5. Ended'
      BY <2>1, <1>0, <3>1, <3>2 DEF Ended, Refs, StatusKept, Terminal, IsTerminal, IsActive,
         TypeOK, Report, Written
    <3>6. NoBoot'
      BY <2>1, <1>0, <3>1, <3>2 DEF NoBoot, IsTerminal, IsActive, TypeOK, Report, Written
    <3>7. Carried'
      BY <2>1, <1>0, <3>1, <3>2 DEF Carried, Up, Ended, Marked, Terminal, IsTerminal, IsActive,
         TypeOK, Report, Written
    <3> QED BY <3>3, <3>4, <3>5, <3>6, <3>7 DEF Course
  <2>2. ASSUME NEW s \in StopStatuses, Stop(i, s)  PROVE Course'
    <3>1. i \in Instance /\ ins[i] \in Row
      BY <2>2, ExistsRow DEF TypeOK, Refs, Row, Exists, Stop
    <3>2. Unsent'
      BY <2>2, <1>0, <3>1 DEF Unsent, Waiting, Refs, Active, Terminal, IsTerminal, IsActive,
         TypeOK, Stop, Spend
    <3>3. Marked'
      BY <2>2, <1>0, <3>1 DEF Marked, Refs, Terminal, IsTerminal, IsActive, TypeOK, Stop, Spend
    <3>4. Ended'
      BY <2>2, <1>0, <3>1 DEF Ended, Refs, StatusKept, Terminal, IsTerminal, IsActive, TypeOK,
         Stop, Spend
    <3>5. NoBoot'
      BY <2>2, <1>0, <3>1 DEF NoBoot, IsTerminal, IsActive, TypeOK, Stop, Spend
    <3>6. Carried'
      BY <2>2, <1>0, <3>1 DEF Carried, Up, Ended, Marked, Terminal, IsTerminal, IsActive, TypeOK,
         Stop, Spend
    <3> QED BY <3>2, <3>3, <3>4, <3>5, <3>6 DEF Course
  <2>3. CASE ReleaseInFlight(i)
    <3>1. Unsent'
      BY <2>3, <1>0 DEF Unsent, Waiting, Refs, Active, Terminal, IsTerminal, IsActive, TypeOK,
         ReleaseInFlight, ReleaseByInstance
    <3>2. Marked'
      BY <2>3, <1>0 DEF Marked, Refs, Terminal, IsTerminal, IsActive, TypeOK, ReleaseInFlight,
         ReleaseByInstance
    <3>3. Ended'
      BY <2>3, <1>0 DEF Ended, Refs, StatusKept, Terminal, IsTerminal, IsActive, TypeOK,
         ReleaseInFlight, ReleaseByInstance
    <3>4. NoBoot'
      BY <2>3, <1>0 DEF NoBoot, IsTerminal, IsActive, TypeOK, ReleaseInFlight, ReleaseByInstance
    <3>5. Carried'
      BY <2>3, <1>0 DEF Carried, Up, Ended, Marked, Terminal, IsTerminal, IsActive, TypeOK,
         ReleaseInFlight, ReleaseByInstance
    <3> QED BY <3>1, <3>2, <3>3, <3>4, <3>5 DEF Course
  <2>4. CASE Retry(i)
    <3>1. i \in Instance /\ ins[i] \in Row
      BY <2>4, ExistsRow DEF TypeOK, Refs, Row, Exists, Retry, Retryable
    <3>2. \A q \in Instance : ins'[q].status = ins[q].status /\ ins'[q].addr = ins[q].addr
      BY <2>4, <3>1 DEF TypeOK, Row, Retry, Spend
    <3>3. Unsent'
      BY <2>4, <1>0, <3>2 DEF Unsent, Waiting, Refs, Active, Terminal, IsTerminal, IsActive,
         TypeOK, Retry, Spend
    <3>4. Marked'
      BY <2>4, <1>0, <3>2 DEF Marked, Refs, Terminal, IsTerminal, IsActive, TypeOK, Retry, Spend
    <3>5. Ended'
      BY <2>4, <1>0, <3>2 DEF Ended, Refs, StatusKept, Terminal, IsTerminal, IsActive, TypeOK,
         Retry, Spend
    <3>6. NoBoot'
      BY <2>4, <1>0, <3>2 DEF NoBoot, IsTerminal, IsActive, TypeOK, Retry, Spend
    <3>7. Carried'
      BY <2>4, <1>0, <3>2 DEF Carried, Up, Ended, Marked, Terminal, IsTerminal, IsActive, TypeOK,
         Retry, Spend
    <3> QED BY <3>3, <3>4, <3>5, <3>6, <3>7 DEF Course
  <2>5. CASE LowerInflight(i)
    <3>1. Unsent'
      BY <2>5, <1>0 DEF Unsent, IsActive, LowerInflight
    <3>2. Marked'
      BY <2>5, <1>0 DEF Marked, LowerInflight
    <3>3. Ended'
      BY <2>5, <1>0 DEF Ended, IsTerminal, TypeOK, LowerInflight
    <3>4. NoBoot'
      BY <2>5, <1>0 DEF NoBoot, LowerInflight
    <3>5. Carried'
      BY <2>5, <1>0 DEF Carried, Up, LowerInflight
    <3> QED BY <3>1, <3>2, <3>3, <3>4, <3>5 DEF Course
  <2> QED BY <1>3, <2>1, <2>2, <2>3, <2>4, <2>5 DEF Handle
<1>4. CASE Reaper
  <2>1. ASSUME NEW S \in SUBSET {k \in Instance : Exists(k)}, ReapScan(S)  PROVE Course'
    <3>1. Unsent'
      BY <2>1, <1>0 DEF Unsent, Waiting, Refs, Active, Terminal, IsTerminal, IsActive, TypeOK,
         ReapScan, Seen
    <3>2. Marked'
      BY <2>1, <1>0 DEF Marked, Refs, Terminal, IsTerminal, IsActive, TypeOK, ReapScan, Seen
    <3>3. Ended'
      BY <2>1, <1>0 DEF Ended, Refs, StatusKept, Terminal, IsTerminal, IsActive, TypeOK, ReapScan,
         Seen
    <3>4. NoBoot'
      BY <2>1, <1>0 DEF NoBoot, IsTerminal, IsActive, TypeOK, ReapScan, Seen
    <3>5. Carried'
      BY <2>1, <1>0 DEF Carried, Up, Ended, Marked, Terminal, IsTerminal, IsActive, TypeOK,
         ReapScan, Seen
    <3> QED BY <3>1, <3>2, <3>3, <3>4, <3>5 DEF Course
  <2>2. ASSUME NEW r \in reap.todo, ReapJudge(r)  PROVE Course'
    <3>1. r.ins \in Instance /\ ins[r.ins] \in Row
      BY <2>2, ExistsRow DEF TypeOK, Refs, Row, Exists, ReapJudge, Scanned
    <3>2. ASSUME NEW v \in StallVerdicts(r), v # "none" PROVE v \in {"failed", "timeout"}
      BY <3>2 DEF StallVerdicts
    <3>3. \/ UNCHANGED ins /\ reap'.pc = "idle"
          \/ \E v \in {"failed", "timeout"} : /\ ~IsTerminal(r.ins) /\ reap'.ins = r.ins
                                          /\ ins' = [ins EXCEPT ![r.ins].status = v]
      BY <2>2, <3>2 DEF TypeOK, ReapJudge
    <3>4. /\ \A q \in Instance : \/ ins'[q].status = ins[q].status
                               \/ /\ q = r.ins /\ ~IsTerminal(r.ins)
                                  /\ ins'[q].status \in {"failed", "timeout"}
          /\ reap'.pc # "idle" => /\ reap'.ins = r.ins
                                 /\ ins'[r.ins].status \in {"failed", "timeout"}
      BY <3>1, <3>3, WriteStatus
    <3>5. Unsent'
      BY <2>2, <1>0, <3>1, <3>4 DEF Unsent, Waiting, Refs, Active, Terminal, IsTerminal, IsActive,
         TypeOK, ReapJudge
    <3>6. Marked'
      BY <2>2, <1>0, <3>1, <3>4 DEF Marked, Refs, Terminal, IsTerminal, IsActive, TypeOK, ReapJudge
    <3>7. Ended'
      BY <2>2, <1>0, <3>1, <3>4 DEF Ended, Refs, StatusKept, Terminal, IsTerminal, IsActive,
         TypeOK, ReapJudge
    <3>8. NoBoot'
      BY <2>2, <1>0, <3>1, <3>4 DEF NoBoot, IsTerminal, IsActive, TypeOK, ReapJudge
    <3>9. Carried'
      BY <2>2, <1>0, <3>1, <3>4 DEF Carried, Up, Ended, Marked, Terminal, IsTerminal, IsActive,
         TypeOK, ReapJudge
    <3> QED BY <3>5, <3>6, <3>7, <3>8, <3>9 DEF Course
  <2>3. CASE ReapRelease
    <3>1. Unsent'
      BY <2>3, <1>0 DEF Unsent, Waiting, Refs, Active, Terminal, IsTerminal, IsActive, TypeOK,
         ReapRelease, ReleaseByInstance
    <3>2. Marked'
      BY <2>3, <1>0 DEF Marked, Refs, Terminal, IsTerminal, IsActive, TypeOK, ReapRelease,
         ReleaseByInstance
    <3>3. Ended'
      BY <2>3, <1>0 DEF Ended, Refs, StatusKept, Terminal, IsTerminal, IsActive, TypeOK,
         ReapRelease, ReleaseByInstance
    <3>4. NoBoot'
      BY <2>3, <1>0 DEF NoBoot, IsTerminal, IsActive, TypeOK, ReapRelease, ReleaseByInstance
    <3>5. Carried'
      BY <2>3, <1>0 DEF Carried, Up, Ended, Marked, Terminal, IsTerminal, IsActive, TypeOK,
         ReapRelease, ReleaseByInstance
    <3> QED BY <3>1, <3>2, <3>3, <3>4, <3>5 DEF Course
  <2>4. CASE ReapRetry
    <3>1. reap.ins \in Instance /\ ins[reap.ins] \in Row
      BY <2>4, ExistsRow DEF TypeOK, Refs, Row, Exists, ReapRetry
    <3>2. \A q \in Instance : ins'[q].status = ins[q].status /\ ins'[q].addr = ins[q].addr
      BY <2>4, <3>1 DEF TypeOK, Row, ReapRetry, WithRetry
    <3>3. Unsent'
      BY <2>4, <1>0, <3>2 DEF Unsent, Waiting, Refs, Active, Terminal, IsTerminal, IsActive,
         TypeOK, ReapRetry, WithRetry
    <3>4. Marked'
      BY <2>4, <1>0, <3>2 DEF Marked, Refs, Terminal, IsTerminal, IsActive, TypeOK, ReapRetry,
         WithRetry
    <3>5. Ended'
      BY <2>4, <1>0, <3>2 DEF Ended, Refs, StatusKept, Terminal, IsTerminal, IsActive, TypeOK,
         ReapRetry, WithRetry
    <3>6. NoBoot'
      BY <2>4, <1>0, <3>2 DEF NoBoot, IsTerminal, IsActive, TypeOK, ReapRetry, WithRetry
    <3>7. Carried'
      BY <2>4, <1>0, <3>2 DEF Carried, Up, Ended, Marked, Terminal, IsTerminal, IsActive, TypeOK,
         ReapRetry, WithRetry
    <3> QED BY <3>3, <3>4, <3>5, <3>6, <3>7 DEF Course
  <2> QED BY <1>4, <2>1, <2>2, <2>3, <2>4, ScanSets DEF Reaper, ReapScanActive, ReapScanUnbound
<1>5. CASE RetryPump
  <2>1. CASE PumpScan
    <3>1. Unsent'
      BY <2>1, <1>0 DEF Unsent, Waiting, Refs, Active, Terminal, IsTerminal, IsActive, TypeOK,
         PumpScan
    <3>2. Marked'
      BY <2>1, <1>0 DEF Marked, Refs, Terminal, IsTerminal, IsActive, TypeOK, PumpScan
    <3>3. Ended'
      BY <2>1, <1>0 DEF Ended, Refs, StatusKept, Terminal, Retryable, IsTerminal, IsActive, TypeOK,
         PumpScan
    <3>4. NoBoot'
      BY <2>1, <1>0 DEF NoBoot, IsTerminal, IsActive, TypeOK, PumpScan
    <3>5. Carried'
      BY <2>1, <1>0 DEF Carried, Up, Ended, Marked, Terminal, IsTerminal, IsActive, TypeOK, PumpScan
    <3> QED BY <3>1, <3>2, <3>3, <3>4, <3>5 DEF Course
  <2>2. ASSUME NEW i \in pump.todo, ClearNextRetryTime(i)  PROVE Course'
    <3>1. i \in Instance /\ ins[i] \in Row
      BY <2>2, ExistsRow DEF TypeOK, Refs, Row, Exists, ClearNextRetryTime
    <3>2. \A q \in Instance : ins'[q].status = ins[q].status /\ ins'[q].addr = ins[q].addr
      BY <2>2, <3>1 DEF TypeOK, Row, ClearNextRetryTime
    <3>3. Unsent'
      BY <2>2, <1>0, <3>2 DEF Unsent, Waiting, Refs, Active, Terminal, IsTerminal, IsActive,
         TypeOK, ClearNextRetryTime
    <3>4. Marked'
      BY <2>2, <1>0, <3>2 DEF Marked, Refs, Terminal, IsTerminal, IsActive, TypeOK,
         ClearNextRetryTime
    <3>5. Ended'
      BY <2>2, <1>0, <3>2 DEF Ended, Refs, StatusKept, Terminal, IsTerminal, IsActive, TypeOK,
         ClearNextRetryTime
    <3>6. NoBoot'
      BY <2>2, <1>0, <3>2 DEF NoBoot, IsTerminal, IsActive, TypeOK, ClearNextRetryTime
    <3>7. Carried'
      BY <2>2, <1>0, <3>2 DEF Carried, Up, Ended, Marked, Terminal, IsTerminal, IsActive, TypeOK,
         ClearNextRetryTime
    <3> QED BY <3>3, <3>4, <3>5, <3>6, <3>7 DEF Course
  <2>3. CASE ExistsRetryChild
    <3>1. Unsent'
      BY <2>3, <1>0 DEF Unsent, Waiting, Refs, Active, Terminal, IsTerminal, IsActive, TypeOK,
         ExistsRetryChild
    <3>2. Marked'
      BY <2>3, <1>0 DEF Marked, Refs, Terminal, IsTerminal, IsActive, TypeOK, ExistsRetryChild
    <3>3. Ended'
      BY <2>3, <1>0 DEF Ended, Refs, StatusKept, Terminal, IsTerminal, IsActive, TypeOK,
         ExistsRetryChild
    <3>4. NoBoot'
      BY <2>3, <1>0 DEF NoBoot, IsTerminal, IsActive, TypeOK, ExistsRetryChild
    <3>5. Carried'
      BY <2>3, <1>0 DEF Carried, Up, Ended, Marked, Terminal, IsTerminal, IsActive, TypeOK,
         ExistsRetryChild
    <3> QED BY <3>1, <3>2, <3>3, <3>4, <3>5 DEF Course
  <2>4. CASE PumpAcquire
    <3>1. Unsent'
      BY <2>4, <1>0 DEF Unsent, Waiting, Refs, Active, Terminal, IsTerminal, IsActive, TypeOK,
         PumpAcquire, TryAcquire
    <3>2. Marked'
      BY <2>4, <1>0 DEF Marked, Refs, Terminal, IsTerminal, IsActive, TypeOK, PumpAcquire,
         TryAcquire
    <3>3. Ended'
      BY <2>4, <1>0 DEF Ended, Refs, StatusKept, Terminal, IsTerminal, IsActive, TypeOK,
         PumpAcquire, TryAcquire
    <3>4. NoBoot'
      BY <2>4, <1>0 DEF NoBoot, IsTerminal, IsActive, TypeOK, PumpAcquire, TryAcquire
    <3>5. Carried'
      BY <2>4, <1>0 DEF Carried, Up, Ended, Marked, Terminal, IsTerminal, IsActive, TypeOK,
         PumpAcquire, TryAcquire
    <3> QED BY <3>1, <3>2, <3>3, <3>4, <3>5 DEF Course
  <2>5. CASE PumpDefer
    <3>1. pump.ins \in Instance /\ ins[pump.ins] \in Row
      BY <2>5, ExistsRow DEF TypeOK, Refs, Row, Exists, PumpDefer
    <3>2. \A q \in Instance : ins'[q].status = ins[q].status /\ ins'[q].addr = ins[q].addr
      BY <2>5, <3>1 DEF TypeOK, Row, PumpDefer
    <3>3. Unsent'
      BY <2>5, <1>0, <3>2 DEF Unsent, Waiting, Refs, Active, Terminal, IsTerminal, IsActive,
         TypeOK, PumpDefer
    <3>4. Marked'
      BY <2>5, <1>0, <3>2 DEF Marked, Refs, Terminal, IsTerminal, IsActive, TypeOK, PumpDefer
    <3>5. Ended'
      BY <2>5, <1>0, <3>2 DEF Ended, Refs, StatusKept, Terminal, IsTerminal, IsActive, TypeOK,
         PumpDefer
    <3>6. NoBoot'
      BY <2>5, <1>0, <3>2 DEF NoBoot, IsTerminal, IsActive, TypeOK, PumpDefer
    <3>7. Carried'
      BY <2>5, <1>0, <3>2 DEF Carried, Up, Ended, Marked, Terminal, IsTerminal, IsActive, TypeOK,
         PumpDefer
    <3> QED BY <3>3, <3>4, <3>5, <3>6, <3>7 DEF Course
  <2>6. ASSUME NEW k \in Instance, PumpCreate(k)  PROVE Course'
    <3>1. Unsent'
      BY <2>6, <1>0 DEF Unsent, Waiting, Refs, Active, Terminal, IsTerminal, IsActive, TypeOK,
         PumpCreate, NewRow, Goto, IsNextId
    <3>2. Marked'
      BY <2>6, <1>0 DEF Marked, Refs, Terminal, IsTerminal, IsActive, TypeOK, PumpCreate, NewRow,
         Goto, IsNextId
    <3>3. Ended'
      BY <2>6, <1>0 DEF Ended, Refs, StatusKept, Terminal, IsTerminal, IsActive, TypeOK,
         PumpCreate, NewRow, Goto, IsNextId
    <3>4. NoBoot'
      BY <2>6, <1>0 DEF NoBoot, IsTerminal, IsActive, TypeOK, PumpCreate, NewRow, Goto, IsNextId
    <3>5. Carried'
      BY <2>6, <1>0 DEF Carried, Up, Ended, Marked, Terminal, IsTerminal, IsActive, TypeOK,
         PumpCreate, NewRow, Goto, IsNextId
    <3> QED BY <3>1, <3>2, <3>3, <3>4, <3>5 DEF Course
  <2>7. CASE PumpCreateFails
    <3>1. Unsent'
      BY <2>7, <1>0 DEF Unsent, Waiting, Refs, Active, Terminal, IsTerminal, IsActive, TypeOK,
         PumpCreateFails, ReleaseByJob
    <3>2. Marked'
      BY <2>7, <1>0 DEF Marked, Refs, Terminal, IsTerminal, IsActive, TypeOK, PumpCreateFails,
         ReleaseByJob
    <3>3. Ended'
      BY <2>7, <1>0 DEF Ended, Refs, StatusKept, Terminal, IsTerminal, IsActive, TypeOK,
         PumpCreateFails, ReleaseByJob
    <3>4. NoBoot'
      BY <2>7, <1>0 DEF NoBoot, IsTerminal, IsActive, TypeOK, PumpCreateFails, ReleaseByJob
    <3>5. Carried'
      BY <2>7, <1>0 DEF Carried, Up, Ended, Marked, Terminal, IsTerminal, IsActive, TypeOK,
         PumpCreateFails, ReleaseByJob
    <3> QED BY <3>1, <3>2, <3>3, <3>4, <3>5 DEF Course
  <2> QED BY <1>5, <2>1, <2>2, <2>3, <2>4, <2>5, <2>6, <2>7 DEF RetryPump
<1>6. CASE Registry
  <2>1. ASSUME NEW w \in Worker, Heartbeat(w)  PROVE Course'
    <3>1. Unsent'
      BY <2>1, <1>0 DEF Unsent, Waiting, Refs, Active, Terminal, IsTerminal, IsActive, TypeOK,
         Heartbeat
    <3>2. Marked'
      BY <2>1, <1>0 DEF Marked, Refs, Terminal, IsTerminal, IsActive, TypeOK, Heartbeat
    <3>3. Ended'
      BY <2>1, <1>0 DEF Ended, Refs, StatusKept, Terminal, IsTerminal, IsActive, TypeOK, Heartbeat
    <3>4. NoBoot'
      BY <2>1, <1>0 DEF NoBoot, IsTerminal, IsActive, TypeOK, Heartbeat
    <3>5. Carried'
      BY <2>1, <1>0 DEF Carried, Up, Ended, Marked, Terminal, IsTerminal, IsActive, TypeOK,
         Heartbeat
    <3> QED BY <3>1, <3>2, <3>3, <3>4, <3>5 DEF Course
  <2>2. ASSUME NEW w \in Worker, HeartbeatExpires(w)  PROVE Course'
    <3>1. Unsent'
      BY <2>2, <1>0 DEF Unsent, Waiting, Refs, Active, Terminal, IsTerminal, IsActive, TypeOK,
         HeartbeatExpires, Spend
    <3>2. Marked'
      BY <2>2, <1>0 DEF Marked, Refs, Terminal, IsTerminal, IsActive, TypeOK, HeartbeatExpires,
         Spend
    <3>3. Ended'
      BY <2>2, <1>0 DEF Ended, Refs, StatusKept, Terminal, IsTerminal, IsActive, TypeOK,
         HeartbeatExpires, Spend
    <3>4. NoBoot'
      BY <2>2, <1>0 DEF NoBoot, IsTerminal, IsActive, TypeOK, HeartbeatExpires, Spend
    <3>5. Carried'
      BY <2>2, <1>0 DEF Carried, Up, Ended, Marked, Terminal, IsTerminal, IsActive, TypeOK,
         HeartbeatExpires, Spend
    <3> QED BY <3>1, <3>2, <3>3, <3>4, <3>5 DEF Course
  <2>3. CASE Sweep
    <3>1. Unsent'
      BY <2>3, <1>0 DEF Unsent, Waiting, Refs, Active, Terminal, IsTerminal, IsActive, TypeOK, Sweep
    <3>2. Marked'
      BY <2>3, <1>0 DEF Marked, Refs, Terminal, IsTerminal, IsActive, TypeOK, Sweep
    <3>3. Ended'
      BY <2>3, <1>0 DEF Ended, Refs, StatusKept, Terminal, IsTerminal, IsActive, TypeOK, Sweep
    <3>4. NoBoot'
      BY <2>3, <1>0 DEF NoBoot, IsTerminal, IsActive, TypeOK, Sweep
    <3>5. Carried'
      BY <2>3, <1>0 DEF Carried, Up, Ended, Marked, Terminal, IsTerminal, IsActive, TypeOK, Sweep
    <3> QED BY <3>1, <3>2, <3>3, <3>4, <3>5 DEF Course
  <2>4. CASE WarmupEnds
    <3>1. Unsent'
      BY <2>4, <1>0 DEF Unsent, Waiting, Refs, Active, Terminal, IsTerminal, IsActive, TypeOK,
         WarmupEnds
    <3>2. Marked'
      BY <2>4, <1>0 DEF Marked, Refs, Terminal, IsTerminal, IsActive, TypeOK, WarmupEnds
    <3>3. Ended'
      BY <2>4, <1>0 DEF Ended, Refs, StatusKept, Terminal, IsTerminal, IsActive, TypeOK, WarmupEnds
    <3>4. NoBoot'
      BY <2>4, <1>0 DEF NoBoot, IsTerminal, IsActive, TypeOK, WarmupEnds
    <3>5. Carried'
      BY <2>4, <1>0 DEF Carried, Up, Ended, Marked, Terminal, IsTerminal, IsActive, TypeOK,
         WarmupEnds
    <3> QED BY <3>1, <3>2, <3>3, <3>4, <3>5 DEF Course
  <2> QED BY <1>6, <2>1, <2>2, <2>3, <2>4 DEF Registry
<1>7. CASE Recovery
  <2>1. ASSUME NEW i \in Instance, RecoverStaleActive(i)  PROVE Course'
    <3>1. i \in Instance /\ ins[i] \in Row
      BY <2>1, ExistsRow DEF TypeOK, Refs, Row, Exists, RecoverStaleActive, IsActive, Active
    <3>2. Unsent'
      BY <2>1, <1>0, <3>1 DEF Unsent, Waiting, Refs, Active, Terminal, IsTerminal, IsActive,
         TypeOK, RecoverStaleActive
    <3>3. Marked'
      BY <2>1, <1>0, <3>1 DEF Marked, Refs, Terminal, IsTerminal, IsActive, TypeOK,
         RecoverStaleActive
    <3>4. Ended'
      BY <2>1, <1>0, <3>1 DEF Ended, Refs, StatusKept, Terminal, IsTerminal, IsActive, TypeOK,
         RecoverStaleActive
    <3>5. NoBoot'
      BY <2>1, <1>0, <3>1 DEF NoBoot, IsTerminal, IsActive, TypeOK, RecoverStaleActive
    <3>6. Carried'
      BY <2>1, <1>0, <3>1 DEF Carried, Up, Ended, Marked, Terminal, IsTerminal, IsActive, TypeOK,
         RecoverStaleActive
    <3> QED BY <3>2, <3>3, <3>4, <3>5, <3>6 DEF Course
  <2>2. CASE RecoverRetry
    <3>1. boot \in Instance /\ ins[boot] \in Row
      BY <2>2, ExistsRow DEF TypeOK, Refs, Row, Exists, RecoverRetry
    <3>2. \A q \in Instance : ins'[q].status = ins[q].status /\ ins'[q].addr = ins[q].addr
      BY <2>2, <3>1 DEF TypeOK, Row, RecoverRetry, WithRetry
    <3>3. Unsent'
      BY <2>2, <1>0, <3>2 DEF Unsent, Waiting, Refs, Active, Terminal, IsTerminal, IsActive,
         TypeOK, RecoverRetry, WithRetry
    <3>4. Marked'
      BY <2>2, <1>0, <3>2 DEF Marked, Refs, Terminal, IsTerminal, IsActive, TypeOK, RecoverRetry,
         WithRetry
    <3>5. Ended'
      BY <2>2, <1>0, <3>2 DEF Ended, Refs, StatusKept, Terminal, IsTerminal, IsActive, TypeOK,
         RecoverRetry, WithRetry
    <3>6. NoBoot'
      BY <2>2, <1>0, <3>2 DEF NoBoot, IsTerminal, IsActive, TypeOK, RecoverRetry, WithRetry
    <3>7. Carried'
      BY <2>2, <1>0, <3>2 DEF Carried, Up, Ended, Marked, Terminal, IsTerminal, IsActive, TypeOK,
         RecoverRetry, WithRetry
    <3> QED BY <3>3, <3>4, <3>5, <3>6, <3>7 DEF Course
  <2>3. CASE RecoverQueued
    <3>6. /\ \A i \in Instance : task'[i] # "idle" => task'[i] = "queue" /\ ins[i].status = "queued"
          /\ ~DbFaults => \A i \in Instance : ins[i].status = "queued" => task'[i] = "queue"
      BY <2>3 DEF RecoverQueued, Queued
    <3>1. Unsent'
      BY <2>3, <1>0, <3>6 DEF Unsent, Waiting, Refs, Active, Terminal, Marked, NoBoot, NoResend,
         IsTerminal, IsActive, TypeOK, RecoverQueued
    <3>2. Marked'
      BY <2>3, <1>0, <3>6 DEF Marked, Refs, Terminal, IsTerminal, IsActive, TypeOK, RecoverQueued
    <3>3. Ended'
      BY <2>3, <1>0, <3>6 DEF Ended, Refs, StatusKept, Terminal, IsTerminal, IsActive, TypeOK,
         RecoverQueued
    <3>4. NoBoot'
      BY <2>3, <1>0 DEF NoBoot, IsTerminal, IsActive, TypeOK, RecoverQueued
    <3>5. Carried'
      BY <2>3, <1>0, <3>6 DEF Carried, Up, RecoverQueued
    <3> QED BY <3>1, <3>2, <3>3, <3>4, <3>5 DEF Course
  <2> QED BY <1>7, <2>1, <2>2, <2>3 DEF Recovery
<1>8. CASE Crash
  <2>1. Unsent'
    BY <1>8, <1>0 DEF Unsent, Waiting, Crash, TypeOK, IsTerminal, IsActive
  <2>2. Marked'
    BY <1>8, <1>0 DEF Marked, Crash, TypeOK, IsTerminal, IsActive
  <2>3. Ended'
    BY <1>8, <1>0 DEF Ended, Crash, TypeOK, IsTerminal, IsActive
  <2>4. NoBoot'
    BY <1>8, <1>0, SchedulerAssumption DEF NoBoot, Spend, Crash, TypeOK, IsTerminal, IsActive,
       SchedulerAssumption
  <2>5. Carried'
    BY <1>8, <1>0 DEF Carried, Up, Crash, TypeOK, IsTerminal, IsActive
  <2> QED BY <2>1, <2>2, <2>3, <2>4, <2>5 DEF Course
<1>9. CASE UNCHANGED vars
  BY <1>9 DEF vars, Unsent, Marked, Ended, NoBoot, Carried, Up, IsTerminal, IsActive, Course
<1> QED BY <1>1, <1>2, <1>3, <1>4, <1>5, <1>6, <1>7, <1>8, <1>9 DEF Next

LEMMA CourseInvariant == Spec => []Course
<1>1. Init => Course
  <2> SUFFICES ASSUME Init PROVE Course
    OBVIOUS
  <2>1. Unsent
    BY DEF Init, Unsent, Waiting
  <2>2. Marked
    BY DEF Init, Marked
  <2>3. Ended
    BY DEF Init, Ended
  <2>4. NoBoot
    BY DEF Init, NoBoot
  <2>5. Carried
    BY DEF Init, Carried, Absent
  <2> QED BY <2>1, <2>2, <2>3, <2>4, <2>5 DEF Course
<1>2. HeldInv /\ Course /\ [Next]_vars => Course'
  BY NextCourse DEF HeldInv
<1> QED BY <1>1, <1>2, HeldInvariant, PTL DEF Spec

\* A row is sent at most once, also when the POST fails, a call of the database fails, the
\* row is stopped or the server restarts: as long as workers do not hand rows back or the
\* server does not crash.  A row handed back before a crash is queued by RecoverQueued
\* like one that was never sent, so with both there is nothing to prove.
THEOREM SentOnce ==
  ASSUME "queued" \notin Reports \/ MaxCrashes = 0
  PROVE  Spec => []NoRedelivery
<1>1. Course => NoRedelivery
  BY DEF Course, Unsent, NoResend, Waiting, NoRedelivery
<1> QED BY <1>1, CourseInvariant, PTL

\* Without failing calls of the database, a queued row has a timer, a queue item or a
\* goroutine, through crashes as well; the workers of this theorem do not hand rows back.
THEOREM NobodyStranded ==
  ASSUME "queued" \notin Reports, ~DbFaults
  PROVE  Spec => []NothingStranded
<1>1. Course => NothingStranded
  BY DEF Course, Carried, NothingStranded
<1> QED BY <1>1, CourseInvariant, PTL

\* And when they do, the row is unbound, as the reaper's scan of unbound rows wants it:
\* a scheduled run or a retry is found by it (a manual run is not, which is the finding
\* of the run handed_back).
THEOREM HandedBackFound ==
  ASSUME ~DbFaults
  PROVE  Spec => [](Up => \A i \in Instance : ins[i].status = "queued" =>
                            task[i] # "idle" \/ ins[i].addr = None)
<1>1. Course => (Up => \A i \in Instance : ins[i].status = "queued" =>
                            task[i] # "idle" \/ ins[i].addr = None)
  BY DEF Course, Carried
<1> QED BY <1>1, CourseInvariant, PTL
-----------------------------------------------------------------------------
(* The in-flight counts of the registry. *)

\* A worker's address is in held only for a row that is bound and whose dispatch is over;
\* whoever owes its worker a lowered count has taken it out of held.
AddrHeld ==
  /\ \A i \in Instance : haddr[i] # None => i \in held /\ task[i] = "idle"
  /\ \A i \in Instance : owed[i] # None => i \notin held /\ task[i] = "idle"
  /\ phase = "boot" => \A i \in Instance : owed[i] = None

\* Never more than the rows sent; exactly those while no heartbeat can expire, because
\* only the sweep of an expired worker forgets a count.
Counts ==
  /\ \A w \in Worker : inflight[w] <= Cardinality(SentTo(w))
  /\ MaxExpiries = 0 => /\ known = online
                        /\ \A w \in Worker : inflight[w] = Cardinality(SentTo(w))

LEMMA SentFinite ==
  ASSUME TypeOK, NEW w
  PROVE  IsFiniteSet(SentTo(w)) /\ Cardinality(SentTo(w)) \in Nat
<1>1. SentTo(w) \in SUBSET Instance
  BY DEF SentTo, TypeOK
<1> QED BY <1>1, SchedulerAssumption, FS_Subset, FS_CardinalityType DEF SchedulerAssumption

LEMMA SameCounts ==
  ASSUME Counts, UNCHANGED <<held, haddr, inflight, owed, known, online>>
  PROVE  Counts'
BY DEF Counts, SentTo

\* A release hands the row from held to its releaser: the worker still counts it.
LEMMA ReleaseCounts ==
  ASSUME TypeOK, AddrHeld, Counts, NEW i \in Instance, ReleaseByInstance(i),
         UNCHANGED <<inflight, known, online>>
  PROVE  Counts'
<1>1. \A w \in Worker : SentTo(w)' = SentTo(w)
  BY SchedulerAssumption DEF SentTo, AddrHeld, ReleaseByInstance, TypeOK, SchedulerAssumption
<1> QED BY <1>1 DEF Counts

\* Lowering the count takes one row off the worker's set and one off its count.
LEMMA LowerCounts ==
  ASSUME TypeOK, AddrHeld, Counts, NEW i \in Instance, LowerInflight(i)
  PROVE  Counts'
<1>0. owed[i] \in Worker /\ i \notin held /\ UNCHANGED <<held, haddr, known, online>>
  BY DEF LowerInflight, AddrHeld, TypeOK
<1> SUFFICES ASSUME NEW w \in Worker
             PROVE  /\ inflight'[w] <= Cardinality(SentTo(w)')
                    /\ inflight[w] = Cardinality(SentTo(w)) => inflight'[w] = Cardinality(SentTo(w)')
  BY <1>0 DEF Counts
<1>1. /\ inflight[w] \in Nat /\ inflight[w] <= Cardinality(SentTo(w))
      /\ Cardinality(SentTo(w)) \in Nat /\ IsFiniteSet(SentTo(w))
  BY SentFinite DEF Counts, TypeOK
<1>2. CASE owed[i] = w
  <2>1. SentTo(w)' = SentTo(w) \ {i} /\ i \in SentTo(w)
    BY <1>0, <1>2, SchedulerAssumption DEF SentTo, LowerInflight, TypeOK, SchedulerAssumption
  <2>2. Cardinality(SentTo(w)') = Cardinality(SentTo(w)) - 1
    BY <1>1, <2>1, FS_RemoveElement
  <2>3. inflight'[w] = Dec(inflight[w])
    BY <1>2 DEF LowerInflight, TypeOK
  <2>4. Cardinality(SentTo(w)) >= 1
    BY <1>1, <2>1, FS_EmptySet
  <2> QED BY <1>1, <2>2, <2>3, <2>4 DEF Dec
<1>3. CASE owed[i] # w
  <2>1. SentTo(w)' = SentTo(w)
    BY <1>0, <1>3, SchedulerAssumption DEF SentTo, LowerInflight, TypeOK, SchedulerAssumption
  <2>2. inflight'[w] = inflight[w]
    BY <1>3 DEF LowerInflight, TypeOK
  <2> QED BY <1>1, <2>1, <2>2
<1> QED BY <1>2, <1>3

LEMMA NextCounts ==
  ASSUME TypeOK, Refs, Quiet, AddrHeld, Counts, [Next]_vars
  PROVE  AddrHeld' /\ Counts'
<1>1. ASSUME NEW j \in Job, Trigger(j)  PROVE AddrHeld' /\ Counts'
  <2>1. CASE AutoAcquire(j)
    <3>1. AddrHeld'
      BY <2>1, SchedulerAssumption DEF AddrHeld, TypeOK, Refs, SchedulerAssumption, AutoAcquire,
         TryAcquire
    <3>2. Counts'
      BY <2>1, SameCounts DEF AutoAcquire
    <3> QED BY <3>1, <3>2
  <2>2. CASE AutoAbandon(j)
    <3>1. AddrHeld'
      BY <2>2, SchedulerAssumption DEF AddrHeld, TypeOK, Refs, SchedulerAssumption, AutoAbandon,
         ReleaseByJob
    <3>2. Counts'
      BY <2>2, SameCounts DEF AutoAbandon
    <3> QED BY <3>1, <3>2
  <2>3. ASSUME NEW i \in Instance, AutoCreate(j, i)  PROVE AddrHeld' /\ Counts'
    <3>1. AddrHeld'
      BY <2>3, SchedulerAssumption DEF AddrHeld, TypeOK, Refs, SchedulerAssumption, AutoCreate,
         Goto, NewRow, IsNextId
    <3>2. Counts'
      BY <2>3, SameCounts DEF AutoCreate
    <3> QED BY <3>1, <3>2
  <2>4. ASSUME NEW i \in Instance, SubmitManual(j, i)  PROVE AddrHeld' /\ Counts'
    <3>1. AddrHeld'
      BY <2>4, SchedulerAssumption DEF AddrHeld, TypeOK, Refs, SchedulerAssumption, SubmitManual,
         Goto, NewRow, IsNextId
    <3>2. Counts'
      BY <2>4, SameCounts DEF SubmitManual
    <3> QED BY <3>1, <3>2
  <2> QED BY <1>1, <2>1, <2>2, <2>3, <2>4 DEF Trigger
<1>2. ASSUME NEW i \in Instance, Dispatch(i)  PROVE AddrHeld' /\ Counts'
  <2>1. CASE PushPending(i)
    <3>1. AddrHeld'
      BY <2>1, SchedulerAssumption DEF AddrHeld, TypeOK, Refs, SchedulerAssumption, PushPending,
         Goto
    <3>2. Counts'
      BY <2>1, SameCounts DEF PushPending
    <3> QED BY <3>1, <3>2
  <2>2. CASE PopPending(i)
    <3>1. AddrHeld'
      BY <2>2, SchedulerAssumption DEF AddrHeld, TypeOK, Refs, SchedulerAssumption, PopPending,
         Goto, TryAcquire
    <3>2. Counts'
      BY <2>2, SameCounts DEF PopPending
    <3> QED BY <3>1, <3>2
  <2>3. CASE DropPending(i)
    <3>1. AddrHeld'
      BY <2>3, SchedulerAssumption DEF AddrHeld, TypeOK, Refs, SchedulerAssumption, DropPending,
         Goto
    <3>2. Counts'
      BY <2>3, SameCounts DEF DropPending
    <3> QED BY <3>1, <3>2
  <2>4. CASE CheckPending(i)
    <3>1. AddrHeld'
      BY <2>4, SchedulerAssumption DEF AddrHeld, TypeOK, Refs, SchedulerAssumption, CheckPending,
         Goto, ReleaseByJob
    <3>2. Counts'
      BY <2>4, SameCounts DEF CheckPending
    <3> QED BY <3>1, <3>2
  <2>5. CASE Bind(i)
    <3>1. AddrHeld'
      BY <2>5, SchedulerAssumption DEF AddrHeld, TypeOK, Refs, SchedulerAssumption, Bind, Goto,
         BindHeld
    <3>2. \A w \in Worker : SentTo(w)' = SentTo(w)
      BY <2>5, SchedulerAssumption DEF Bind, BindHeld, AddrHeld, SentTo, TypeOK, SchedulerAssumption
    <3>3. Counts'
      BY <2>5, <3>2 DEF Bind, Counts
    <3> QED BY <3>1, <3>3
  <2>6. CASE PickWorker(i)
    <3>1. AddrHeld'
      BY <2>6, SchedulerAssumption DEF AddrHeld, TypeOK, Refs, SchedulerAssumption, PickWorker,
         Goto, SetTarget, Candidates
    <3>2. Counts'
      BY <2>6, SameCounts DEF PickWorker
    <3> QED BY <3>1, <3>2
  <2>7. CASE HasOnlineWorker(i)
    <3>1. AddrHeld'
      BY <2>7, SchedulerAssumption DEF AddrHeld, TypeOK, Refs, SchedulerAssumption,
         HasOnlineWorker, Goto
    <3>2. Counts'
      BY <2>7, SameCounts DEF HasOnlineWorker
    <3> QED BY <3>1, <3>2
  <2>8. CASE MarkDispatched(i)
    <3>1. AddrHeld'
      BY <2>8, SchedulerAssumption DEF AddrHeld, TypeOK, Refs, SchedulerAssumption, MarkDispatched,
         Goto
    <3>2. Counts'
      BY <2>8, SameCounts DEF MarkDispatched
    <3> QED BY <3>1, <3>2
  <2>9. CASE Send(i)
    <3>1. AddrHeld'
      BY <2>9, SchedulerAssumption DEF AddrHeld, TypeOK, Refs, SchedulerAssumption, Send, Goto
    <3>2. Counts'
      BY <2>9, SameCounts DEF Send
    <3> QED BY <3>1, <3>2
  <2>10. CASE Sent(i)
    <3>1. AddrHeld'
      BY <2>10, SchedulerAssumption DEF AddrHeld, TypeOK, Refs, SchedulerAssumption, Sent, Goto,
         SetTarget, BindWorkerAddr
    <3>2. CASE i \in held
      <4>1. target[i] \in Worker /\ haddr[i] = None /\ owed[i] = None /\ known' = known /\ online' = online
        BY <2>10 DEF Sent, Refs, AddrHeld, TypeOK
      <4>2. ASSUME NEW w \in Worker
            PROVE  /\ inflight'[w] <= Cardinality(SentTo(w)')
                   /\ inflight[w] = Cardinality(SentTo(w)) => inflight'[w] = Cardinality(SentTo(w)')
        <5>0. /\ inflight[w] \in Nat /\ inflight[w] <= Cardinality(SentTo(w))
              /\ Cardinality(SentTo(w)) \in Nat /\ IsFiniteSet(SentTo(w))
          BY SentFinite DEF Counts, TypeOK
        <5>1. CASE w = target[i]
          <6>1. i \notin SentTo(w)
            BY <4>1, SchedulerAssumption DEF SentTo, SchedulerAssumption
          <6>2. SentTo(w)' = SentTo(w) \cup {i}
            BY <2>10, <3>2, <4>1, <5>1 DEF SentTo, Sent, BindWorkerAddr, TypeOK
          <6>3. inflight'[w] = inflight[w] + 1
            BY <2>10, <3>2, <5>1 DEF Sent, BindWorkerAddr, TypeOK
          <6>4. Cardinality(SentTo(w)') = Cardinality(SentTo(w)) + 1
            BY <5>0, <6>1, <6>2, FS_AddElement
          <6> QED BY <5>0, <6>3, <6>4
        <5>2. CASE w # target[i]
          <6>1. SentTo(w)' = SentTo(w)
            BY <2>10, <3>2, <4>1, <5>2, SchedulerAssumption
            DEF SentTo, Sent, BindWorkerAddr, TypeOK, SchedulerAssumption
          <6>2. inflight'[w] = inflight[w]
            BY <2>10, <3>2, <4>1, <5>2 DEF Sent, BindWorkerAddr, TypeOK
          <6> QED BY <5>0, <6>1, <6>2
        <5> QED BY <5>1, <5>2
      <4> QED BY <3>1, <4>1, <4>2 DEF Counts
    <3>3. CASE i \notin held
      BY <2>10, <3>1, <3>3, SameCounts DEF Sent, BindWorkerAddr
    <3> QED BY <3>1, <3>2, <3>3
  <2>11. CASE FailDispatch(i)
    <3>1. AddrHeld'
      BY <2>11, SchedulerAssumption DEF AddrHeld, TypeOK, Refs, SchedulerAssumption, FailDispatch,
         Goto, SetTarget
    <3>2. Counts'
      BY <2>11, SameCounts DEF FailDispatch
    <3> QED BY <3>1, <3>2
  <2>12. CASE ReleaseTask(i)
    <3>1. AddrHeld'
      BY <2>12, SchedulerAssumption DEF AddrHeld, TypeOK, Refs, SchedulerAssumption, ReleaseTask,
         Goto, SetTarget, AfterRelease, ReleaseByInstance
    <3>2. Counts'
      BY <2>12, ReleaseCounts DEF Refs, TypeOK, ReleaseTask
    <3> QED BY <3>1, <3>2
  <2>13. CASE RetryTask(i)
    <3>1. AddrHeld'
      BY <2>13, SchedulerAssumption DEF AddrHeld, TypeOK, Refs, SchedulerAssumption, RetryTask,
         Goto, WithRetry
    <3>2. Counts'
      BY <2>13, SameCounts DEF RetryTask
    <3> QED BY <3>1, <3>2
  <2>14. CASE RequeueAfterNoWorker(i)
    <3>1. AddrHeld'
      BY <2>14, SchedulerAssumption DEF AddrHeld, TypeOK, Refs, SchedulerAssumption,
         RequeueAfterNoWorker, Goto
    <3>2. Counts'
      BY <2>14, SameCounts DEF RequeueAfterNoWorker
    <3> QED BY <3>1, <3>2
  <2> QED BY <1>2, <2>1, <2>2, <2>3, <2>4, <2>5, <2>6, <2>7, <2>8, <2>9, <2>10, <2>11, <2>12,
     <2>13, <2>14 DEF Dispatch
<1>3. ASSUME NEW i \in Instance, Handle(i)  PROVE AddrHeld' /\ Counts'
  <2>1. ASSUME NEW w \in Worker, NEW s \in Reports, Report(i, w, s)  PROVE AddrHeld' /\ Counts'
    <3>1. AddrHeld'
      BY <2>1, SchedulerAssumption DEF AddrHeld, TypeOK, Refs, SchedulerAssumption, Report, Written
    <3>2. Counts'
      BY <2>1, SameCounts DEF Report
    <3> QED BY <3>1, <3>2
  <2>2. ASSUME NEW s \in StopStatuses, Stop(i, s)  PROVE AddrHeld' /\ Counts'
    <3>1. AddrHeld'
      BY <2>2, SchedulerAssumption DEF AddrHeld, TypeOK, Refs, SchedulerAssumption, Stop, Spend
    <3>2. Counts'
      BY <2>2, SameCounts DEF Stop
    <3> QED BY <3>1, <3>2
  <2>3. CASE ReleaseInFlight(i)
    <3>1. AddrHeld'
      BY <2>3 DEF AddrHeld, Quiet, TypeOK, ReleaseInFlight, ReleaseByInstance
    <3>2. Counts'
      BY <2>3, ReleaseCounts DEF Refs, TypeOK, ReleaseInFlight
    <3> QED BY <3>1, <3>2
  <2>4. CASE Retry(i)
    <3>1. AddrHeld'
      BY <2>4, SchedulerAssumption DEF AddrHeld, TypeOK, Refs, SchedulerAssumption, Retry, Spend
    <3>2. Counts'
      BY <2>4, SameCounts DEF Retry
    <3> QED BY <3>1, <3>2
  <2>5. CASE LowerInflight(i)
    <3>1. AddrHeld'
      BY <2>5 DEF AddrHeld, TypeOK, LowerInflight
    <3>2. Counts'
      BY <2>5, LowerCounts
    <3> QED BY <3>1, <3>2
  <2> QED BY <1>3, <2>1, <2>2, <2>3, <2>4, <2>5 DEF Handle
<1>4. CASE Reaper
  <2>1. ASSUME NEW S \in SUBSET {k \in Instance : Exists(k)}, ReapScan(S)  PROVE AddrHeld' /\ Counts'
    <3>1. AddrHeld'
      BY <2>1, SchedulerAssumption DEF AddrHeld, TypeOK, Refs, SchedulerAssumption, ReapScan, Seen
    <3>2. Counts'
      BY <2>1, SameCounts DEF ReapScan
    <3> QED BY <3>1, <3>2
  <2>2. ASSUME NEW r \in reap.todo, ReapJudge(r)  PROVE AddrHeld' /\ Counts'
    <3>1. AddrHeld'
      BY <2>2, SchedulerAssumption DEF AddrHeld, TypeOK, Refs, SchedulerAssumption, ReapJudge
    <3>2. Counts'
      BY <2>2, SameCounts DEF ReapJudge
    <3> QED BY <3>1, <3>2
  <2>3. CASE ReapRelease
    <3>1. AddrHeld'
      BY <2>3 DEF AddrHeld, Quiet, TypeOK, ReapRelease, ReleaseByInstance
    <3>2. Counts'
      BY <2>3, ReleaseCounts DEF Refs, TypeOK, ReapRelease
    <3> QED BY <3>1, <3>2
  <2>4. CASE ReapRetry
    <3>1. AddrHeld'
      BY <2>4, SchedulerAssumption DEF AddrHeld, TypeOK, Refs, SchedulerAssumption, ReapRetry,
         WithRetry
    <3>2. Counts'
      BY <2>4, SameCounts DEF ReapRetry
    <3> QED BY <3>1, <3>2
  <2> QED BY <1>4, <2>1, <2>2, <2>3, <2>4, ScanSets DEF Reaper, ReapScanActive, ReapScanUnbound
<1>5. CASE RetryPump
  <2>1. CASE PumpScan
    <3>1. AddrHeld'
      BY <2>1, SchedulerAssumption DEF AddrHeld, TypeOK, Refs, SchedulerAssumption, PumpScan
    <3>2. Counts'
      BY <2>1, SameCounts DEF PumpScan
    <3> QED BY <3>1, <3>2
  <2>2. ASSUME NEW i \in pump.todo, ClearNextRetryTime(i)  PROVE AddrHeld' /\ Counts'
    <3>1. AddrHeld'
      BY <2>2, SchedulerAssumption DEF AddrHeld, TypeOK, Refs, SchedulerAssumption,
         ClearNextRetryTime
    <3>2. Counts'
      BY <2>2, SameCounts DEF ClearNextRetryTime
    <3> QED BY <3>1, <3>2
  <2>3. CASE ExistsRetryChild
    <3>1. AddrHeld'
      BY <2>3, SchedulerAssumption DEF AddrHeld, TypeOK, Refs, SchedulerAssumption, ExistsRetryChild
    <3>2. Counts'
      BY <2>3, SameCounts DEF ExistsRetryChild
    <3> QED BY <3>1, <3>2
  <2>4. CASE PumpAcquire
    <3>1. AddrHeld'
      BY <2>4, SchedulerAssumption DEF AddrHeld, TypeOK, Refs, SchedulerAssumption, PumpAcquire,
         TryAcquire
    <3>2. Counts'
      BY <2>4, SameCounts DEF PumpAcquire
    <3> QED BY <3>1, <3>2
  <2>5. CASE PumpDefer
    <3>1. AddrHeld'
      BY <2>5, SchedulerAssumption DEF AddrHeld, TypeOK, Refs, SchedulerAssumption, PumpDefer
    <3>2. Counts'
      BY <2>5, SameCounts DEF PumpDefer
    <3> QED BY <3>1, <3>2
  <2>6. ASSUME NEW k \in Instance, PumpCreate(k)  PROVE AddrHeld' /\ Counts'
    <3>1. AddrHeld'
      BY <2>6, SchedulerAssumption DEF AddrHeld, TypeOK, Refs, SchedulerAssumption, PumpCreate,
         NewRow, Goto, IsNextId
    <3>2. Counts'
      BY <2>6, SameCounts DEF PumpCreate
    <3> QED BY <3>1, <3>2
  <2>7. CASE PumpCreateFails
    <3>1. AddrHeld'
      BY <2>7, SchedulerAssumption DEF AddrHeld, TypeOK, Refs, SchedulerAssumption,
         PumpCreateFails, ReleaseByJob
    <3>2. Counts'
      BY <2>7, SameCounts DEF PumpCreateFails
    <3> QED BY <3>1, <3>2
  <2> QED BY <1>5, <2>1, <2>2, <2>3, <2>4, <2>5, <2>6, <2>7 DEF RetryPump
<1>6. CASE Registry
  <2>1. ASSUME NEW w \in Worker, Heartbeat(w)  PROVE AddrHeld' /\ Counts'
    <3>1. AddrHeld'
      BY <2>1, SchedulerAssumption DEF AddrHeld, TypeOK, Refs, SchedulerAssumption, Heartbeat
    <3>2. Counts'
      BY <2>1 DEF Heartbeat, Counts, SentTo
    <3> QED BY <3>1, <3>2
  <2>2. ASSUME NEW w \in Worker, HeartbeatExpires(w)  PROVE AddrHeld' /\ Counts'
    <3>1. AddrHeld'
      BY <2>2, SchedulerAssumption DEF AddrHeld, TypeOK, Refs, SchedulerAssumption,
         HeartbeatExpires, Spend
    <3>2. MaxExpiries # 0
      BY <2>2 DEF HeartbeatExpires, Spend, TypeOK
    <3>3. Counts'
      BY <2>2, <3>2 DEF HeartbeatExpires, Counts, SentTo
    <3> QED BY <3>1, <3>3
  <2>3. CASE Sweep
    <3>1. AddrHeld'
      BY <2>3, SchedulerAssumption DEF AddrHeld, TypeOK, Refs, SchedulerAssumption, Sweep
    <3>2. ASSUME NEW w \in Worker PROVE inflight'[w] <= Cardinality(SentTo(w)')
      <4>1. SentTo(w)' = SentTo(w)
        BY <2>3 DEF Sweep, SentTo
      <4>2. inflight'[w] \in {0, inflight[w]}
        BY <2>3 DEF Sweep
      <4> QED BY <4>1, <4>2, SentFinite DEF Counts
    <3>3. MaxExpiries # 0
      BY <2>3 DEF Sweep, Counts
    <3>4. Counts'
      BY <3>2, <3>3 DEF Counts
    <3> QED BY <3>1, <3>4
  <2>4. CASE WarmupEnds
    <3>1. AddrHeld'
      BY <2>4, SchedulerAssumption DEF AddrHeld, TypeOK, Refs, SchedulerAssumption, WarmupEnds
    <3>2. Counts'
      BY <2>4, SameCounts DEF WarmupEnds
    <3> QED BY <3>1, <3>2
  <2> QED BY <1>6, <2>1, <2>2, <2>3, <2>4 DEF Registry
<1>7. CASE Recovery
  <2>1. ASSUME NEW i \in Instance, RecoverStaleActive(i)  PROVE AddrHeld' /\ Counts'
    <3>1. AddrHeld'
      BY <2>1, SchedulerAssumption DEF AddrHeld, TypeOK, Refs, SchedulerAssumption,
         RecoverStaleActive
    <3>2. Counts'
      BY <2>1, SameCounts DEF RecoverStaleActive
    <3> QED BY <3>1, <3>2
  <2>2. CASE RecoverRetry
    <3>1. AddrHeld'
      BY <2>2, SchedulerAssumption DEF AddrHeld, TypeOK, Refs, SchedulerAssumption, RecoverRetry,
         WithRetry
    <3>2. Counts'
      BY <2>2, SameCounts DEF RecoverRetry
    <3> QED BY <3>1, <3>2
  <2>3. CASE RecoverQueued
    <3>1. AddrHeld'
      BY <2>3 DEF AddrHeld, Quiet, TypeOK, RecoverQueued
    <3>2. Counts'
      BY <2>3, SameCounts DEF RecoverQueued
    <3> QED BY <3>1, <3>2
  <2> QED BY <1>7, <2>1, <2>2, <2>3 DEF Recovery
<1>8. CASE Crash
  <2>1. AddrHeld'
    BY <1>8 DEF Crash, AddrHeld
  <2>2. \A w \in Worker : SentTo(w)' = {} /\ inflight'[w] = 0
    BY <1>8, SchedulerAssumption DEF Crash, SentTo, SchedulerAssumption
  <2>3. Counts'
    <3>1. \A w \in Worker : Cardinality(SentTo(w)') = 0
      BY <2>2, FS_EmptySet
    <3> QED BY <1>8, <2>2, <3>1 DEF Crash, Counts
  <2> QED BY <2>1, <2>3
<1>9. CASE UNCHANGED vars
  BY <1>9, SameCounts DEF vars, AddrHeld
<1> QED BY <1>1, <1>2, <1>3, <1>4, <1>5, <1>6, <1>7, <1>8, <1>9 DEF Next

LEMMA CountsInvariant == Spec => [](AddrHeld /\ Counts)
<1>1. Init => AddrHeld /\ Counts
  <2> SUFFICES ASSUME Init PROVE AddrHeld /\ Counts
    OBVIOUS
  <2>1. AddrHeld
    BY DEF Init, AddrHeld
  <2>2. \A w \in Worker : SentTo(w) = {} /\ inflight[w] = 0
    BY SchedulerAssumption DEF Init, SentTo, SchedulerAssumption
  <2>3. \A w \in Worker : Cardinality(SentTo(w)) = 0
    BY <2>2, FS_EmptySet
  <2>4. Counts
    BY <2>2, <2>3 DEF Init, Counts
  <2> QED BY <2>1, <2>4
<1>2. HeldInv /\ AddrHeld /\ Counts /\ [Next]_vars => AddrHeld' /\ Counts'
  BY NextCounts DEF HeldInv
<1> QED BY <1>1, <1>2, HeldInvariant, PTL DEF Spec

\* A worker's in-flight count, which orders the candidates of the next dispatch, never
\* exceeds the rows sent to it that are held or whose releaser has left slotMu without
\* lowering the count yet: sweeps, late releases and restarts included.
THEOREM CountsNotOver == Spec => []InflightNoOvercount
<1>1. Counts => InflightNoOvercount
  BY DEF Counts, InflightNoOvercount
<1> QED BY <1>1, CountsInvariant, PTL

\* As long as no heartbeat expires the count is exactly that number: only Sweep forgets a
\* worker's count while its rows are held.
THEOREM CountsExact ==
  ASSUME MaxExpiries = 0
  PROVE  Spec => []InflightExact
<1>1. Counts => InflightExact
  BY DEF Counts, InflightExact
<1> QED BY <1>1, CountsInvariant, PTL
=============================================================================
