--------------------------- MODULE SchedulerProofs ---------------------------
(***************************************************************************)
(* Theorems about Scheduler, for every value of its constants.             *)
(*                                                                         *)
(* Every invariant is proved from the same two facts: TypeOK, and Refs,     *)
(* which says that whatever the process holds in memory (tasks, held        *)
(* slots, handlers, the lists of the reaper and of the pump) names a row    *)
(* of the database.  RowsKept is what every step does to the rows: none     *)
(* disappears, and job, trigger type, root and index never change.          *)
(***************************************************************************)
EXTENDS Scheduler, FiniteSetTheorems, TLAPS

USE DEF dbVars, taskVars, slotVars, loopVars, regVars, envVars
-----------------------------------------------------------------------------
Refs ==
  /\ \A i \in Instance : task[i] # "idle" => Exists(i)
  /\ \A i \in Instance : task[i] \in {"mark", "send", "sent"} => target[i] \in Worker
  /\ \A i \in held \cup handler : Exists(i)
  /\ \A i \in Instance : owed[i] # None => Exists(i)
  /\ \A i \in Instance : delivered[i] # {} => Exists(i)
  /\ \A r \in reap.todo : Exists(r.ins)
  /\ reap.pc # "idle" => reap.ins \in Instance /\ Exists(reap.ins)
  /\ \A i \in pump.todo : Exists(i)
  /\ pump.pc # "idle" => pump.ins \in Instance /\ Exists(pump.ins)
  /\ boot # None => Exists(boot)

RowsKept ==
  /\ ins' \in [Instance -> Row \cup {Absent}]
  /\ \A k \in Instance : Exists(k) =>
       /\ Exists(k)'
       /\ ins'[k].job = ins[k].job
       /\ ins'[k].root = ins[k].root
       /\ ins'[k].idx = ins[k].idx
-----------------------------------------------------------------------------
(* Rows. *)

LEMMA RowExists ==
  /\ Absent.status = "absent" /\ Absent.job = None
  /\ \A row \in Row : row.status # "absent"
BY DEF Absent, Row, Status, Active, Terminal

LEMMA ExistsRow ==
  ASSUME TypeOK, NEW i \in Instance, Exists(i)
  PROVE  ins[i] \in Row
BY RowExists DEF TypeOK, Exists

LEMMA NewRowType ==
  ASSUME NEW j \in Job, NEW t \in TriggerType, NEW r \in Instance \cup {None}, NEW n \in Nat
  PROVE  NewRow(j, t, r, n) \in Row
BY DEF NewRow, Row, Status

\* What the writes make of a row is a row.
LEMMA RowWrites ==
  ASSUME NEW row \in Row
  PROVE  /\ \A s \in Status : [row EXCEPT !.status = s] \in Row /\ Written(row, s) \in Row
         /\ \A b \in BOOLEAN : [row EXCEPT !.retryAt = b] \in Row
         /\ WithRetry(row) \in Row
<1>1. \A s \in Status : [row EXCEPT !.status = s] \in Row /\ Written(row, s) \in Row
  BY DEF Row, Written
<1>2. \A b \in BOOLEAN : [row EXCEPT !.retryAt = b] \in Row
  BY DEF Row
<1>3. (row.retryAt \/ HasBudget(row)) \in BOOLEAN
  BY Zenon DEF HasBudget, Row
<1>4. WithRetry(row) \in Row
  BY <1>2, <1>3 DEF WithRetry
<1> QED BY <1>1, <1>2, <1>4

\* A write to an existing row that keeps the constant columns, or to a new row.
LEMMA WriteRow ==
  ASSUME TypeOK, NEW i \in Instance, NEW row \in Row, ins' = [ins EXCEPT ![i] = row],
         Exists(i) => row.job = ins[i].job /\ row.root = ins[i].root /\ row.idx = ins[i].idx
  PROVE  RowsKept
BY RowExists DEF TypeOK, Exists, RowsKept

LEMMA ReadRow ==
  ASSUME TypeOK, UNCHANGED ins
  PROVE  RowsKept
BY DEF TypeOK, Exists, RowsKept

LEMMA ReleaseType ==
  ASSUME TypeOK, NEW i \in Instance, Exists(i), ReleaseByInstance(i)
  PROVE  /\ slots' \in [Job -> Nat]
         /\ held' \subseteq held
         /\ haddr' \in [Instance -> Worker \cup {None}]
         /\ owed' \in [Instance -> Worker \cup {None}]
         /\ \A k \in Instance : owed'[k] # None => owed[k] # None \/ k \in held
<1>1. ins[i].job \in Job
  BY ExistsRow DEF Row
<1>2. slots' \in [Job -> Nat]
  BY <1>1 DEF TypeOK, ReleaseByInstance, Dec
<1>3. owed' \in [Instance -> Worker \cup {None}]
  BY DEF TypeOK, ReleaseByInstance
<1> QED BY <1>2, <1>3 DEF TypeOK, ReleaseByInstance

LEMMA ScanSets ==
  ASSUME TypeOK
  PROVE  /\ {i \in Instance : IsActive(i)} \in SUBSET {k \in Instance : Exists(k)}
         /\ \A S : S \in SUBSET {i \in Instance : /\ ins[i].status = "queued"
                                               /\ ins[i].addr = None
                                               /\ ins[i].trig \in {"auto", "retry"}}
                    => S \in SUBSET {k \in Instance : Exists(k)}
BY DEF IsActive, Active, Exists
-----------------------------------------------------------------------------
(* Types. *)

LEMMA InitType == Init => TypeOK /\ Refs
<1> SUFFICES ASSUME Init PROVE TypeOK /\ Refs
  OBVIOUS
<1>1. TypeOK
  BY SchedulerAssumption DEF Init, TypeOK, SchedulerAssumption, PC
<1>2. Refs
  BY DEF Init, Refs
<1> QED BY <1>1, <1>2

\* Every step preserves the types and the references, and keeps the rows.
LEMMA NextType ==
  ASSUME TypeOK, Refs, [Next]_vars
  PROVE  TypeOK' /\ Refs' /\ RowsKept
<1>1. ASSUME NEW j \in Job, Trigger(j)  PROVE TypeOK' /\ Refs' /\ RowsKept
  <2>1. CASE AutoAcquire(j)
    <3>1. RowsKept
      BY <2>1, ReadRow DEF AutoAcquire
    <3>2. TypeOK'
      BY <2>1, <3>1, ExistsRow DEF RowsKept, TypeOK, Refs, PC, AutoAcquire, TryAcquire, Row
    <3>3. Refs'
      BY <2>1, <3>1 DEF RowsKept, TypeOK, Refs, Exists, Scanned, AutoAcquire, TryAcquire
    <3> QED BY <3>2, <3>3, <3>1
  <2>2. CASE AutoAbandon(j)
    <3>1. RowsKept
      BY <2>2, ReadRow DEF AutoAbandon
    <3>2. TypeOK'
      BY <2>2, <3>1, ExistsRow DEF RowsKept, TypeOK, Refs, PC, AutoAbandon, ReleaseByJob, Dec, Row
    <3>3. Refs'
      BY <2>2, <3>1 DEF RowsKept, TypeOK, Refs, Exists, Scanned, AutoAbandon, ReleaseByJob, Dec
    <3> QED BY <3>2, <3>3, <3>1
  <2>3. ASSUME NEW i \in Instance, AutoCreate(j, i)  PROVE TypeOK' /\ Refs' /\ RowsKept
    <3>1. NewRow(j, "auto", None, 0) \in Row
      BY NewRowType DEF TriggerType
    <3>2. RowsKept
      BY <2>3, <3>1, WriteRow DEF AutoCreate, IsNextId
    <3>3. TypeOK'
      BY <2>3, <3>2 DEF RowsKept, TypeOK, Refs, PC, AutoCreate, Goto
    <3>4. Exists(i)' /\ \A q \in Instance : Exists(q) => Exists(q)'
      BY <2>3, <3>2 DEF RowsKept, TypeOK, Exists, AutoCreate, NewRow
    <3>5. Refs'
      BY <2>3, <3>4 DEF TypeOK, Refs, Scanned, AutoCreate, Goto
    <3> QED BY <3>3, <3>5, <3>2
  <2>4. ASSUME NEW i \in Instance, SubmitManual(j, i)  PROVE TypeOK' /\ Refs' /\ RowsKept
    <3>1. NewRow(j, "manual", None, 0) \in Row
      BY NewRowType DEF TriggerType
    <3>2. RowsKept
      BY <2>4, <3>1, WriteRow DEF SubmitManual, IsNextId
    <3>3. TypeOK'
      BY <2>4, <3>2 DEF RowsKept, TypeOK, Refs, PC, SubmitManual, Goto
    <3>4. Exists(i)' /\ \A q \in Instance : Exists(q) => Exists(q)'
      BY <2>4, <3>2 DEF RowsKept, TypeOK, Exists, SubmitManual, NewRow
    <3>5. Refs'
      BY <2>4, <3>4 DEF TypeOK, Refs, Scanned, SubmitManual, Goto
    <3> QED BY <3>3, <3>5, <3>2
  <2> QED BY <1>1, <2>1, <2>2, <2>3, <2>4 DEF Trigger
<1>2. ASSUME NEW i \in Instance, Dispatch(i)  PROVE TypeOK' /\ Refs' /\ RowsKept
  <2>1. CASE PushPending(i)
    <3>1. RowsKept
      BY <2>1, ReadRow DEF PushPending
    <3>2. TypeOK'
      BY <2>1, <3>1 DEF RowsKept, TypeOK, Refs, PC, PushPending, Goto
    <3>3. Refs'
      BY <2>1, <3>1 DEF RowsKept, TypeOK, Refs, Exists, Scanned, PushPending, Goto
    <3> QED BY <3>2, <3>3, <3>1
  <2>2. CASE PopPending(i)
    <3>1. RowsKept
      BY <2>2, ReadRow DEF PopPending
    <3>2. TypeOK'
      BY <2>2, <3>1, ExistsRow DEF RowsKept, TypeOK, Refs, PC, PopPending, Goto, TryAcquire, Row
    <3>3. Refs'
      BY <2>2, <3>1 DEF RowsKept, TypeOK, Refs, Exists, Scanned, PopPending, Goto, TryAcquire
    <3> QED BY <3>2, <3>3, <3>1
  <2>3. CASE DropPending(i)
    <3>1. RowsKept
      BY <2>3, ReadRow DEF DropPending
    <3>2. TypeOK'
      BY <2>3, <3>1 DEF RowsKept, TypeOK, Refs, PC, DropPending, Goto
    <3>3. Refs'
      BY <2>3, <3>1 DEF RowsKept, TypeOK, Refs, Exists, Scanned, DropPending, Goto
    <3> QED BY <3>2, <3>3, <3>1
  <2>4. CASE CheckPending(i)
    <3>1. RowsKept
      BY <2>4, ReadRow DEF CheckPending
    <3>2. TypeOK'
      BY <2>4, <3>1, ExistsRow DEF RowsKept, TypeOK, Refs, PC, CheckPending, Goto, ReleaseByJob, Dec, Row
    <3>3. Refs'
      BY <2>4, <3>1 DEF RowsKept, TypeOK, Refs, Exists, Scanned, CheckPending, Goto, ReleaseByJob, Dec
    <3> QED BY <3>2, <3>3, <3>1
  <2>5. CASE Bind(i)
    <3>1. RowsKept
      BY <2>5, ReadRow DEF Bind
    <3>2. TypeOK'
      BY <2>5, <3>1 DEF RowsKept, TypeOK, Refs, PC, Bind, Goto, BindHeld
    <3>3. Refs'
      BY <2>5, <3>1 DEF RowsKept, TypeOK, Refs, Exists, Scanned, Bind, Goto, BindHeld
    <3> QED BY <3>2, <3>3, <3>1
  <2>6. CASE PickWorker(i)
    <3>1. RowsKept
      BY <2>6, ReadRow DEF PickWorker
    <3>2. TypeOK'
      BY <2>6, <3>1 DEF RowsKept, TypeOK, Refs, PC, PickWorker, Goto, SetTarget, Candidates
    <3>3. Refs'
      BY <2>6, <3>1 DEF RowsKept, TypeOK, Refs, Exists, Scanned, PickWorker, Goto, SetTarget, Candidates
    <3> QED BY <3>2, <3>3, <3>1
  <2>7. CASE HasOnlineWorker(i)
    <3>1. RowsKept
      BY <2>7, ReadRow DEF HasOnlineWorker
    <3>2. TypeOK'
      BY <2>7, <3>1 DEF RowsKept, TypeOK, Refs, PC, HasOnlineWorker, Goto
    <3>3. Refs'
      BY <2>7, <3>1 DEF RowsKept, TypeOK, Refs, Exists, Scanned, HasOnlineWorker, Goto
    <3> QED BY <3>2, <3>3, <3>1
  <2>8. CASE MarkDispatched(i)
    <3>1. RowsKept
      BY <2>8, ExistsRow, RowExists DEF RowsKept, TypeOK, Refs, Exists, Row, Status, Active, MarkDispatched
    <3>2. TypeOK'
      BY <2>8, <3>1 DEF RowsKept, TypeOK, Refs, PC, MarkDispatched, Goto
    <3>3. Refs'
      BY <2>8, <3>1 DEF RowsKept, TypeOK, Refs, Exists, Scanned, MarkDispatched, Goto
    <3> QED BY <3>2, <3>3, <3>1
  <2>9. CASE Send(i)
    <3>1. RowsKept
      BY <2>9, ReadRow DEF Send
    <3>2. TypeOK'
      BY <2>9, <3>1 DEF RowsKept, TypeOK, Refs, PC, Send, Goto
    <3>3. Refs'
      BY <2>9, <3>1 DEF RowsKept, TypeOK, Refs, Exists, Scanned, Send, Goto
    <3> QED BY <3>2, <3>3, <3>1
  <2>10. CASE Sent(i)
    <3>1. RowsKept
      BY <2>10, ReadRow DEF Sent
    <3>2. TypeOK'
      BY <2>10, <3>1 DEF RowsKept, TypeOK, Refs, PC, Sent, Goto, SetTarget, BindWorkerAddr
    <3>3. Refs'
      BY <2>10, <3>1 DEF RowsKept, TypeOK, Refs, Exists, Scanned, Sent, Goto, SetTarget, BindWorkerAddr
    <3> QED BY <3>2, <3>3, <3>1
  <2>11. CASE FailDispatch(i)
    <3>1. ins[i] \in Row
      BY <2>11, ExistsRow DEF Refs, FailDispatch
    <3>2. [ins[i] EXCEPT !.status = "failed", !.addr = None] \in Row
      BY <3>1 DEF Row, Status, Terminal
    <3>3. UNCHANGED ins => RowsKept
      BY ReadRow
    <3>4. RowsKept
      BY <2>11, <3>1, <3>2, <3>3, WriteRow DEF FailDispatch, Row
    <3>5. TypeOK'
      BY <2>11, <3>4 DEF RowsKept, TypeOK, Refs, PC, FailDispatch, Goto, SetTarget
    <3>6. Refs'
      BY <2>11, <3>4 DEF RowsKept, TypeOK, Refs, Exists, Scanned, FailDispatch, Goto, SetTarget
    <3> QED BY <3>5, <3>6, <3>4
  <2>12. CASE ReleaseTask(i)
    <3>1. RowsKept
      BY <2>12, ReadRow DEF ReleaseTask
    <3>2. TypeOK'
      BY <2>12, <3>1, ReleaseType DEF RowsKept, TypeOK, Refs, PC, ReleaseTask, Goto, SetTarget, AfterRelease
    <3>3. Refs'
      BY <2>12, <3>1, ReleaseType DEF RowsKept, TypeOK, Refs, Exists, Scanned, ReleaseTask, Goto, SetTarget, AfterRelease
    <3> QED BY <3>2, <3>3, <3>1
  <2>13. CASE RetryTask(i)
    <3>1. ins[i] \in Row
      BY <2>13, ExistsRow DEF Refs, RetryTask
    <3>2. WithRetry(ins[i]) \in Row
      BY <3>1, RowWrites
    <3>3. RowsKept
      BY <2>13, <3>1, <3>2, WriteRow, ReadRow DEF RetryTask, WithRetry, Row
    <3>4. TypeOK'
      BY <2>13, <3>3 DEF RowsKept, TypeOK, Refs, PC, RetryTask, Goto
    <3>5. Refs'
      BY <2>13, <3>3 DEF RowsKept, TypeOK, Refs, Exists, Scanned, RetryTask, Goto
    <3> QED BY <3>4, <3>5, <3>3
  <2>14. CASE RequeueAfterNoWorker(i)
    <3>1. RowsKept
      BY <2>14, ReadRow DEF RequeueAfterNoWorker
    <3>2. TypeOK'
      BY <2>14, <3>1 DEF RowsKept, TypeOK, Refs, PC, RequeueAfterNoWorker, Goto
    <3>3. Refs'
      BY <2>14, <3>1 DEF RowsKept, TypeOK, Refs, Exists, Scanned, RequeueAfterNoWorker, Goto
    <3> QED BY <3>2, <3>3, <3>1
  <2> QED BY <1>2, <2>1, <2>2, <2>3, <2>4, <2>5, <2>6, <2>7, <2>8, <2>9, <2>10, <2>11, <2>12, <2>13, <2>14 DEF Dispatch
<1>3. ASSUME NEW i \in Instance, Handle(i)  PROVE TypeOK' /\ Refs' /\ RowsKept
  <2>1. ASSUME NEW w \in Worker, NEW s \in Reports, Report(i, w, s)  PROVE TypeOK' /\ Refs' /\ RowsKept
    <3>1. ins[i] \in Row /\ s \in Status
      BY <2>1, ExistsRow, SchedulerAssumption DEF Refs, Report, SchedulerAssumption
    <3>2. Written(ins[i], s) \in Row
      BY <3>1, RowWrites
    <3>3. RowsKept
      BY <2>1, <3>1, <3>2, WriteRow, ReadRow DEF Report, Written, Row
    <3>4. TypeOK'
      BY <2>1, <3>3 DEF RowsKept, TypeOK, Refs, PC, Report
    <3>5. Refs'
      BY <2>1, <3>3 DEF RowsKept, TypeOK, Refs, Exists, Scanned, Report
    <3> QED BY <3>4, <3>5, <3>3
  <2>2. ASSUME NEW s \in StopStatuses, Stop(i, s)  PROVE TypeOK' /\ Refs' /\ RowsKept
    <3>1. ins[i] \in Row /\ s \in Status
      BY <2>2, ExistsRow, SchedulerAssumption DEF Stop, SchedulerAssumption, Status, Terminal
    <3>2. [ins[i] EXCEPT !.status = s] \in Row
      BY <3>1, RowWrites
    <3>3. RowsKept
      BY <2>2, <3>1, <3>2, WriteRow DEF Stop, Row
    <3>4. TypeOK'
      BY <2>2, <3>3 DEF RowsKept, TypeOK, Refs, PC, Stop, Spend
    <3>5. Refs'
      BY <2>2, <3>3 DEF RowsKept, TypeOK, Refs, Exists, Scanned, Stop, Spend
    <3> QED BY <3>4, <3>5, <3>3
  <2>3. CASE ReleaseInFlight(i)
    <3>1. RowsKept
      BY <2>3, ReadRow DEF ReleaseInFlight
    <3>2. TypeOK'
      BY <2>3, <3>1, ReleaseType DEF RowsKept, TypeOK, Refs, PC, ReleaseInFlight
    <3>3. Refs'
      BY <2>3, <3>1, ReleaseType DEF RowsKept, TypeOK, Refs, Exists, Scanned, ReleaseInFlight
    <3> QED BY <3>2, <3>3, <3>1
  <2>4. CASE Retry(i)
    <3>1. ins[i] \in Row
      BY <2>4, ExistsRow DEF Retry, Retryable, Exists
    <3>2. [ins[i] EXCEPT !.retryAt = TRUE] \in Row
      BY <3>1, RowWrites
    <3>3. RowsKept
      BY <2>4, <3>1, <3>2, WriteRow DEF Retry, Row
    <3>4. TypeOK'
      BY <2>4, <3>3 DEF RowsKept, TypeOK, Refs, PC, Retry, Spend
    <3>5. Refs'
      BY <2>4, <3>3 DEF RowsKept, TypeOK, Refs, Exists, Scanned, Retry, Spend
    <3> QED BY <3>4, <3>5, <3>3
  <2>5. CASE LowerInflight(i)
    <3>1. RowsKept
      BY <2>5, ReadRow DEF LowerInflight
    <3>2. owed[i] \in Worker
      BY <2>5 DEF TypeOK, LowerInflight
    <3>3. inflight' \in [Worker -> Nat] /\ owed' \in [Instance -> Worker \cup {None}]
      BY <2>5, <3>2 DEF TypeOK, LowerInflight, Dec
    <3>4. reap' \in [pc: {"idle", "release", "lower", "retry"}, ins: Instance \cup {None}, todo: SUBSET Scanned]
      BY <2>5 DEF TypeOK, LowerInflight
    <3>5. TypeOK'
      BY <2>5, <3>1, <3>3, <3>4 DEF RowsKept, TypeOK, Refs, PC, LowerInflight
    <3>6. Refs'
      BY <2>5, <3>1 DEF RowsKept, TypeOK, Refs, Exists, Scanned, LowerInflight
    <3> QED BY <3>5, <3>6, <3>1
  <2> QED BY <1>3, <2>1, <2>2, <2>3, <2>4, <2>5 DEF Handle
<1>4. CASE Reaper
  <2>1. ASSUME NEW S \in SUBSET {k \in Instance : Exists(k)}, ReapScan(S)  PROVE TypeOK' /\ Refs' /\ RowsKept
    <3>1. RowsKept
      BY <2>1, ReadRow DEF ReapScan
    <3>2. \A b \in BOOLEAN : {Seen(i, b) : i \in S} \subseteq Scanned
      BY ExistsRow DEF Seen, Scanned, Row
    <3>5. reap' \in [pc: {"idle", "release", "lower", "retry"}, ins: Instance \cup {None}, todo: SUBSET Scanned]
      <4>1. PICK b \in {TRUE, ~DbFaults} : reap' = [reap EXCEPT !.todo = {Seen(i, b) : i \in S}]
        BY <2>1 DEF ReapScan
      <4>2. b \in BOOLEAN
        BY Zenon
      <4> QED BY <3>2, <4>1, <4>2 DEF TypeOK
    <3>3. TypeOK'
      BY <2>1, <3>1, <3>5 DEF RowsKept, TypeOK, Refs, PC, ReapScan
    <3>6. PICK b \in {TRUE, ~DbFaults} : reap' = [reap EXCEPT !.todo = {Seen(i, b) : i \in S}]
      BY <2>1 DEF ReapScan
    <3>7. \A r \in {Seen(i, b) : i \in S} : r.ins \in S
      BY DEF Seen
    <3>8. (\A r \in reap'.todo : r.ins \in S) /\ reap'.pc = reap.pc /\ reap'.ins = reap.ins
      BY <3>6, <3>7 DEF TypeOK
    <3>4. Refs'
      BY <2>1, <3>1, <3>8 DEF RowsKept, TypeOK, Refs, Exists, ReapScan
    <3> QED BY <3>3, <3>4, <3>1
  <2>2. ASSUME NEW r \in reap.todo, ReapJudge(r)  PROVE TypeOK' /\ Refs' /\ RowsKept
    <3>1. r.ins \in Instance /\ ins[r.ins] \in Row
      BY ExistsRow DEF TypeOK, Refs, Scanned
    <3>2. \A v \in StallVerdicts(r) : v # "none" => [ins[r.ins] EXCEPT !.status = v] \in Row
      BY <3>1, RowWrites DEF StallVerdicts, Status, Terminal
    <3>3. UNCHANGED ins => RowsKept
      BY ReadRow
    <3>4. RowsKept
      BY <2>2, <3>1, <3>2, <3>3, WriteRow DEF ReapJudge, Row
    <3>5. reap' \in [pc: {"idle", "release", "lower", "retry"}, ins: Instance \cup {None}, todo: SUBSET Scanned]
      BY <2>2, <3>1 DEF TypeOK, ReapJudge
    <3>6. TypeOK'
      BY <2>2, <3>4, <3>5 DEF RowsKept, TypeOK, Refs, PC, ReapJudge
    <3>7. Refs'
      BY <2>2, <3>4 DEF RowsKept, TypeOK, Refs, Exists, Scanned, ReapJudge
    <3> QED BY <3>6, <3>7, <3>4
  <2>3. CASE ReapRelease
    <3>1. RowsKept
      BY <2>3, ReadRow DEF ReapRelease
    <3>2. TypeOK'
      BY <2>3, <3>1, ReleaseType DEF RowsKept, TypeOK, Refs, PC, ReapRelease
    <3>3. Refs'
      BY <2>3, <3>1, ReleaseType DEF RowsKept, TypeOK, Refs, Exists, Scanned, ReapRelease
    <3> QED BY <3>2, <3>3, <3>1
  <2>4. CASE ReapRetry
    <3>1. reap.ins \in Instance /\ ins[reap.ins] \in Row
      BY <2>4, ExistsRow DEF Refs, ReapRetry
    <3>2. WithRetry(ins[reap.ins]) \in Row
      BY <3>1, RowWrites
    <3>3. RowsKept
      BY <2>4, <3>1, <3>2, WriteRow, ReadRow DEF ReapRetry, WithRetry, Row
    <3>4. TypeOK'
      BY <2>4, <3>3 DEF RowsKept, TypeOK, Refs, PC, ReapRetry
    <3>5. Refs'
      BY <2>4, <3>3 DEF RowsKept, TypeOK, Refs, Exists, Scanned, ReapRetry
    <3> QED BY <3>4, <3>5, <3>3
  <2> QED BY <1>4, <2>1, <2>2, <2>3, <2>4, ScanSets DEF Reaper, ReapScanActive, ReapScanUnbound
<1>5. CASE RetryPump
  <2>1. CASE PumpScan
    <3>1. RowsKept
      BY <2>1, ReadRow DEF PumpScan
    <3>2. TypeOK'
      BY <2>1, <3>1 DEF RowsKept, TypeOK, Refs, PC, PumpScan
    <3>3. Refs'
      BY <2>1, <3>1 DEF RowsKept, TypeOK, Refs, Exists, Scanned, PumpScan, Retryable
    <3> QED BY <3>2, <3>3, <3>1
  <2>2. ASSUME NEW i \in pump.todo, ClearNextRetryTime(i)  PROVE TypeOK' /\ Refs' /\ RowsKept
    <3>1. i \in Instance /\ ins[i] \in Row
      BY ExistsRow DEF TypeOK, Refs
    <3>2. [ins[i] EXCEPT !.retryAt = FALSE] \in Row
      BY <3>1, RowWrites
    <3>3. RowsKept
      BY <2>2, <3>1, <3>2, WriteRow, ReadRow DEF ClearNextRetryTime, Row
    <3>4. TypeOK'
      BY <2>2, <3>3 DEF RowsKept, TypeOK, Refs, PC, ClearNextRetryTime
    <3>5. Refs'
      BY <2>2, <3>3 DEF RowsKept, TypeOK, Refs, Exists, Scanned, ClearNextRetryTime
    <3> QED BY <3>4, <3>5, <3>3
  <2>3. CASE ExistsRetryChild
    <3>1. RowsKept
      BY <2>3, ReadRow DEF ExistsRetryChild
    <3>2. TypeOK'
      BY <2>3, <3>1 DEF RowsKept, TypeOK, Refs, PC, ExistsRetryChild
    <3>3. Refs'
      BY <2>3, <3>1 DEF RowsKept, TypeOK, Refs, Exists, Scanned, ExistsRetryChild
    <3> QED BY <3>2, <3>3, <3>1
  <2>4. CASE PumpAcquire
    <3>1. RowsKept
      BY <2>4, ReadRow DEF PumpAcquire
    <3>2. TypeOK'
      BY <2>4, <3>1, ExistsRow DEF RowsKept, TypeOK, Refs, PC, PumpAcquire, TryAcquire, Row
    <3>3. Refs'
      BY <2>4, <3>1 DEF RowsKept, TypeOK, Refs, Exists, Scanned, PumpAcquire, TryAcquire
    <3> QED BY <3>2, <3>3, <3>1
  <2>5. CASE PumpDefer
    <3>1. pump.ins \in Instance /\ ins[pump.ins] \in Row
      BY <2>5, ExistsRow DEF Refs, PumpDefer
    <3>2. [ins[pump.ins] EXCEPT !.retryAt = TRUE] \in Row
      BY <3>1, RowWrites
    <3>3. RowsKept
      BY <2>5, <3>1, <3>2, WriteRow, ReadRow DEF PumpDefer, Row
    <3>4. TypeOK'
      BY <2>5, <3>3 DEF RowsKept, TypeOK, Refs, PC, PumpDefer
    <3>5. Refs'
      BY <2>5, <3>3 DEF RowsKept, TypeOK, Refs, Exists, Scanned, PumpDefer
    <3> QED BY <3>4, <3>5, <3>3
  <2>6. ASSUME NEW k \in Instance, PumpCreate(k)  PROVE TypeOK' /\ Refs' /\ RowsKept
    <3>1. pump.ins \in Instance /\ ins[pump.ins] \in Row
      BY <2>6, ExistsRow DEF Refs, PumpCreate
    <3>2. /\ ins[pump.ins].job \in Job
         /\ RootOf(pump.ins) \in Instance \cup {None}
         /\ ins[pump.ins].idx + 1 \in Nat
      BY <3>1 DEF RootOf, Row
    <3>3. NewRow(ins[pump.ins].job, "retry", RootOf(pump.ins), ins[pump.ins].idx + 1) \in Row
      BY <3>2, NewRowType DEF TriggerType
    <3>4. RowsKept
      BY <2>6, <3>3, WriteRow DEF PumpCreate, IsNextId
    <3>5. TypeOK'
      BY <2>6, <3>4 DEF RowsKept, TypeOK, Refs, PC, PumpCreate, Goto
    <3>6. Exists(k)' /\ \A q \in Instance : Exists(q) => Exists(q)'
      BY <2>6, <3>4 DEF RowsKept, TypeOK, Exists, PumpCreate, NewRow
    <3>7. Refs'
      BY <2>6, <3>6 DEF TypeOK, Refs, Scanned, PumpCreate, Goto
    <3> QED BY <3>5, <3>7, <3>4
  <2>7. CASE PumpCreateFails
    <3>1. RowsKept
      BY <2>7, ReadRow DEF PumpCreateFails
    <3>2. pump.ins \in Instance /\ Exists(pump.ins)
      BY <2>7 DEF Refs, PumpCreateFails
    <3>3. ins[pump.ins].job \in Job
      BY <3>2, ExistsRow DEF Row
    <3>4. slots' \in [Job -> Nat]
      BY <2>7, <3>3 DEF TypeOK, PumpCreateFails, ReleaseByJob, Dec
    <3>5. pump' \in [pc: {"idle", "exists", "acquire", "defer", "create"}, ins: Instance \cup {None}, todo: SUBSET Instance]
      BY <2>7 DEF TypeOK, PumpCreateFails
    <3>6. TypeOK'
      BY <2>7, <3>1, <3>4, <3>5 DEF RowsKept, TypeOK, Refs, PC, PumpCreateFails
    <3>7. Refs'
      BY <2>7, <3>1 DEF RowsKept, TypeOK, Refs, Exists, Scanned, PumpCreateFails
    <3> QED BY <3>6, <3>7, <3>1
  <2> QED BY <1>5, <2>1, <2>2, <2>3, <2>4, <2>5, <2>6, <2>7 DEF RetryPump
<1>6. CASE Registry
  <2>1. ASSUME NEW w \in Worker, Heartbeat(w)  PROVE TypeOK' /\ Refs' /\ RowsKept
    <3>1. RowsKept
      BY <2>1, ReadRow DEF Heartbeat
    <3>2. TypeOK'
      BY <2>1, <3>1 DEF RowsKept, TypeOK, Refs, PC, Heartbeat
    <3>3. Refs'
      BY <2>1, <3>1 DEF RowsKept, TypeOK, Refs, Exists, Scanned, Heartbeat
    <3> QED BY <3>2, <3>3, <3>1
  <2>2. ASSUME NEW w \in Worker, HeartbeatExpires(w)  PROVE TypeOK' /\ Refs' /\ RowsKept
    <3>1. RowsKept
      BY <2>2, ReadRow DEF HeartbeatExpires
    <3>2. TypeOK'
      BY <2>2, <3>1 DEF RowsKept, TypeOK, Refs, PC, HeartbeatExpires, Spend
    <3>3. Refs'
      BY <2>2, <3>1 DEF RowsKept, TypeOK, Refs, Exists, Scanned, HeartbeatExpires, Spend
    <3> QED BY <3>2, <3>3, <3>1
  <2>3. CASE Sweep
    <3>1. RowsKept
      BY <2>3, ReadRow DEF Sweep
    <3>2. TypeOK'
      BY <2>3, <3>1 DEF RowsKept, TypeOK, Refs, PC, Sweep
    <3>3. Refs'
      BY <2>3, <3>1 DEF RowsKept, TypeOK, Refs, Exists, Scanned, Sweep
    <3> QED BY <3>2, <3>3, <3>1
  <2>4. CASE WarmupEnds
    <3>1. RowsKept
      BY <2>4, ReadRow DEF WarmupEnds
    <3>2. TypeOK'
      BY <2>4, <3>1 DEF RowsKept, TypeOK, Refs, PC, WarmupEnds
    <3>3. Refs'
      BY <2>4, <3>1 DEF RowsKept, TypeOK, Refs, Exists, Scanned, WarmupEnds
    <3> QED BY <3>2, <3>3, <3>1
  <2> QED BY <1>6, <2>1, <2>2, <2>3, <2>4 DEF Registry
<1>7. CASE Recovery
  <2>1. ASSUME NEW i \in Instance, RecoverStaleActive(i)  PROVE TypeOK' /\ Refs' /\ RowsKept
    <3>1. ins[i] \in Row
      BY <2>1, ExistsRow DEF RecoverStaleActive, IsActive, Active, Exists
    <3>2. [ins[i] EXCEPT !.status = "failed"] \in Row
      BY <3>1, RowWrites DEF Status, Terminal
    <3>3. RowsKept
      BY <2>1, <3>1, <3>2, WriteRow DEF RecoverStaleActive, Row
    <3>4. TypeOK'
      BY <2>1, <3>3 DEF RowsKept, TypeOK, Refs, PC, RecoverStaleActive
    <3>5. Refs'
      BY <2>1, <3>3 DEF RowsKept, TypeOK, Refs, Exists, Scanned, RecoverStaleActive
    <3> QED BY <3>4, <3>5, <3>3
  <2>2. CASE RecoverRetry
    <3>1. boot \in Instance /\ ins[boot] \in Row
      BY <2>2, ExistsRow DEF Refs, RecoverRetry, TypeOK
    <3>2. WithRetry(ins[boot]) \in Row
      BY <3>1, RowWrites
    <3>3. RowsKept
      BY <2>2, <3>1, <3>2, WriteRow, ReadRow DEF RecoverRetry, WithRetry, Row
    <3>4. TypeOK'
      BY <2>2, <3>3 DEF RowsKept, TypeOK, Refs, PC, RecoverRetry
    <3>5. Refs'
      BY <2>2, <3>3 DEF RowsKept, TypeOK, Refs, Exists, Scanned, RecoverRetry
    <3> QED BY <3>4, <3>5, <3>3
  <2>3. CASE RecoverQueued
    <3>1. RowsKept
      BY <2>3, ReadRow DEF RecoverQueued
    <3>2. TypeOK'
      BY <2>3, <3>1 DEF RowsKept, TypeOK, Refs, PC, RecoverQueued
    <3>3. Refs'
      <4>1. \A i \in Instance : task'[i] # "idle" => task'[i] = "queue" /\ Exists(i)
        BY <2>3 DEF RecoverQueued, Queued, Exists
      <4> QED BY <2>3, <3>1, <4>1 DEF RowsKept, TypeOK, Refs, Exists, RecoverQueued
    <3> QED BY <3>2, <3>3, <3>1
  <2> QED BY <1>7, <2>1, <2>2, <2>3 DEF Recovery
<1>8. CASE Crash
  <2>1. RowsKept
    BY <1>8, ReadRow DEF Crash
  <2>2. spent' \in [crashes: Nat, expiries: Nat, calls: Nat]
    BY <1>8 DEF TypeOK, Crash, Spend
  <2>3. /\ reap' \in [pc: {"idle", "release", "lower", "retry"}, ins: Instance \cup {None}, todo: SUBSET Scanned]
         /\ pump' \in [pc: {"idle", "exists", "acquire", "defer", "create"}, ins: Instance \cup {None}, todo: SUBSET Instance]
    BY <1>8 DEF Crash
  <2>4. warm' \in BOOLEAN
    BY <1>8, SchedulerAssumption DEF SchedulerAssumption, Crash
  <2>5. TypeOK'
    BY <1>8, <2>1, <2>2, <2>3, <2>4 DEF RowsKept, TypeOK, Refs, PC, Crash
  <2>6. Refs'
    BY <1>8, <2>1 DEF RowsKept, TypeOK, Refs, Exists, Scanned, Crash
  <2> QED BY <2>5, <2>6, <2>1
<1>9. CASE UNCHANGED vars
  BY <1>9, ReadRow DEF vars, TypeOK, Refs, Exists, RowsKept
<1> QED BY <1>1, <1>2, <1>3, <1>4, <1>5, <1>6, <1>7, <1>8, <1>9 DEF Next

\* Every variable has its type in every reachable state: in particular no counter of
\* slots or of deliveries in flight goes below zero, whatever crashes, fails or races.
THEOREM TypeCorrect == Spec => []TypeOK
<1>1. Init => TypeOK /\ Refs
  BY InitType
<1>2. TypeOK /\ Refs /\ [Next]_vars => TypeOK' /\ Refs'
  BY NextType
<1> QED BY <1>1, <1>2, PTL DEF Spec
=============================================================================
