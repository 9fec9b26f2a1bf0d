------------------------------ MODULE RetryProofs ------------------------------
(***************************************************************************)
(* The retry chains of Scheduler: in order, one attempt at a time, and     *)
(* none lost.                                                              *)
(*                                                                         *)
(* Shape is what the rows alone say of a chain; Single ties it to the pump *)
(* and to the statuses: a child is made only where there is none, and only *)
(* finished rows have one.                                                 *)
(***************************************************************************)
EXTENDS DispatchProofs

USE DEF dbVars, taskVars, slotVars, loopVars, regVars, envVars
-----------------------------------------------------------------------------
(* The rows a step makes. *)

\* No step but a trigger or the retry pump makes a row.
NoNewRow == \A k \in Instance : Exists(k)' => Exists(k)

NewRoot ==
  /\ UNCHANGED pump
  /\ \E i \in Instance, j \in Job, t \in TriggerType :
       ~Exists(i) /\ ins' = [ins EXCEPT ![i] = NewRow(j, t, None, 0)]

LEMMA NextRows ==
  ASSUME TypeOK, Refs, [Next]_vars
  PROVE  NoNewRow \/ NewRoot \/ \E k \in Instance : PumpCreate(k)
<1> DEFINE Rows == NoNewRow \/ NewRoot \/ \E k \in Instance : PumpCreate(k)
<1>1. ASSUME NEW j \in Job, Trigger(j)  PROVE Rows
  <2>1. CASE AutoAcquire(j)
    BY <2>1 DEF NoNewRow, Exists, AutoAcquire
  <2>2. CASE AutoAbandon(j)
    BY <2>2 DEF NoNewRow, Exists, AutoAbandon
  <2>3. ASSUME NEW i \in Instance, AutoCreate(j, i)  PROVE Rows
    BY <2>3 DEF NewRoot, TriggerType, IsNextId, AutoCreate
  <2>4. ASSUME NEW i \in Instance, SubmitManual(j, i)  PROVE Rows
    BY <2>4 DEF NewRoot, TriggerType, IsNextId, SubmitManual
  <2> QED BY <1>1, <2>1, <2>2, <2>3, <2>4 DEF Trigger
<1>2. ASSUME NEW i \in Instance, Dispatch(i)  PROVE Rows
  <2>1. CASE PushPending(i)
    BY <2>1 DEF NoNewRow, Exists, PushPending
  <2>2. CASE PopPending(i)
    BY <2>2 DEF NoNewRow, Exists, PopPending
  <2>3. CASE DropPending(i)
    BY <2>3 DEF NoNewRow, Exists, DropPending
  <2>4. CASE CheckPending(i)
    BY <2>4 DEF NoNewRow, Exists, CheckPending
  <2>5. CASE Bind(i)
    BY <2>5 DEF NoNewRow, Exists, Bind
  <2>6. CASE PickWorker(i)
    BY <2>6 DEF NoNewRow, Exists, PickWorker
  <2>7. CASE HasOnlineWorker(i)
    BY <2>7 DEF NoNewRow, Exists, HasOnlineWorker
  <2>8. CASE MarkDispatched(i)
    <3>1. i \in Instance /\ Exists(i)
      BY <2>8 DEF TypeOK, Refs, Exists, MarkDispatched
    <3> QED
      BY <2>8, <3>1 DEF NoNewRow, TypeOK, Exists, MarkDispatched
  <2>9. CASE Send(i)
    BY <2>9 DEF NoNewRow, Exists, Send
  <2>10. CASE Sent(i)
    BY <2>10 DEF NoNewRow, Exists, Sent
  <2>11. CASE FailDispatch(i)
    <3>1. i \in Instance /\ Exists(i)
      BY <2>11 DEF TypeOK, Refs, Exists, FailDispatch
    <3> QED
      BY <2>11, <3>1 DEF NoNewRow, TypeOK, Exists, FailDispatch
  <2>12. CASE ReleaseTask(i)
    BY <2>12 DEF NoNewRow, Exists, ReleaseTask
  <2>13. CASE RetryTask(i)
    <3>1. i \in Instance /\ Exists(i)
      BY <2>13 DEF TypeOK, Refs, Exists, RetryTask
    <3> QED
      BY <2>13, <3>1 DEF NoNewRow, TypeOK, Exists, RetryTask
  <2>14. CASE RequeueAfterNoWorker(i)
    BY <2>14 DEF NoNewRow, Exists, RequeueAfterNoWorker
  <2> QED BY <1>2, <2>1, <2>2, <2>3, <2>4, <2>5, <2>6, <2>7, <2>8, <2>9, <2>10, <2>11, <2>12,
     <2>13, <2>14 DEF Dispatch
<1>3. ASSUME NEW i \in Instance, Handle(i)  PROVE Rows
  <2>1. ASSUME NEW w \in Worker, NEW s \in Reports, Report(i, w, s)  PROVE Rows
    <3>1. i \in Instance /\ Exists(i)
      BY <2>1 DEF TypeOK, Refs, Exists, Report
    <3> QED
      BY <2>1, <3>1 DEF NoNewRow, TypeOK, Exists, Report
  <2>2. ASSUME NEW s \in StopStatuses, Stop(i, s)  PROVE Rows
    <3>1. i \in Instance /\ Exists(i)
      BY <2>2 DEF TypeOK, Refs, Exists, Stop
    <3> QED
      BY <2>2, <3>1 DEF NoNewRow, TypeOK, Exists, Stop
  <2>3. CASE ReleaseInFlight(i)
    BY <2>3 DEF NoNewRow, Exists, ReleaseInFlight
  <2>4. CASE Retry(i)
    <3>1. i \in Instance /\ Exists(i)
      BY <2>4 DEF TypeOK, Refs, Exists, Retryable, Retry
    <3> QED
      BY <2>4, <3>1 DEF NoNewRow, TypeOK, Exists, Retry
  <2>5. CASE LowerInflight(i)
    BY <2>5 DEF NoNewRow, Exists, LowerInflight
  <2> QED BY <1>3, <2>1, <2>2, <2>3, <2>4, <2>5 DEF Handle
<1>4. CASE Reaper
  <2>1. ASSUME NEW S \in SUBSET {k \in Instance : Exists(k)}, ReapScan(S)  PROVE Rows
    BY <2>1 DEF NoNewRow, Exists, ReapScan
  <2>2. ASSUME NEW r \in reap.todo, ReapJudge(r)  PROVE Rows
    <3>1. r.ins \in Instance /\ Exists(r.ins)
      BY <2>2 DEF TypeOK, Refs, Exists, Scanned, ReapJudge
    <3> QED
      BY <2>2, <3>1 DEF NoNewRow, TypeOK, Exists, ReapJudge
  <2>3. CASE ReapRelease
    BY <2>3 DEF NoNewRow, Exists, ReapRelease
  <2>4. CASE ReapRetry
    <3>1. reap.ins \in Instance /\ Exists(reap.ins)
      BY <2>4 DEF TypeOK, Refs, Exists, ReapRetry
    <3> QED
      BY <2>4, <3>1 DEF NoNewRow, TypeOK, Exists, ReapRetry
  <2> QED BY <1>4, <2>1, <2>2, <2>3, <2>4, ScanSets DEF Reaper, ReapScanActive, ReapScanUnbound
<1>5. CASE RetryPump
  <2>1. CASE PumpScan
    BY <2>1 DEF NoNewRow, Exists, PumpScan
  <2>2. ASSUME NEW i \in pump.todo, ClearNextRetryTime(i)  PROVE Rows
    <3>1. i \in Instance /\ Exists(i)
      BY <2>2 DEF TypeOK, Refs, Exists, ClearNextRetryTime
    <3> QED
      BY <2>2, <3>1 DEF NoNewRow, TypeOK, Exists, ClearNextRetryTime
  <2>3. CASE ExistsRetryChild
    BY <2>3 DEF NoNewRow, Exists, ExistsRetryChild
  <2>4. CASE PumpAcquire
    BY <2>4 DEF NoNewRow, Exists, PumpAcquire
  <2>5. CASE PumpDefer
    <3>1. pump.ins \in Instance /\ Exists(pump.ins)
      BY <2>5 DEF TypeOK, Refs, Exists, PumpDefer
    <3> QED
      BY <2>5, <3>1 DEF NoNewRow, TypeOK, Exists, PumpDefer
  <2>6. ASSUME NEW k \in Instance, PumpCreate(k)  PROVE Rows
    BY <2>6
  <2>7. CASE PumpCreateFails
    BY <2>7 DEF NoNewRow, Exists, PumpCreateFails
  <2> QED BY <1>5, <2>1, <2>2, <2>3, <2>4, <2>5, <2>6, <2>7 DEF RetryPump
<1>6. CASE Registry
  <2>1. ASSUME NEW w \in Worker, Heartbeat(w)  PROVE Rows
    BY <2>1 DEF NoNewRow, Exists, Heartbeat
  <2>2. ASSUME NEW w \in Worker, HeartbeatExpires(w)  PROVE Rows
    BY <2>2 DEF NoNewRow, Exists, HeartbeatExpires
  <2>3. CASE Sweep
    BY <2>3 DEF NoNewRow, Exists, Sweep
  <2>4. CASE WarmupEnds
    BY <2>4 DEF NoNewRow, Exists, WarmupEnds
  <2> QED BY <1>6, <2>1, <2>2, <2>3, <2>4 DEF Registry
<1>7. CASE Recovery
  <2>1. ASSUME NEW i \in Instance, RecoverStaleActive(i)  PROVE Rows
    <3>1. i \in Instance /\ Exists(i)
      BY <2>1 DEF TypeOK, Refs, Exists, IsActive, Active, RecoverStaleActive
    <3> QED
      BY <2>1, <3>1 DEF NoNewRow, TypeOK, Exists, RecoverStaleActive
  <2>2. CASE RecoverRetry
    <3>1. boot \in Instance /\ Exists(boot)
      BY <2>2 DEF TypeOK, Refs, Exists, RecoverRetry
    <3> QED
      BY <2>2, <3>1 DEF NoNewRow, TypeOK, Exists, RecoverRetry
  <2>3. CASE RecoverQueued
    BY <2>3 DEF NoNewRow, Exists, RecoverQueued
  <2> QED BY <1>7, <2>1, <2>2, <2>3 DEF Recovery
<1>8. CASE Crash
  BY <1>8 DEF Crash, NoNewRow, Exists
<1>9. CASE UNCHANGED vars
  BY <1>9 DEF vars, NoNewRow, Exists
<1> QED BY <1>1, <1>2, <1>3, <1>4, <1>5, <1>6, <1>7, <1>8, <1>9 DEF Next
-----------------------------------------------------------------------------
(* The shape of a chain: one root, numbered without a gap. *)

\* A row is the first of its chain or knows an existing first row of its job.
Roots ==
  \A i \in Instance : Exists(i) =>
    /\ ins[i].idx = 0 <=> ins[i].root = None
    /\ ins[i].root # None =>
         /\ Exists(ins[i].root)
         /\ ins[ins[i].root].root = None
         /\ ins[ins[i].root].job = ins[i].job
         /\ ins[i].idx <= RetryCount[ins[i].job]

Dense ==
  \A i \in Instance : Exists(i) => \A n \in 0 .. ins[i].idx : \E k \in Chain(i) : ins[k].idx = n

\* The row the pump works on has budget left.
PumpBudget == pump.pc # "idle" => ins[pump.ins].idx < RetryCount[ins[pump.ins].job]

Shape == Roots /\ Dense /\ PumpBudget

\* Two rows of a chain have different numbers.
Once ==
  \A i \in Instance : Exists(i) => \A k \in Chain(i) : ins[k].idx = ins[i].idx => k = i

\* The pump creates a child only where there is none.
NoChildYet == pump.pc \in {"acquire", "create"} => RetryChildren(pump.ins) = {}

\* Only a finished row has a child.
Parent == \A i \in Instance : Exists(i) /\ RetryChildren(i) # {} => IsTerminal(i)

\* A failed query of ExistsRetryChild counts as "no child": without failing calls only.
Single == ~DbFaults => Once /\ NoChildYet /\ Parent

LEMMA RootIn ==
  ASSUME TypeOK, NEW i \in Instance, Exists(i)
  PROVE  /\ ins[i] \in Row /\ ins[i].job \in Job /\ ins[i].idx \in Nat
         /\ ins[i].root \in Instance \cup {None} /\ RootOf(i) \in Instance
BY ExistsRow DEF Row, RootOf

\* A step that makes no row leaves every chain as it is.
LEMMA SameShape ==
  ASSUME TypeOK, TypeOK', RowsKept, NoNewRow
  PROVE  \A k \in Instance :
           /\ Exists(k)' = Exists(k)
           /\ ins'[k].job = ins[k].job /\ ins'[k].root = ins[k].root /\ ins'[k].idx = ins[k].idx
           /\ RootOf(k)' = RootOf(k)
           /\ Chain(k)' = Chain(k)
           /\ RetryChildren(k)' = RetryChildren(k)
<1>1. \A k \in Instance :
        /\ Exists(k)' = Exists(k)
        /\ ins'[k].job = ins[k].job /\ ins'[k].root = ins[k].root /\ ins'[k].idx = ins[k].idx
  <2> SUFFICES ASSUME NEW k \in Instance
               PROVE  /\ Exists(k)' = Exists(k)
                      /\ ins'[k].job = ins[k].job /\ ins'[k].root = ins[k].root
                      /\ ins'[k].idx = ins[k].idx
    OBVIOUS
  <2>1. CASE Exists(k)
    BY <2>1 DEF RowsKept, Exists
  <2>2. CASE ~Exists(k)
    <3>1. ~Exists(k)'
      BY <2>2 DEF NoNewRow
    <3>2. ins[k] = Absent /\ ins'[k] = Absent
      BY <2>2, <3>1, RowExists DEF TypeOK, Exists
    <3> QED BY <2>2, <3>1, <3>2 DEF Exists
  <2> QED BY <2>1, <2>2
<1>2. \A k \in Instance : RootOf(k)' = RootOf(k)
  BY <1>1 DEF RootOf
<1>3. \A k \in Instance : Chain(k)' = Chain(k)
  BY <1>1, <1>2 DEF Chain
<1>4. \A k \in Instance : RetryChildren(k)' = RetryChildren(k)
  BY <1>1, <1>2 DEF RetryChildren
<1> QED BY <1>1, <1>2, <1>3, <1>4

LEMMA AddRow ==
  ASSUME TypeOK, NEW k \in Instance, ~Exists(k), NEW j \in Job, NEW t \in TriggerType,
         NEW r \in Instance \cup {None}, NEW n \in Nat,
         ins' = [ins EXCEPT ![k] = NewRow(j, t, r, n)]
  PROVE  /\ Exists(k)' /\ ins'[k].job = j /\ ins'[k].root = r /\ ins'[k].idx = n
         /\ ins'[k].status = "queued"
         /\ \A q \in Instance : Exists(q) => ins'[q] = ins[q] /\ Exists(q)' /\ RootOf(q)' = RootOf(q)
         /\ \A q \in Instance \ {k} : ins'[q] = ins[q] /\ Exists(q)' = Exists(q) /\ RootOf(q)' = RootOf(q)
         /\ RootOf(k)' = IF r = None THEN k ELSE r
BY DEF NewRow, TypeOK, Exists, RootOf

\* The row the pump makes.
LEMMA PumpRow ==
  ASSUME TypeOK, Refs, NEW k \in Instance, PumpCreate(k)
  PROVE  /\ pump.ins \in Instance /\ Exists(pump.ins) /\ pump.pc = "create" /\ ~Exists(k)
         /\ RootOf(pump.ins) \in Instance /\ ins[pump.ins].idx + 1 \in Nat
         /\ ins[pump.ins].job \in Job /\ pump'.pc = "idle"
         /\ ins' = [ins EXCEPT ![k] = NewRow(ins[pump.ins].job, "retry", RootOf(pump.ins),
                                             ins[pump.ins].idx + 1)]
<1>1. pump.ins \in Instance /\ Exists(pump.ins) /\ pump.pc = "create" /\ ~Exists(k) /\ pump'.pc = "idle"
  BY DEF PumpCreate, Refs, IsNextId, TypeOK
<1> QED BY <1>1, RootIn DEF PumpCreate

\* Whatever is not the pump's own step leaves it where it is, or stops it.
LEMMA PumpSteps ==
  ASSUME [Next]_vars
  PROVE  RetryPump \/ pump' = pump \/ pump'.pc = "idle"
<1>1. ASSUME NEW j \in Job, Trigger(j)  PROVE pump' = pump
  BY <1>1 DEF Trigger, AutoAcquire, AutoAbandon, AutoCreate, SubmitManual
<1>2. ASSUME NEW i \in Instance, Dispatch(i)  PROVE pump' = pump
  BY <1>2 DEF Dispatch, PushPending, PopPending, DropPending, CheckPending, Bind, PickWorker,
     HasOnlineWorker, MarkDispatched, Send, Sent, FailDispatch, ReleaseTask, RetryTask,
     RequeueAfterNoWorker
<1>3. ASSUME NEW i \in Instance, Handle(i)  PROVE pump' = pump
  BY <1>3 DEF Handle, Report, Stop, ReleaseInFlight, LowerInflight, Retry
<1>4. CASE Reaper
  BY <1>4 DEF Reaper, ReapScanActive, ReapScanUnbound, ReapScan, ReapJudge, ReapRelease, ReapRetry
<1>5. CASE Registry
  BY <1>5 DEF Registry, Heartbeat, HeartbeatExpires, Sweep, WarmupEnds
<1>6. CASE Recovery
  BY <1>6 DEF Recovery, RecoverStaleActive, RecoverRetry, RecoverQueued
<1>7. CASE Crash
  BY <1>7 DEF Crash
<1>8. CASE UNCHANGED vars
  BY <1>8 DEF vars
<1> QED BY <1>1, <1>2, <1>3, <1>4, <1>5, <1>6, <1>7, <1>8 DEF Next

LEMMA PumpKept ==
  ASSUME TypeOK, Refs, RetryPump
  PROVE  /\ pump'.pc # "idle" =>
              \/ pump'.ins = pump.ins /\ pump.pc # "idle"
              \/ /\ pump'.ins \in Instance /\ Exists(pump'.ins) /\ pump'.pc = "exists"
                 /\ ins[pump'.ins].idx < RetryCount[ins[pump'.ins].job]
         /\ ~DbFaults /\ pump'.pc \in {"acquire", "create"} =>
              \/ pump.pc = "acquire"
              \/ pump.pc = "exists" /\ RetryChildren(pump.ins) = {}
<1>1. CASE PumpScan
  BY <1>1 DEF PumpScan, TypeOK
<1>2. ASSUME NEW i \in pump.todo, ClearNextRetryTime(i)
      PROVE  /\ pump'.pc # "idle" => /\ pump'.ins = i /\ pump'.pc = "exists"
                                     /\ ins[i].idx < RetryCount[ins[i].job]
             /\ i \in Instance /\ Exists(i)
  BY <1>2 DEF ClearNextRetryTime, TypeOK, Refs
<1>3. CASE ExistsRetryChild
  BY <1>3 DEF ExistsRetryChild, TypeOK
<1>4. CASE PumpAcquire
  BY <1>4 DEF PumpAcquire, TypeOK
<1>5. CASE PumpDefer
  BY <1>5 DEF PumpDefer, TypeOK
<1>6. ASSUME NEW k \in Instance, PumpCreate(k) PROVE pump'.pc = "idle"
  BY <1>6 DEF PumpCreate, TypeOK
<1>7. CASE PumpCreateFails
  BY <1>7 DEF PumpCreateFails, TypeOK
<1> QED BY <1>1, <1>2, <1>3, <1>4, <1>5, <1>6, <1>7 DEF RetryPump

\* What the pump holds before and after a step that makes no row.
LEMMA PumpBudgetKept ==
  ASSUME TypeOK, TypeOK', Refs, RowsKept, PumpBudget, [Next]_vars
  PROVE  PumpBudget'
<1> SUFFICES ASSUME pump'.pc # "idle"
             PROVE  ins'[pump'.ins].idx < RetryCount[ins'[pump'.ins].job]
  BY DEF PumpBudget
<1>1. /\ pump'.ins \in Instance /\ Exists(pump'.ins)
      /\ ins[pump'.ins].idx < RetryCount[ins[pump'.ins].job]
  <2>1. CASE RetryPump
    BY <2>1, PumpKept DEF PumpBudget, Refs
  <2>2. CASE pump' = pump
    BY <2>2 DEF PumpBudget, Refs
  <2> QED BY <2>1, <2>2, PumpSteps
<1> QED BY <1>1 DEF RowsKept

\* The three ways a step treats the rows: none is new, a trigger makes the first of a
\* chain, or the pump adds one at the end of a chain.
LEMMA NextShape ==
  ASSUME TypeOK, TypeOK', Refs, RowsKept, Shape, [Next]_vars
  PROVE  Shape'
<1>0. PumpBudget'
  BY PumpBudgetKept DEF Shape
<1>1. CASE NoNewRow
  <2>1. \A k \in Instance :
           /\ Exists(k)' = Exists(k)
           /\ ins'[k].job = ins[k].job /\ ins'[k].root = ins[k].root /\ ins'[k].idx = ins[k].idx
           /\ Chain(k)' = Chain(k)
    BY <1>1, SameShape
  <2>2. Roots'
    <3> SUFFICES ASSUME NEW i \in Instance, Exists(i)'
                 PROVE  /\ ins'[i].idx = 0 <=> ins'[i].root = None
                        /\ ins'[i].root # None =>
                             /\ Exists(ins[i].root)'
                             /\ ins'[ins'[i].root].root = None
                             /\ ins'[ins'[i].root].job = ins'[i].job
                             /\ ins'[i].idx <= RetryCount[ins'[i].job]
      BY <2>1 DEF Roots
    <3>1. Exists(i) /\ ins[i].root \in Instance \cup {None}
      BY <2>1, RootIn
    <3> QED BY <2>1, <3>1 DEF Shape, Roots
  <2>3. Dense'
    <3>1. \A i \in Instance : Chain(i) \subseteq Instance
      BY DEF Chain
    <3> QED BY <2>1, <3>1 DEF Shape, Dense
  <2> QED BY <1>0, <2>2, <2>3 DEF Shape
<1>2. CASE NewRoot
  <2>1. PICK k \in Instance, j \in Job, t \in TriggerType :
          ~Exists(k) /\ ins' = [ins EXCEPT ![k] = NewRow(j, t, None, 0)]
    BY <1>2 DEF NewRoot
  <2>2. /\ Exists(k)' /\ ins'[k].job = j /\ ins'[k].root = None /\ ins'[k].idx = 0
        /\ \A q \in Instance : Exists(q) => ins'[q] = ins[q] /\ Exists(q)' /\ RootOf(q)' = RootOf(q)
        /\ \A q \in Instance \ {k} : ins'[q] = ins[q] /\ Exists(q)' = Exists(q) /\ RootOf(q)' = RootOf(q)
    BY <2>1, AddRow
  <2>3. Roots'
    <3> SUFFICES ASSUME NEW i \in Instance, Exists(i)'
                 PROVE  /\ ins'[i].idx = 0 <=> ins'[i].root = None
                        /\ ins'[i].root # None =>
                             /\ Exists(ins[i].root)'
                             /\ ins'[ins'[i].root].root = None
                             /\ ins'[ins'[i].root].job = ins'[i].job
                             /\ ins'[i].idx <= RetryCount[ins'[i].job]
      BY DEF Roots
    <3>1. CASE i = k
      BY <2>2, <3>1
    <3>2. CASE i # k
      <4>1. ins'[i] = ins[i] /\ Exists(i) /\ ins[i].root \in Instance \cup {None}
        BY <2>2, <3>2, RootIn
      <4> QED BY <2>2, <4>1 DEF Shape, Roots
    <3> QED BY <3>1, <3>2
  <2>4. Dense'
    <3> SUFFICES ASSUME NEW i \in Instance, Exists(i)', NEW n \in 0 .. ins'[i].idx
                 PROVE  \E c \in Chain(i)' : ins'[c].idx = n
      BY DEF Dense
    <3>1. CASE i = k
      <4>1. i \in Chain(i)' /\ n = 0
        BY <2>2, <3>1 DEF Chain
      <4> QED BY <2>2, <3>1, <4>1
    <3>2. CASE i # k
      <4>1. ins'[i] = ins[i] /\ Exists(i) /\ RootOf(i)' = RootOf(i)
        BY <2>2, <3>2
      <4>2. PICK c \in Chain(i) : ins[c].idx = n
        BY <4>1 DEF Shape, Dense
      <4>3. c \in Chain(i)' /\ ins'[c].idx = n
        BY <2>2, <4>1, <4>2 DEF Chain
      <4> QED BY <4>3
    <3> QED BY <3>1, <3>2
  <2> QED BY <1>0, <2>3, <2>4 DEF Shape
<1>3. ASSUME NEW k \in Instance, PumpCreate(k)  PROVE Shape'
  <2> DEFINE p == pump.ins
  <2>1. /\ p \in Instance /\ Exists(p) /\ pump.pc = "create" /\ ~Exists(k)
        /\ RootOf(p) \in Instance /\ ins[p].idx + 1 \in Nat /\ ins[p].job \in Job
        /\ ins[p].idx \in Nat
    BY <1>3, PumpRow, RootIn
  <2>2. /\ Exists(k)' /\ ins'[k].job = ins[p].job /\ ins'[k].root = RootOf(p)
        /\ ins'[k].idx = ins[p].idx + 1 /\ RootOf(k)' = RootOf(p)
        /\ \A q \in Instance : Exists(q) => ins'[q] = ins[q] /\ Exists(q)' /\ RootOf(q)' = RootOf(q)
        /\ \A q \in Instance \ {k} : ins'[q] = ins[q] /\ Exists(q)' = Exists(q) /\ RootOf(q)' = RootOf(q)
    <3>1. ins' = [ins EXCEPT ![k] = NewRow(ins[p].job, "retry", RootOf(p), ins[p].idx + 1)]
      BY <1>3, PumpRow
    <3>2. "retry" \in TriggerType /\ RootOf(p) \in Instance \cup {None} /\ RootOf(p) # None
      BY <2>1, SchedulerAssumption DEF TriggerType, SchedulerAssumption
    <3> DEFINE j == ins[p].job
               r == RootOf(p)
               n == ins[p].idx + 1
    <3>3. /\ j \in Job /\ "retry" \in TriggerType /\ r \in Instance \cup {None} /\ n \in Nat /\ r # None
          /\ ins' = [ins EXCEPT ![k] = NewRow(j, "retry", r, n)]
      BY <2>1, <3>1, <3>2
    <3> HIDE DEF j, r, n
    <3>4. /\ Exists(k)' /\ ins'[k].job = j /\ ins'[k].root = r /\ ins'[k].idx = n
          /\ \A q \in Instance : Exists(q) => ins'[q] = ins[q] /\ Exists(q)' /\ RootOf(q)' = RootOf(q)
          /\ \A q \in Instance \ {k} : ins'[q] = ins[q] /\ Exists(q)' = Exists(q) /\ RootOf(q)' = RootOf(q)
          /\ RootOf(k)' = r
      BY <2>1, <3>3 DEF NewRow, TypeOK, Exists, RootOf
    <3> QED BY <3>4 DEF j, r, n
  <2> HIDE DEF p
  <2>3. /\ Exists(RootOf(p)) /\ ins[RootOf(p)].root = None /\ ins[RootOf(p)].job = ins[p].job
        /\ RootOf(p) # None
    BY <2>1, SchedulerAssumption DEF Shape, Roots, RootOf, SchedulerAssumption
  <2>4. ins[p].idx < RetryCount[ins[p].job] /\ RetryCount[ins[p].job] \in Int
    BY <2>1, SchedulerAssumption DEF Shape, PumpBudget, p, SchedulerAssumption
  <2>5. Roots'
    <3> SUFFICES ASSUME NEW i \in Instance, Exists(i)'
                 PROVE  /\ ins'[i].idx = 0 <=> ins'[i].root = None
                        /\ ins'[i].root # None =>
                             /\ Exists(ins[i].root)'
                             /\ ins'[ins'[i].root].root = None
                             /\ ins'[ins'[i].root].job = ins'[i].job
                             /\ ins'[i].idx <= RetryCount[ins'[i].job]
      BY DEF Roots
    <3>1. CASE i = k
      BY <2>1, <2>2, <2>3, <2>4, <3>1
    <3>2. CASE i # k
      <4>1. ins'[i] = ins[i] /\ Exists(i) /\ ins[i].root \in Instance \cup {None}
        BY <2>2, <3>2, RootIn
      <4> QED BY <2>2, <4>1 DEF Shape, Roots
    <3> QED BY <3>1, <3>2
  <2>6. Dense'
    <3> SUFFICES ASSUME NEW i \in Instance, Exists(i)', NEW n \in 0 .. ins'[i].idx
                 PROVE  \E c \in Chain(i)' : ins'[c].idx = n
      BY DEF Dense
    <3>1. CASE i = k /\ n = ins[p].idx + 1
      <4>1. k \in Chain(i)'
        BY <2>2, <3>1 DEF Chain
      <4> QED BY <2>2, <3>1, <4>1
    <3>2. CASE ~(i = k /\ n = ins[p].idx + 1)
      <4>1. PICK q \in Instance : Exists(q) /\ RootOf(i)' = RootOf(q) /\ n \in 0 .. ins[q].idx
        <5>1. CASE i = k
          <6>1. n \in 0 .. ins[p].idx
            BY <2>1, <2>2, <3>2, <5>1
          <6> QED BY <2>1, <2>2, <5>1, <6>1
        <5>2. CASE i # k
          BY <2>2, <5>2
        <5> QED BY <5>1, <5>2
      <4>2. PICK c \in Chain(q) : ins[c].idx = n
        BY <4>1 DEF Shape, Dense
      <4>3. c \in Chain(i)' /\ ins'[c].idx = n
        BY <2>2, <4>1, <4>2 DEF Chain
      <4> QED BY <4>3
    <3> QED BY <3>1, <3>2
  <2> QED BY <1>0, <2>5, <2>6 DEF Shape
<1> QED BY <1>1, <1>2, <1>3, NextRows

LEMMA NoChildYetKept ==
  ASSUME TypeOK, TypeOK', Refs, RowsKept, Single, ~DbFaults, NoNewRow \/ NewRoot, Roots, [Next]_vars
  PROVE  NoChildYet'
<1> SUFFICES ASSUME pump'.pc \in {"acquire", "create"}, NEW c \in Instance,
                    c \in RetryChildren(pump.ins)'
             PROVE  FALSE
  BY DEF NoChildYet, RetryChildren
<1>1. /\ pump'.ins = pump.ins /\ pump.ins \in Instance /\ Exists(pump.ins)
      /\ RetryChildren(pump.ins) = {}
  <2>1. CASE RetryPump
    BY <2>1, PumpKept DEF Single, NoChildYet, Refs
  <2>2. CASE pump' = pump
    BY <2>2 DEF Single, NoChildYet, Refs
  <2> QED BY <2>1, <2>2, PumpSteps
<1>2. CASE NoNewRow
  <2>1. RetryChildren(pump.ins)' = RetryChildren(pump.ins)
    BY <1>1, <1>2, SameShape DEF RetryChildren, RootOf
  <2> QED BY <1>1, <2>1
<1>3. CASE NewRoot
  <2>1. PICK k \in Instance, j \in Job, t \in TriggerType :
          ~Exists(k) /\ ins' = [ins EXCEPT ![k] = NewRow(j, t, None, 0)]
    BY <1>3 DEF NewRoot
  <2>2. /\ ins'[k].root = None
        /\ \A q \in Instance : Exists(q) => ins'[q] = ins[q] /\ RootOf(q)' = RootOf(q)
        /\ \A q \in Instance \ {k} : ins'[q] = ins[q]
    BY <2>1, AddRow
  <2>3. ins'[c].root = RootOf(pump.ins) /\ ins'[c].idx = ins[pump.ins].idx + 1
    BY <1>1, <2>2 DEF RetryChildren, RootOf
  <2>4. RootOf(pump.ins) # None
    BY <1>1, RootIn, SchedulerAssumption DEF SchedulerAssumption
  <2>5. c # k /\ ins'[c] = ins[c]
    BY <2>2, <2>3, <2>4
  <2>6. c \in RetryChildren(pump.ins)
    BY <2>3, <2>5 DEF RetryChildren
  <2> QED BY <1>1, <2>6
<1> QED BY <1>2, <1>3

\* The pump adds to a chain only the number that is missing at its end.
LEMMA NextSingle ==
  ASSUME TypeOK, TypeOK', Refs, RowsKept, Shape, Single, Ended, StatusKept, [Next]_vars
  PROVE  Single'
<1> SUFFICES ASSUME ~DbFaults PROVE Once' /\ NoChildYet' /\ Parent'
  BY DEF Single
<1>0. Once /\ NoChildYet /\ Parent /\ Roots
  BY DEF Single, Shape
<1>t. \A i \in Instance : IsTerminal(i) => IsTerminal(i)'
  BY SchedulerAssumption DEF StatusKept, IsTerminal, Terminal, SchedulerAssumption
<1>n. None \notin Instance
  BY SchedulerAssumption DEF SchedulerAssumption
<1>1. CASE NoNewRow
  <2>1. \A k \in Instance :
           /\ Exists(k)' = Exists(k) /\ ins'[k].idx = ins[k].idx /\ Chain(k)' = Chain(k)
           /\ RetryChildren(k)' = RetryChildren(k)
    BY <1>1, SameShape
  <2>2. Once'
    <3>1. \A i \in Instance : Chain(i) \subseteq Instance
      BY DEF Chain
    <3> QED BY <1>0, <2>1, <3>1 DEF Once
  <2>3. Parent'
    BY <1>0, <1>t, <2>1 DEF Parent
  <2>4. NoChildYet'
    BY <1>0, <1>1, NoChildYetKept
  <2> QED BY <2>2, <2>3, <2>4
<1>2. CASE NewRoot
  <2>1. PICK k \in Instance, j \in Job, t \in TriggerType :
          ~Exists(k) /\ ins' = [ins EXCEPT ![k] = NewRow(j, t, None, 0)]
    BY <1>2 DEF NewRoot
  <2>2. /\ Exists(k)' /\ ins'[k].root = None /\ ins'[k].idx = 0 /\ RootOf(k)' = k
        /\ \A q \in Instance : Exists(q) => ins'[q] = ins[q] /\ Exists(q)' /\ RootOf(q)' = RootOf(q)
        /\ \A q \in Instance \ {k} : ins'[q] = ins[q] /\ Exists(q)' = Exists(q) /\ RootOf(q)' = RootOf(q)
    BY <2>1, AddRow
  <2>3. \A q \in Instance : Exists(q) => RootOf(q) # k
    BY <1>0, <2>1 DEF Roots, RootOf
  <2>4. Once'
    <3> SUFFICES ASSUME NEW i \in Instance, Exists(i)', NEW c \in Chain(i)', ins'[c].idx = ins'[i].idx
                 PROVE  c = i
      BY DEF Once
    <3>1. c \in Instance /\ Exists(c)' /\ RootOf(c)' = RootOf(i)'
      BY DEF Chain
    <3>2. CASE i = k \/ c = k
      BY <2>2, <2>3, <3>1, <3>2
    <3>3. CASE i # k /\ c # k
      <4>1. c \in Chain(i) /\ Exists(i) /\ ins[c].idx = ins[i].idx
        BY <2>2, <3>1, <3>3 DEF Chain
      <4> QED BY <1>0, <4>1 DEF Once
    <3> QED BY <3>2, <3>3
  <2>5. Parent'
    <3> SUFFICES ASSUME NEW i \in Instance, Exists(i)', NEW c \in Instance, c \in RetryChildren(i)'
                 PROVE  IsTerminal(i)'
      BY DEF Parent, RetryChildren
    <3>1. ins'[c].root = RootOf(i)' /\ ins'[c].idx = ins'[i].idx + 1 /\ RootOf(i)' \in Instance
      BY RootIn DEF RetryChildren, RootOf, TypeOK, Row, Exists, Absent
    <3>2. c # k
      BY <1>n, <2>2, <3>1
    <3>3. ins[c].root = RootOf(i)' /\ ins'[c] = ins[c] /\ Exists(c)
      <4>1. ins'[c] = ins[c] /\ ins[c].root = RootOf(i)'
        BY <2>2, <3>1, <3>2
      <4>2. ins[c].root # None
        BY <4>1, <3>1, <1>n
      <4> QED BY <4>1, <4>2 DEF TypeOK, Exists, Absent, Row, Status, Active, Terminal
    <3>4. i # k
      <4>1. RootOf(c) = RootOf(i)'
        BY <1>n, <3>1, <3>3 DEF RootOf
      <4> QED BY <2>2, <2>3, <3>3, <4>1
    <3>5. Exists(i) /\ c \in RetryChildren(i)
      BY <2>2, <3>1, <3>3, <3>4 DEF RetryChildren
    <3> QED BY <1>0, <1>t, <3>5 DEF Parent
  <2>6. NoChildYet'
    BY <1>0, <1>2, NoChildYetKept
  <2> QED BY <2>4, <2>5, <2>6
<1>3. ASSUME NEW k \in Instance, PumpCreate(k)  PROVE Once' /\ NoChildYet' /\ Parent'
  <2> DEFINE p == pump.ins
             m == ins[p].idx + 1
             root == RootOf(p)
  <2>1. /\ p \in Instance /\ Exists(p) /\ ~Exists(k) /\ root \in Instance /\ m \in Nat
        /\ ins[p].idx \in Nat /\ RetryChildren(p) = {} /\ IsTerminal(p) /\ pump'.pc = "idle"
    BY <1>0, <1>3, PumpRow, RootIn DEF NoChildYet, Ended
  <2>2. /\ Exists(k)' /\ ins'[k].root = root /\ ins'[k].idx = m /\ RootOf(k)' = root
        /\ \A q \in Instance : Exists(q) => ins'[q] = ins[q] /\ Exists(q)' /\ RootOf(q)' = RootOf(q)
        /\ \A q \in Instance \ {k} : ins'[q] = ins[q] /\ Exists(q)' = Exists(q) /\ RootOf(q)' = RootOf(q)
    <3> DEFINE j == ins[p].job
    <3>1. ins' = [ins EXCEPT ![k] = NewRow(j, "retry", root, m)]
      BY <1>3, PumpRow
    <3> HIDE DEF j, m, root
    <3> QED BY <1>n, <2>1, <3>1 DEF NewRow, TypeOK, Exists, RootOf
  <2>3. m = ins[p].idx + 1 /\ root = RootOf(p) /\ m # 0
    BY <2>1
  <2> HIDE DEF p, m, root
  \* Whoever has the number of the new row in its chain is a child of p.
  <2>4. ASSUME NEW c \in Instance, Exists(c), RootOf(c) = root  PROVE ins[c].idx # m
    <3> SUFFICES ASSUME ins[c].idx = m PROVE FALSE
      OBVIOUS
    <3>1. ins[c].root # None
      BY <1>0, <2>3, <2>4 DEF Roots
    <3>2. ins[c].root = root
      BY <2>4, <3>1 DEF RootOf
    <3>3. c \in RetryChildren(p)
      BY <2>3, <3>2 DEF RetryChildren
    <3> QED BY <2>1, <3>3
  <2>5. Once'
    <3> SUFFICES ASSUME NEW i \in Instance, Exists(i)', NEW c \in Chain(i)', ins'[c].idx = ins'[i].idx
                 PROVE  c = i
      BY DEF Once
    <3>1. c \in Instance /\ Exists(c)' /\ RootOf(c)' = RootOf(i)'
      BY DEF Chain
    <3>2. CASE i = k /\ c # k
      BY <2>2, <2>4, <3>1, <3>2
    <3>3. CASE i # k /\ c = k
      BY <2>2, <2>4, <3>1, <3>3
    <3>4. CASE i # k /\ c # k
      <4>1. c \in Chain(i) /\ Exists(i) /\ ins[c].idx = ins[i].idx
        BY <2>2, <3>1, <3>4 DEF Chain
      <4> QED BY <1>0, <4>1 DEF Once
    <3> QED BY <3>2, <3>3, <3>4
  <2>6. Parent'
    <3> SUFFICES ASSUME NEW i \in Instance, Exists(i)', NEW c \in Instance, c \in RetryChildren(i)'
                 PROVE  IsTerminal(i)'
      BY DEF Parent, RetryChildren
    <3>1. ins'[c].root = RootOf(i)' /\ ins'[c].idx = ins'[i].idx + 1
      BY DEF RetryChildren, RootOf
    <3>2. CASE i = k
      \* A child of the new row would stand after a gap.
      <4>1. c # k
        BY <2>1, <2>2, <3>1, <3>2
      <4>2. ins[c].root = root /\ ins[c].idx = m + 1
        BY <2>2, <3>1, <3>2, <4>1
      <4>3. Exists(c)
        <5>1. ins[c] # Absent
          BY <4>2, <2>1, <1>n DEF Absent
        <5> QED BY <5>1, RowExists DEF TypeOK, Exists
      <4>4. RootOf(c) = root
        BY <4>2, <2>1, <1>n DEF RootOf
      <4>5. \E d \in Chain(c) : ins[d].idx = m
        <5>1. m \in 0 .. ins[c].idx
          BY <2>1, <4>2
        <5> QED BY <4>3, <5>1 DEF Shape, Dense
      <4> QED BY <2>4, <4>4, <4>5 DEF Chain
    <3>3. CASE i # k /\ c = k
      <4>1. Exists(i) /\ RootOf(i) = root /\ ins[i].idx + 1 = m /\ ins[i].idx \in Nat
        <5>1. Exists(i) /\ RootOf(i) = root /\ ins[i].idx + 1 = m
          BY <2>2, <3>1, <3>3
        <5> QED BY <5>1, RootIn
      <4>2. ins[i].idx = ins[p].idx
        BY <2>1, <2>3, <4>1
      <4>3. i \in Chain(p)
        BY <2>3, <4>1 DEF Chain
      <4>4. i = p
        BY <1>0, <2>1, <4>2, <4>3 DEF Once
      <4> QED BY <1>t, <2>1, <4>4
    <3>4. CASE i # k /\ c # k
      <4>1. Exists(i) /\ c \in RetryChildren(i)
        BY <2>2, <3>1, <3>4 DEF RetryChildren
      <4> QED BY <1>0, <1>t, <4>1 DEF Parent
    <3> QED BY <3>2, <3>3, <3>4
  <2>7. NoChildYet'
    BY <2>1 DEF NoChildYet
  <2> QED BY <2>5, <2>6, <2>7
<1> QED BY <1>1, <1>2, <1>3, NextRows

ChainInv == HeldInv /\ Course /\ Shape /\ Single

LEMMA ChainInvariant == Spec => []ChainInv
<1>1. Init => Shape /\ Single
  <2> SUFFICES ASSUME Init PROVE Shape /\ Single
    OBVIOUS
  <2>1. \A i \in Instance : ~Exists(i)
    BY DEF Init, Exists, Absent
  <2>2. pump.pc = "idle"
    BY DEF Init
  <2> QED BY <2>1, <2>2 DEF Shape, Roots, Dense, PumpBudget, Single, Once, NoChildYet, Parent
<1>2. HeldInv /\ HeldInv' /\ Course /\ Shape /\ Single /\ [Next]_vars => Shape' /\ Single'
  BY NextType, NextStatus, NextShape, NextSingle DEF HeldInv, Course
<1> QED BY <1>1, <1>2, HeldInvariant, CourseInvariant, PTL DEF Spec, ChainInv

\* The rows of a chain are numbered without gap or duplicate and within the budget, also
\* over crashes between the claim and the new row.  It needs the query of existing
\* children to answer: a failed one counts as "no child" (ExistsRetryChild).
THEOREM ChainsInOrder ==
  ASSUME ~DbFaults
  PROVE  Spec => []RetryChain
<1>1. ChainInv => RetryChain
  <2> SUFFICES ASSUME ChainInv, NEW i \in Instance, Exists(i)
               PROVE  /\ ins[i].idx = 0 <=> ins[i].root = None
                      /\ ins[i].idx > 0 => ins[i].idx <= RetryCount[ins[i].job]
                      /\ \A k \in Chain(i) : /\ ins[k].job = ins[i].job
                                             /\ ins[k].idx = ins[i].idx => k = i
                      /\ \A n \in 0 .. ins[i].idx : \E k \in Chain(i) : ins[k].idx = n
    BY DEF RetryChain
  <2>1. TypeOK /\ Roots /\ Dense /\ Once
    BY DEF ChainInv, HeldInv, Shape, Single
  <2>2. \A k \in Instance : Exists(k) => ins[k].job = ins[RootOf(k)].job
    BY <2>1 DEF Roots, RootOf
  <2>3. \A k \in Chain(i) : ins[k].job = ins[i].job
    BY <2>2 DEF Chain
  <2>4. \A k \in Chain(i) : ins[k].idx = ins[i].idx => k = i
    BY <2>1 DEF Once
  <2>5. \A n \in 0 .. ins[i].idx : \E k \in Chain(i) : ins[k].idx = n
    BY <2>1 DEF Dense
  <2>6. /\ ins[i].idx = 0 <=> ins[i].root = None
        /\ ins[i].idx > 0 => ins[i].idx <= RetryCount[ins[i].job]
    BY <2>1 DEF Roots
  <2> QED BY <2>3, <2>4, <2>5, <2>6
<1> QED BY <1>1, ChainInvariant, PTL

\* Of two rows of a chain, the one with the lower number has a child.
LEMMA HasChild ==
  ASSUME TypeOK, Roots, Dense, NEW a \in Instance, NEW b \in Instance, Exists(a), Exists(b),
         RootOf(a) = RootOf(b), ins[a].idx < ins[b].idx
  PROVE  RetryChildren(a) # {}
<1>1. ins[a].idx \in Nat /\ ins[b].idx \in Nat
  BY RootIn
<1>2. PICK c \in Chain(b) : ins[c].idx = ins[a].idx + 1
  BY <1>1 DEF Dense
<1>3. c \in Instance /\ Exists(c) /\ RootOf(c) = RootOf(a) /\ ins[c].root # None
  BY <1>1, <1>2 DEF Chain, Roots
<1>4. c \in RetryChildren(a)
  BY <1>2, <1>3 DEF RetryChildren, RootOf
<1> QED BY <1>4

\* A retry never runs beside the attempt it replaces: of two rows of a chain the one with
\* the lower number has a child, and only finished rows have one.
THEOREM OneAttemptAtATime ==
  ASSUME ~DbFaults
  PROVE  Spec => []OneLiveAttempt
<1>1. ChainInv => OneLiveAttempt
  <2> SUFFICES ASSUME ChainInv, NEW i \in Instance, Exists(i), ~IsTerminal(i),
                      NEW k \in Chain(i), ~IsTerminal(k)
               PROVE  k = i
    BY DEF OneLiveAttempt
  <2>1. TypeOK /\ Roots /\ Dense /\ Once /\ Parent
    BY DEF ChainInv, HeldInv, Shape, Single
  <2>2. ASSUME NEW a \in Instance, NEW b \in Instance, Exists(a), Exists(b),
               RootOf(a) = RootOf(b), ins[a].idx < ins[b].idx
        PROVE  IsTerminal(a)
    BY <2>1, <2>2, HasChild DEF Parent
  <2>3. k \in Instance /\ Exists(k) /\ RootOf(k) = RootOf(i)
    BY DEF Chain
  <2>4. ins[k].idx \in Nat /\ ins[i].idx \in Nat
    BY <2>1, <2>3, RootIn
  <2>5. ins[k].idx = ins[i].idx
    BY <2>2, <2>3, <2>4
  <2> QED BY <2>1, <2>5 DEF Once
<1> QED BY <1>1, ChainInvariant, PTL

-----------------------------------------------------------------------------
(* No retry is lost. *)

LEMMA MarksRetry ==
  ASSUME TypeOK, NEW i \in Instance, Exists(i), ins' = [ins EXCEPT ![i] = WithRetry(@)]
  PROVE  /\ \A q \in Instance : /\ ins'[q].status = ins[q].status
                                /\ ins[q].retryAt => ins'[q].retryAt
         /\ HasBudget(ins[i]) => ins'[i].retryAt
<1> DEFINE row == WithRetry(ins[i])
<1>1. ins[i] \in Row
  BY ExistsRow
<1>2. row.status = ins[i].status /\ row.retryAt = (ins[i].retryAt \/ HasBudget(ins[i]))
  BY <1>1 DEF WithRetry, Row
<1>3. ins' = [ins EXCEPT ![i] = row]
  OBVIOUS
<1> HIDE DEF row
<1>4. \A q \in Instance : ins'[q] = IF q = i THEN row ELSE ins[q]
  BY <1>3 DEF TypeOK
<1> QED BY <1>2, <1>4

LEMMA NextRetry ==
  ASSUME TypeOK, Refs, RowsKept, NoBoot, RetryNeverLost, MaxCrashes = 0, ~DbFaults,
         Reports \cap Retryable = {}, [Next]_vars
  PROVE  RetryNeverLost'
<1> SUFFICES ASSUME NEW q \in Instance, ins'[q].status \in Retryable, HasBudget(ins'[q])
             PROVE  RetryPending(q)'
  BY DEF RetryNeverLost
<1>r. Retryable \subseteq Terminal /\ "queued" \notin Retryable /\ "waiting_receive" \notin Retryable
      /\ StopStatuses \cap Retryable = {} /\ None \notin Instance
  BY SchedulerAssumption DEF Retryable, Terminal, SchedulerAssumption
<1>b. Exists(q) => HasBudget(ins[q])
  BY DEF RowsKept, HasBudget
<1>c. ASSUME Exists(q), NEW k \in Instance, k \in RetryChildren(q)
      PROVE  k \in RetryChildren(q)'
  <2>1. RootOf(q) # None
    BY <1>c, <1>r, RootIn
  <2>2. ins[k] # Absent
    BY <1>c, <2>1 DEF RetryChildren, Absent
  <2>3. Exists(k)
    BY <2>2, RowExists DEF TypeOK, Exists
  <2> QED BY <1>c, <2>3 DEF RowsKept, RetryChildren, RootOf
<1>d. Exists(q) /\ RetryChildren(q) # {} => RetryChildren(q)' # {}
  BY <1>c DEF RetryChildren
<1>0. ins[q].status \in Retryable => /\ Exists(q) /\ HasBudget(ins[q]) /\ RetryPending(q)
                                     /\ RetryChildren(q) # {} => RetryChildren(q)' # {}
  <2>1. ins[q].status \in Retryable => Exists(q)
    BY DEF Exists, Retryable
  <2> QED BY <1>b, <1>d, <2>1 DEF RetryNeverLost
<1>u. phase = "up"
  BY DEF NoBoot
<1>1. ASSUME NEW j \in Job, Trigger(j)  PROVE RetryPending(q)'
  <2>1. CASE AutoAcquire(j)
    BY <2>1, <1>0, <1>r DEF TypeOK, RetryPending, AutoAcquire
  <2>2. CASE AutoAbandon(j)
    BY <2>2, <1>0, <1>r DEF TypeOK, RetryPending, AutoAbandon
  <2>3. ASSUME NEW i \in Instance, AutoCreate(j, i)  PROVE RetryPending(q)'
    BY <2>3, <1>0, <1>r DEF TypeOK, RetryPending, AutoCreate, Goto, NewRow, IsNextId
  <2>4. ASSUME NEW i \in Instance, SubmitManual(j, i)  PROVE RetryPending(q)'
    BY <2>4, <1>0, <1>r DEF TypeOK, RetryPending, SubmitManual, Goto, NewRow, IsNextId
  <2> QED BY <1>1, <2>1, <2>2, <2>3, <2>4 DEF Trigger
<1>2. ASSUME NEW i \in Instance, Dispatch(i)  PROVE RetryPending(q)'
  <2>1. CASE PushPending(i)
    BY <2>1, <1>0, <1>r DEF TypeOK, RetryPending, PushPending, Goto
  <2>2. CASE PopPending(i)
    BY <2>2, <1>0, <1>r DEF TypeOK, RetryPending, PopPending, Goto
  <2>3. CASE DropPending(i)
    BY <2>3, <1>0, <1>r DEF TypeOK, RetryPending, DropPending, Goto
  <2>4. CASE CheckPending(i)
    BY <2>4, <1>0, <1>r DEF TypeOK, RetryPending, CheckPending, Goto
  <2>5. CASE Bind(i)
    BY <2>5, <1>0, <1>r DEF TypeOK, RetryPending, Bind, Goto
  <2>6. CASE PickWorker(i)
    BY <2>6, <1>0, <1>r DEF TypeOK, RetryPending, PickWorker, Goto
  <2>7. CASE HasOnlineWorker(i)
    BY <2>7, <1>0, <1>r DEF TypeOK, RetryPending, HasOnlineWorker, Goto
  <2>8. CASE MarkDispatched(i)
    <3>1. i \in Instance /\ Exists(i) /\ ins[i] \in Row
      BY <2>8, ExistsRow DEF TypeOK, Refs, Exists, MarkDispatched
    <3> QED
      BY <2>8, <1>0, <1>r, <3>1 DEF TypeOK, RetryPending, MarkDispatched, Goto, Row, IsTerminal
  <2>9. CASE Send(i)
    BY <2>9, <1>0, <1>r DEF TypeOK, RetryPending, Send, Goto
  <2>10. CASE Sent(i)
    BY <2>10, <1>0, <1>r DEF TypeOK, RetryPending, Sent, Goto
  <2>11. CASE FailDispatch(i)
    <3>1. i \in Instance /\ Exists(i) /\ ins[i] \in Row
      BY <2>11, ExistsRow DEF TypeOK, Refs, Exists, FailDispatch
    <3> QED
      BY <2>11, <1>0, <1>r, <3>1 DEF TypeOK, RetryPending, FailDispatch, Goto, Row, IsTerminal
  <2>12. CASE ReleaseTask(i)
    BY <2>12, <1>0, <1>r DEF TypeOK, RetryPending, ReleaseTask, Goto, AfterRelease
  <2>13. CASE RetryTask(i)
    <3>1. i \in Instance /\ Exists(i) /\ ins[i] \in Row
      BY <2>13, ExistsRow DEF TypeOK, Refs, Exists, RetryTask
    <3>2. ins' = [ins EXCEPT ![i] = WithRetry(@)]
      BY <2>13 DEF RetryTask
    <3> QED
      BY <2>13, <1>0, <1>r, <3>1, <3>2, MarksRetry DEF TypeOK, RetryPending, RetryTask, Goto
  <2>14. CASE RequeueAfterNoWorker(i)
    BY <2>14, <1>0, <1>r DEF TypeOK, RetryPending, RequeueAfterNoWorker, Goto
  <2> QED BY <1>2, <2>1, <2>2, <2>3, <2>4, <2>5, <2>6, <2>7, <2>8, <2>9, <2>10, <2>11, <2>12,
     <2>13, <2>14 DEF Dispatch
<1>3. ASSUME NEW i \in Instance, Handle(i)  PROVE RetryPending(q)'
  <2>1. ASSUME NEW w \in Worker, NEW s \in Reports, Report(i, w, s)  PROVE RetryPending(q)'
    <3>1. i \in Instance /\ Exists(i) /\ ins[i] \in Row
      BY <2>1, ExistsRow DEF TypeOK, Refs, Exists, Report
    <3> QED
      BY <2>1, <1>0, <1>r, <3>1 DEF TypeOK, RetryPending, Report, Written, Row, IsTerminal
  <2>2. ASSUME NEW s \in StopStatuses, Stop(i, s)  PROVE RetryPending(q)'
    <3>1. i \in Instance /\ Exists(i) /\ ins[i] \in Row
      BY <2>2, ExistsRow DEF TypeOK, Refs, Exists, Stop
    <3> QED
      BY <2>2, <1>0, <1>r, <3>1 DEF TypeOK, RetryPending, Stop, Spend, Row, IsTerminal
  <2>3. CASE ReleaseInFlight(i)
    BY <2>3, <1>0, <1>r DEF TypeOK, RetryPending, ReleaseInFlight
  <2>4. CASE Retry(i)
    <3>1. i \in Instance /\ Exists(i) /\ ins[i] \in Row
      BY <2>4, ExistsRow DEF TypeOK, Refs, Exists, Retryable, Retry
    <3> QED
      BY <2>4, <1>0, <1>r, <3>1 DEF TypeOK, RetryPending, Retry, Spend, Row, IsTerminal
  <2>5. CASE LowerInflight(i)
    BY <2>5, <1>0, <1>r DEF TypeOK, RetryPending, LowerInflight
  <2> QED BY <1>3, <2>1, <2>2, <2>3, <2>4, <2>5 DEF Handle
<1>4. CASE Reaper
  <2>1. ASSUME NEW S \in SUBSET {k \in Instance : Exists(k)}, ReapScan(S)  PROVE RetryPending(q)'
    BY <2>1, <1>0, <1>r DEF TypeOK, RetryPending, ReapScan, Seen
  <2>2. ASSUME NEW r \in reap.todo, ReapJudge(r)  PROVE RetryPending(q)'
    <3>1. r.ins \in Instance /\ Exists(r.ins) /\ ins[r.ins] \in Row
      BY <2>2, ExistsRow DEF TypeOK, Refs, Exists, Scanned, ReapJudge
    <3> QED
      BY <2>2, <1>0, <1>r, <3>1 DEF TypeOK, RetryPending, ReapJudge, Row, IsTerminal
  <2>3. CASE ReapRelease
    BY <2>3, <1>0, <1>r DEF TypeOK, RetryPending, ReapRelease
  <2>4. CASE ReapRetry
    <3>1. reap.ins \in Instance /\ Exists(reap.ins) /\ ins[reap.ins] \in Row
      BY <2>4, ExistsRow DEF TypeOK, Refs, Exists, ReapRetry
    <3>2. ins' = [ins EXCEPT ![reap.ins] = WithRetry(@)]
      BY <2>4 DEF ReapRetry
    <3> QED
      BY <2>4, <1>0, <1>r, <3>1, <3>2, MarksRetry DEF TypeOK, RetryPending, ReapRetry
  <2> QED BY <1>4, <2>1, <2>2, <2>3, <2>4, ScanSets DEF Reaper, ReapScanActive, ReapScanUnbound
<1>5. CASE RetryPump
  <2>1. CASE PumpScan
    BY <2>1, <1>0, <1>r DEF TypeOK, RetryPending, PumpScan
  <2>2. ASSUME NEW i \in pump.todo, ClearNextRetryTime(i)  PROVE RetryPending(q)'
    <3>1. i \in Instance /\ Exists(i) /\ ins[i] \in Row /\ ins' = [ins EXCEPT ![i].retryAt = FALSE]
      BY <2>2, ExistsRow DEF TypeOK, Refs, ClearNextRetryTime
    <3>2. \A x \in Instance : /\ ins'[x].status = ins[x].status
                              /\ x # i => ins'[x].retryAt = ins[x].retryAt
      BY <3>1 DEF TypeOK, Row
    <3>3. ins[q].status \in Retryable
      BY <3>2
    <3>4. CASE q = i /\ ins[i].retryAt
      <4>1. ins[i].idx < RetryCount[ins[i].job]
        BY <1>0, <3>3, <3>4 DEF HasBudget
      <4>2. pump' = [pc |-> "exists", ins |-> i, todo |-> pump.todo \ {i}]
        BY <2>2, <3>4, <4>1 DEF ClearNextRetryTime
      <4> QED BY <3>4, <4>2 DEF RetryPending
    <3>5. CASE ~(q = i /\ ins[i].retryAt)
      BY <2>2, <1>0, <3>2, <3>3, <3>5 DEF ClearNextRetryTime, RetryPending, TypeOK
    <3> QED BY <3>4, <3>5
  <2>3. CASE ExistsRetryChild
    BY <2>3, <1>0, <1>r DEF TypeOK, RetryPending, ExistsRetryChild
  <2>4. CASE PumpAcquire
    BY <2>4, <1>0, <1>r DEF TypeOK, RetryPending, PumpAcquire
  <2>5. CASE PumpDefer
    <3>1. pump.ins \in Instance /\ Exists(pump.ins) /\ ins[pump.ins] \in Row
      BY <2>5, ExistsRow DEF TypeOK, Refs, Exists, PumpDefer
    <3> QED
      BY <2>5, <1>0, <1>r, <3>1 DEF TypeOK, RetryPending, PumpDefer, Row, IsTerminal
  <2>6. ASSUME NEW k \in Instance, PumpCreate(k)  PROVE RetryPending(q)'
    <3>1. /\ pump.ins \in Instance /\ Exists(pump.ins) /\ ~Exists(k)
          /\ RootOf(pump.ins) \in Instance /\ ins[pump.ins].idx + 1 \in Nat
          /\ ins' = [ins EXCEPT ![k] = NewRow(ins[pump.ins].job, "retry", RootOf(pump.ins),
                                              ins[pump.ins].idx + 1)]
      BY <2>6, PumpRow
    <3>2. /\ \A x \in Instance \ {k} : ins'[x] = ins[x]
          /\ ins'[k].status = "queued" /\ ins'[k].root = RootOf(pump.ins)
          /\ ins'[k].idx = ins[pump.ins].idx + 1
      BY <3>1 DEF NewRow, TypeOK
    <3>3. q # k /\ ins[q].status \in Retryable
      BY <1>r, <3>2
    <3>4. CASE q = pump.ins
      <4>1. k \in RetryChildren(q)'
        BY <3>1, <3>2, <3>3, <3>4 DEF RetryChildren, RootOf
      <4> QED BY <4>1 DEF RetryPending
    <3>5. CASE q # pump.ins
      BY <2>6, <1>0, <3>2, <3>3, <3>5 DEF PumpCreate, RetryPending, Goto, TypeOK
    <3> QED BY <3>4, <3>5
  <2>7. CASE PumpCreateFails
    BY <2>7 DEF PumpCreateFails
  <2> QED BY <1>5, <2>1, <2>2, <2>3, <2>4, <2>5, <2>6, <2>7 DEF RetryPump
<1>6. CASE Registry
  <2>1. ASSUME NEW w \in Worker, Heartbeat(w)  PROVE RetryPending(q)'
    BY <2>1, <1>0, <1>r DEF TypeOK, RetryPending, Heartbeat
  <2>2. ASSUME NEW w \in Worker, HeartbeatExpires(w)  PROVE RetryPending(q)'
    BY <2>2, <1>0, <1>r DEF TypeOK, RetryPending, HeartbeatExpires, Spend
  <2>3. CASE Sweep
    BY <2>3, <1>0, <1>r DEF TypeOK, RetryPending, Sweep
  <2>4. CASE WarmupEnds
    BY <2>4, <1>0, <1>r DEF TypeOK, RetryPending, WarmupEnds
  <2> QED BY <1>6, <2>1, <2>2, <2>3, <2>4 DEF Registry
<1>7. CASE Recovery
  <2>1. ASSUME NEW i \in Instance, RecoverStaleActive(i)  PROVE RetryPending(q)'
    BY <2>1, <1>u DEF RecoverStaleActive
  <2>2. CASE RecoverRetry
    BY <2>2, <1>u DEF RecoverRetry
  <2>3. CASE RecoverQueued
    BY <2>3, <1>u DEF RecoverQueued
  <2> QED BY <1>7, <2>1, <2>2, <2>3 DEF Recovery
<1>8. CASE Crash
  BY <1>8 DEF Crash, Spend, TypeOK
<1>9. CASE UNCHANGED vars
  BY <1>9, <1>0 DEF vars, RetryPending
<1> QED BY <1>1, <1>2, <1>3, <1>4, <1>5, <1>6, <1>7, <1>8, <1>9 DEF Next

\* Every failed or timed out attempt with budget left leads to the next one, however the
\* dispatch, the reaper and the pump interleave and whether a slot is free or not.  The
\* hypotheses are where the code does lose one: a crash or a failing call between the
\* failure and the mark, or between the claim of the mark and the new row, and a failure
\* the worker reports itself, which is never marked (the finding of reported_failed).
THEOREM NoRetryLost ==
  ASSUME MaxCrashes = 0, ~DbFaults, Reports \cap Retryable = {}
  PROVE  Spec => []RetryNeverLost
<1>1. Init => RetryNeverLost
  BY DEF Init, RetryNeverLost, Absent, Retryable
<1>2. ChainInv /\ RetryNeverLost /\ [Next]_vars => RetryNeverLost'
  BY NextType, NextRetry DEF ChainInv, HeldInv, Course
<1> QED BY <1>1, <1>2, ChainInvariant, PTL DEF Spec
=============================================================================
