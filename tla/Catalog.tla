-------------------------------- MODULE Catalog --------------------------------
(***************************************************************************)
(* The job table and its cursor next_run_time: JobService, the requests    *)
(* that reach it (REST API, OpenAPI, PowerJob import) and the part of the  *)
(* scheduler that turns a due cursor into a row (runOnce, dispatch and     *)
(* execute up to the create).                                              *)
(*                                                                         *)
(* Time is discrete.  A cron expression is the set of instants it names, a *)
(* fixed interval the set that holds its length; Bad stands for text that  *)
(* does not parse as either.  Columns that no code below reads (name, tag) *)
(* are left out, the limits of a job stay as they are, and the app is one. *)
(* Scheduler models what becomes of a row; here it takes slots of its job, *)
(* which scheduled, manual and retry rows share, and gives them back.      *)
(***************************************************************************)
EXTENDS Naturals, Sequences, FiniteSetsExt

CONSTANTS
    JobId,      \* ids of job rows, in the order of creation
    Source,     \* jobs of PowerJob servers, one per server
    Address,    \* spellings of server addresses
    Fingerprint, \* [Address -> Source]: what the normalised address stands for
    Caller,     \* requests to the API, one each
    Expression, \* schedule expressions
    Requests,   \* [JobId -> definitions the job may be created with by request]
    Edits,      \* fields an update may name, with their values
    Offers,     \* definitions, in the wire format, a PowerJob server may give
    MaxConcurrency, RetryCount, \* [JobId -> Nat], columns of a job
    MaxTime,    \* the last instant
    MaxMishaps, \* crashes, and failing claims and creates of a scheduled row
    Bad, None

Kind == {"cron", "fix_rate", "fix_delay", "delay", "run_at", "api"}

ScheduleFields == {"kind", "expr", "enabled", "start", "end"}
OptionFields == {"jitter", "cap"}

Maybe(S) == S \union {None}

Options == [jitter: Maybe(Nat), cap: Maybe(Nat)]

\* A definition as a request gives it, and a row of the table.
Wanted == [enabled: BOOLEAN, kind: Kind, expr: Expression,
           start: Maybe(Nat), end: Maybe(Nat), options: Options]

Definition == [enabled: BOOLEAN, kind: Kind, expr: Expression,
               start: Maybe(Nat), end: Maybe(Nat), from: JobId \union Source,
               options: Options, next: Maybe(Nat)]

\* What a field may be set to.
Values == [enabled |-> BOOLEAN, kind |-> Kind, expr |-> Expression,
           start |-> Maybe(Nat), end |-> Maybe(Nat), jitter |-> Maybe(Nat), cap |-> Maybe(Nat)]

\* Some fields of a definition, each with a value of its own kind.
PartOfDefinition(f) ==
    /\ DOMAIN f \subseteq ScheduleFields \union OptionFields
    /\ \A k \in DOMAIN f : f[k] \in Values[k]

ASSUME CatalogAssumptions ==
    /\ JobId \subseteq Nat /\ IsFiniteSet(JobId)
    /\ Source \intersect JobId = {}
    /\ Fingerprint \in [Address -> Source]
    /\ {MaxConcurrency, RetryCount} \subseteq [JobId -> Nat]
    /\ {MaxTime, MaxMishaps} \subseteq Nat
    /\ None \notin Nat

\* An instant or a length is positive: ms <= 0 does not parse.
ASSUME DefinitionAssumptions ==
    /\ Expression \subseteq {Bad} \union SUBSET (Nat \ {0})
    /\ Requests \in [JobId -> SUBSET Wanted]
    /\ \A f \in Edits : PartOfDefinition(f)
    /\ Offers \subseteq [type: Nat, expr: Expression, start: Nat, end: Nat, status: Nat]

VARIABLES
    now,
    job,        \* the table: None before the create and after the delete
    born,       \* ids given
    rows,       \* job_instance: what was scheduled or triggered
    list,       \* ListDue: the copy of a due job not yet dispatched
    exec,       \* the goroutine execute of a job
    slots,      \* slots in use of the job, in memory
    call,       \* the request of each caller
    overtaken,  \* history: jobs written by an update that came too late (see UpdateWrite)
    mishaps

vars == <<now, job, born, rows, list, exec, slots, call, overtaken, mishaps>>

-----------------------------------------------------------------------------
(* Schedules *)

IsAutoKind(r) == r.kind \in {"cron", "fix_rate", "fix_delay", "delay"}

\* Only a cron expression can name nothing.
Unparsable(r) == r.expr = Bad \/ (r.expr = {} /\ r.kind # "cron")

Illegal(r) == IsAutoKind(r) /\ Unparsable(r)

\* The zero time, before every other instant.
ZeroTime == 0

\* NextCron: the first instant after t.  A Quartz expression may have none left.
\* One of five fields that names no instant at all (30 February) is parsed by the
\* other library, whose Next then answers with the zero time and no error.
NextCron(r, t) ==
    LET later == {x \in r.expr : x > t}
    IN  IF r.expr = {} THEN ZeroTime
        ELSE IF later = {} THEN None ELSE Min(later)

\* NextByKind.  run_at and api have no cursor; an illegal expression ends up
\* without one as well.
NextByKind(r, t) ==
    CASE r.kind \in {"run_at", "api"} \/ Unparsable(r) -> None
      [] r.kind = "cron" /\ ~Unparsable(r) -> NextCron(r, t)
      [] OTHER -> t + Min(r.expr)

ComputeNextRun(r, t) == IF r.enabled THEN NextByKind(r, t) ELSE None

Valid(r) ==
    /\ r.kind \in Kind
    /\ r.start # None /\ r.end # None => r.start <= r.end
    /\ r.enabled => ~Illegal(r)

\* The wire codes of PowerJob know no delay and no run_at; pjScheduleKind is the
\* same table.
ScheduleKindToWire(k) ==
    CASE k = "cron" -> 2 [] k = "fix_rate" -> 3 [] k = "fix_delay" -> 4 [] OTHER -> 1

WireToScheduleKind(w) ==
    CASE w = 2 -> "cron" [] w = 3 -> "fix_rate" [] w = 4 -> "fix_delay" [] OTHER -> "api"

\* On the wire an unbounded window is 0.
PjMs(t) == IF t = 0 THEN None ELSE t

Ms(t) == IF t = None THEN 0 ELSE t

JobToDTO(r) ==
    [type |-> ScheduleKindToWire(r.kind), expr |-> r.expr,
     start |-> Ms(r.start), end |-> Ms(r.end), status |-> IF r.enabled THEN 1 ELSE 2]

\* What exportJob passes on; saveJob makes an update of it.  The window stays out.
SavedFields(dto) ==
    [kind |-> WireToScheduleKind(dto.type), expr |-> dto.expr, enabled |-> dto.status = 1]

\* Retry options do not come with an import.
ConvertPJJob(o) ==
    [enabled |-> o.status = 1, kind |-> WireToScheduleKind(o.type), expr |-> o.expr,
     start |-> PjMs(o.start), end |-> PjMs(o.end),
     options |-> [jitter |-> None, cap |-> None]]

-----------------------------------------------------------------------------
(* Partial updates: a request names some columns.                          *)

\* Wrong: enabling a job leaves the cursor alone (EnabledIsScheduled).
HasScheduleChangeNotEnabled(f) == DOMAIN f \intersect {"kind", "expr", "start", "end"} # {}

HasScheduleChange(f) == DOMAIN f \intersect ScheduleFields # {}

\* An import names every column but the options.
JobToUpdateFields(r) == [k \in ScheduleFields |-> r[k]]

HasRetryOptsChange(f) == DOMAIN f \intersect OptionFields # {}

ApplyJobFields(r, f) == [k \in DOMAIN r |-> IF k \in DOMAIN f THEN f[k] ELSE r[k]]

\* Wrong: only the option that is named is stored (TypeOK).
MergeRetryOptsNamed(r, f) == [k \in OptionFields \intersect DOMAIN f |-> f[k]]

\* Wrong: the option that is not named is reset (PartialUpdate).
MergeRetryOptsFresh(r, f) == ApplyJobFields([jitter |-> None, cap |-> None], f)

MergeRetryOpts(r, f) == ApplyJobFields(r.options, f)

\* The columns an update writes, computed from the row it has read.
Columns(r, f, t) ==
    LET named  == DOMAIN f \ OptionFields
        cursor == IF HasScheduleChange(f) THEN {"next"} ELSE {}
        opts   == IF HasRetryOptsChange(f) THEN {"options"} ELSE {}
    IN  [k \in named \union cursor \union opts |->
            CASE k = "next" -> ComputeNextRun(ApplyJobFields(r, f), t)
              [] k = "options" -> MergeRetryOpts(r, f)
              [] OTHER -> f[k]]

-----------------------------------------------------------------------------
Idle == [pc |-> "idle", seen |-> None, next |-> None, skip |-> FALSE]
Todo == [pc |-> "todo", target |-> None, named |-> {}, fields |-> None, seen |-> None]
Done == [Todo EXCEPT !.pc = "done"]

Existing == {j \in JobId : job[j] # None}

Init ==
    /\ now = 0
    /\ job = [j \in JobId |-> None]
    /\ born = 0
    /\ rows = << >>
    /\ list = [j \in JobId |-> None]
    /\ exec = [j \in JobId |-> Idle]
    /\ slots = [j \in JobId |-> 0]
    /\ call = [c \in Caller |-> Todo]
    /\ overtaken = {}
    /\ mishaps = 0

Tick ==
    /\ now < MaxTime
    /\ now' = now + 1
    /\ UNCHANGED <<job, born, rows, list, exec, slots, call, overtaken, mishaps>>

-----------------------------------------------------------------------------
(* JobService.Create, and the requests that end in it.                     *)

\* Wrong: the index is forgotten (SourceOnce).
FromTakenNever(from) == FALSE

\* The unique index (app_id, from_id, from_type).
FromTaken(from) == \E j \in Existing : job[j].from = from

NextId == CHOOSE j \in JobId : Cardinality({k \in JobId : k < j}) = born

HasNextId == born < Cardinality(JobId)

Insert(r, from) ==
    /\ Valid(r) /\ ~FromTaken(from)
    /\ born' = born + 1
    /\ job' = [job EXCEPT ![NextId] =
                  [enabled |-> r.enabled, kind |-> r.kind, expr |-> r.expr,
                   start |-> r.start, end |-> r.end, from |-> from,
                   options |-> r.options, next |-> ComputeNextRun(r, now)]]

\* createJob: a source of its own (a new uuid).
CreateJob(r) ==
    /\ HasNextId /\ r \in Requests[NextId]
    /\ Insert(r, NextId)
    /\ UNCHANGED <<now, rows, list, exec, slots, call, overtaken, mishaps>>

\* saveJob without an id: the kind has come as a wire code.
SaveJob(r) == CreateJob(r) /\ r.kind = WireToScheduleKind(ScheduleKindToWire(r.kind))

\* copyJob reads the job and creates a copy of it, its source included.
CopyGet(c, j) ==
    /\ call[c].pc = "todo"
    /\ job[j] # None
    /\ call' = [call EXCEPT ![c] = [Todo EXCEPT !.pc = "create", !.target = job[j].from, !.seen = job[j]]]
    /\ UNCHANGED <<now, job, born, rows, list, exec, slots, overtaken, mishaps>>

\* importJobs: ListByFrom, then an update or a create.  An offer whose
\* expression is illegal is skipped.
ImportList(c, a, o) ==
    /\ call[c].pc = "todo"
    /\ ~Illegal(ConvertPJJob(o))
    /\ LET r == ConvertPJJob(o)
           known == {j \in Existing : job[j].from = Fingerprint[a]}
       IN  call' = [call EXCEPT ![c] =
              IF known # {}
              THEN [Todo EXCEPT !.pc = "update", !.target = Min(known),
                                !.fields = JobToUpdateFields(r)]
              ELSE [Todo EXCEPT !.pc = "create", !.target = Fingerprint[a], !.seen = r]]
    /\ UNCHANGED <<now, job, born, rows, list, exec, slots, overtaken, mishaps>>

\* A conflict on the index is the caller's error.
CreateForCall(c) ==
    /\ call[c].pc = "create"
    /\ IF Valid(call[c].seen) /\ ~FromTaken(call[c].target)
       THEN HasNextId /\ Insert(call[c].seen, call[c].target)
       ELSE UNCHANGED <<job, born>>
    /\ call' = [call EXCEPT ![c] = Done]
    /\ UNCHANGED <<now, rows, list, exec, slots, overtaken, mishaps>>

-----------------------------------------------------------------------------
(* JobService.Update: read and compute, then write.                        *)

UpdateGet(c, j, f) ==
    /\ call' = [call EXCEPT ![c] =
          IF job[j] = None \/ (HasScheduleChange(f) /\ ~Valid(ApplyJobFields(job[j], f)))
          THEN Done
          ELSE [pc |-> "write", target |-> j, named |-> DOMAIN f,
                fields |-> Columns(job[j], f, now), seen |-> job[j]]]
    /\ UNCHANGED <<now, job, born, rows, list, exec, slots, overtaken, mishaps>>

\* updateJob, saveJob with an id
UpdateJob(c, j, f) == call[c].pc = "todo" /\ job[j] # None /\ UpdateGet(c, j, f)

\* enableJob, disableJob
SetJobEnabled(c, j, b) == UpdateJob(c, j, [enabled |-> b])

ImportUpdate(c) ==
    call[c].pc = "update" /\ UpdateGet(c, call[c].target, call[c].fields)

\* exportJob: what it returns is meant to be given to saveJob again.
ExportJob(c, j) ==
    /\ call[c].pc = "todo"
    /\ job[j] # None
    /\ call' = [call EXCEPT ![c] = [Todo EXCEPT !.pc = "update", !.target = j,
                                                !.fields = SavedFields(JobToDTO(job[j]))]]
    /\ UNCHANGED <<now, job, born, rows, list, exec, slots, overtaken, mishaps>>

\* UPDATE ... WHERE id = ?.  The history notes an update whose row changed
\* since it was read, or whose cursor came due before it was written.
UpdateWrite(c) ==
    /\ call[c].pc = "write"
    /\ LET j == call[c].target
           f == call[c].fields
       IN  IF job[j] = None THEN UNCHANGED <<job, overtaken>>
           ELSE /\ job' = [job EXCEPT ![j] = ApplyJobFields(@, f)]
                /\ overtaken' =
                      IF job[j] # call[c].seen
                         \/ ("next" \in DOMAIN f /\ f.next # None /\ f.next <= now)
                      THEN overtaken \union {j} ELSE overtaken
    /\ call' = [call EXCEPT ![c] = Done]
    /\ UNCHANGED <<now, born, rows, list, exec, slots, mishaps>>

-----------------------------------------------------------------------------
(* Delete and Trigger *)

\* One transaction: the job and its rows.  A deleted row keeps its place here.
DeleteJob(c, j) ==
    /\ call[c].pc = "todo"
    /\ job[j] # None
    /\ job' = [job EXCEPT ![j] = None]
    /\ rows' = [n \in DOMAIN rows |->
                   IF rows[n].job = j THEN [rows[n] EXCEPT !.state = "deleted"] ELSE rows[n]]
    /\ call' = [call EXCEPT ![c] = Done]
    /\ UNCHANGED <<now, born, list, exec, slots, overtaken, mishaps>>

\* A row and, in its place, the retries made of it one after the other.  due is None for
\* a row triggered by hand.  Of the rows in flight those held or handed (back by their
\* worker) have a slot; those queued wait for one, and those left with a worker by a
\* crash (loose) have none.
Row(j, due, state) == [job |-> j, due |-> due, state |-> state, retries |-> 0]

\* triggerJob, runJob: the job is read first, the row is created second,
\* whatever the window says and whether the job is enabled or not.
TriggerGet(c, j) ==
    /\ call[c].pc = "todo"
    /\ job[j] # None
    /\ call' = [call EXCEPT ![c] = [Todo EXCEPT !.pc = "submit", !.target = j]]
    /\ UNCHANGED <<now, job, born, rows, list, exec, slots, overtaken, mishaps>>

SubmitManual(c) ==
    /\ call[c].pc = "submit"
    /\ rows' = Append(rows, Row(call[c].target, None, "queued"))
    /\ call' = [call EXCEPT ![c] = Done]
    /\ UNCHANGED <<now, job, born, list, exec, slots, overtaken, mishaps>>

-----------------------------------------------------------------------------
(* The scheduler *)

Due(j) == job[j] # None /\ job[j].enabled /\ job[j].next # None /\ job[j].next <= now

ListDue(j) ==
    /\ Due(j) /\ list[j] = None
    /\ list' = [list EXCEPT ![j] = job[j]]
    /\ UNCHANGED <<now, job, born, rows, exec, slots, call, overtaken, mishaps>>

TryAcquire(j, max) ==
    /\ slots[j] < max
    /\ slots' = [slots EXCEPT ![j] = @ + 1]

\* releaseByJob, and releaseByInstance for a row that is held.
Release(j) == slots' = [slots EXCEPT ![j] = IF @ <= 1 THEN 0 ELSE @ - 1]

\* dispatch: no scheduled run beside any other run of the job that has a slot, its own,
\* a manual one or a retry.
Dispatch(j) ==
    /\ list[j] # None
    /\ TryAcquire(j, 1)
    /\ list' = [list EXCEPT ![j] = None]
    /\ exec' = [exec EXCEPT ![j] = [Idle EXCEPT !.pc = "compute", !.seen = list[j]]]
    /\ UNCHANGED <<now, job, born, rows, call, overtaken, mishaps>>

PassOver(j) ==
    /\ list[j] # None
    /\ slots[j] >= 1
    /\ list' = [list EXCEPT ![j] = None]
    /\ UNCHANGED <<now, job, born, rows, exec, slots, call, overtaken, mishaps>>

BeforeWindow(r, t) == r.start # None /\ t < r.start
AfterWindow(r, t) == r.end # None /\ t > r.end

\* Outside the window the cursor moves all the same: to the start of the
\* window, or away.
NewNext(r, t) ==
    LET n == NextByKind(r, t)
    IN  IF AfterWindow(r, t) THEN None
        ELSE IF BeforeWindow(r, t) /\ (n = None \/ n < r.start) THEN r.start
        ELSE n

ComputeNext(j) ==
    /\ exec[j].pc = "compute"
    /\ LET r == exec[j].seen
       IN  exec' = [exec EXCEPT ![j] =
              [pc |-> "claim", seen |-> r, next |-> NewNext(r, now),
               skip |-> BeforeWindow(r, now) \/ AfterWindow(r, now)]]
    /\ UNCHANGED <<now, job, born, rows, list, slots, call, overtaken, mishaps>>

\* Wrong: the cursor is not compared (ClaimInForce, OncePerDue).
ClaimableAnyway(j) == job[j] # None

\* AdvanceNextRun: WHERE id = ? AND next_run_time = old.
Claimable(j) == job[j] # None /\ job[j].next = exec[j].seen.next

Claim(j) ==
    /\ exec[j].pc = "claim"
    /\ Claimable(j)
    /\ ~exec[j].skip
    /\ job' = [job EXCEPT ![j].next = exec[j].next]
    /\ exec' = [exec EXCEPT ![j].pc = "create"]
    /\ UNCHANGED <<now, born, rows, list, slots, call, overtaken, mishaps>>

\* Wrong: a run outside the window keeps its slot (DueIsTaken).
AbandonKeepsSlot(j) ==
    /\ exec[j].pc = "claim"
    /\ ~Claimable(j) \/ exec[j].skip
    /\ job' = IF Claimable(j) THEN [job EXCEPT ![j].next = exec[j].next] ELSE job
    /\ exec' = [exec EXCEPT ![j] = Idle]
    /\ IF exec[j].skip THEN UNCHANGED slots ELSE Release(j)
    /\ UNCHANGED <<now, born, rows, list, call, overtaken, mishaps>>

\* The cursor has moved, or the window is shut: no row.
Abandon(j) ==
    /\ exec[j].pc = "claim"
    /\ ~Claimable(j) \/ exec[j].skip
    /\ job' = IF Claimable(j) THEN [job EXCEPT ![j].next = exec[j].next] ELSE job
    /\ exec' = [exec EXCEPT ![j] = Idle]
    /\ Release(j)
    /\ UNCHANGED <<now, born, rows, list, call, overtaken, mishaps>>

\* AdvanceNextRun returns an error: the cursor stays, and the job is due again.
ClaimFails(j) ==
    /\ exec[j].pc = "claim"
    /\ mishaps < MaxMishaps
    /\ mishaps' = mishaps + 1
    /\ exec' = [exec EXCEPT ![j] = Idle]
    /\ Release(j)
    /\ UNCHANGED <<now, job, born, rows, list, call, overtaken>>

\* Nothing looks at the job between the claim and the create.
CreateRow(j) ==
    /\ exec[j].pc = "create"
    /\ rows' = Append(rows, Row(j, exec[j].seen.next, "held"))
    /\ exec' = [exec EXCEPT ![j] = Idle]
    /\ UNCHANGED <<now, job, born, list, slots, call, overtaken, mishaps>>

\* Wrong: the slot is not returned (SlotHeld).
CreateRowFailsKeepsSlot(j) ==
    /\ exec[j].pc = "create"
    /\ mishaps < MaxMishaps
    /\ mishaps' = mishaps + 1
    /\ exec' = [exec EXCEPT ![j] = Idle]
    /\ UNCHANGED <<now, job, born, rows, list, slots, call, overtaken>>

\* The cursor is not moved back.
CreateRowFails(j) ==
    /\ exec[j].pc = "create"
    /\ mishaps < MaxMishaps
    /\ mishaps' = mishaps + 1
    /\ exec' = [exec EXCEPT ![j] = Idle]
    /\ Release(j)
    /\ UNCHANGED <<now, job, born, rows, list, call, overtaken>>

-----------------------------------------------------------------------------
(* What a row does with the slots of its job.                              *)

Cap(j) == IF MaxConcurrency[j] < 1 THEN 1 ELSE MaxConcurrency[j]

HasSlot(r) == r.state \in {"held", "handed"}

Becomes(n, r) ==
    /\ rows' = [rows EXCEPT ![n] = r]
    /\ UNCHANGED <<now, job, born, list, exec, call, overtaken, mishaps>>

\* RunManualDispatcher has popped the row and finds a slot.
TakeSlot(n) ==
    /\ rows[n].state = "queued"
    /\ TryAcquire(rows[n].job, Cap(rows[n].job))
    /\ Becomes(n, [rows[n] EXCEPT !.state = "held"])

\* No worker is online: the row gives its slot back and comes to the queue once more.
GiveBack(n) ==
    /\ rows[n].state = "held"
    /\ Release(rows[n].job)
    /\ Becomes(n, [rows[n] EXCEPT !.state = "queued"])

\* Its worker hands a manual row back: it is in no queue and keeps its slot.  (A scheduled
\* row or a retry is ended by the reaper.)
HandBack(n) ==
    /\ rows[n].state = "held" /\ rows[n].due = None /\ rows[n].retries = 0
    /\ Becomes(n, [rows[n] EXCEPT !.state = "handed"])
    /\ UNCHANGED slots

\* A report, Stop, Cancel, the reaper or a failing dispatch ends the row.
EndRow(n) ==
    /\ rows[n].state \in {"queued", "held", "handed", "loose"}
    /\ IF HasSlot(rows[n]) THEN Release(rows[n].job) ELSE UNCHANGED slots
    /\ Becomes(n, [rows[n] EXCEPT !.state = "ended"])

\* The pump makes a retry of a row that failed, if it finds a slot.
RetryRow(n) ==
    /\ rows[n].state = "ended" /\ rows[n].retries < RetryCount[rows[n].job]
    /\ job[rows[n].job] # None
    /\ TryAcquire(rows[n].job, Cap(rows[n].job))
    /\ Becomes(n, [rows[n] EXCEPT !.state = "held", !.retries = @ + 1])

RowStep(n) == TakeSlot(n) \/ GiveBack(n) \/ HandBack(n) \/ EndRow(n) \/ RetryRow(n)

\* The tables stay; slots, goroutines and requests go.  A row that was not sent yet, or that
\* was handed back, is queued and RecoverQueued finds it; the rest is with its worker.
Crash ==
    /\ mishaps < MaxMishaps
    /\ mishaps' = mishaps + 1
    /\ list' = [j \in JobId |-> None]
    /\ exec' = [j \in JobId |-> Idle]
    /\ slots' = [j \in JobId |-> 0]
    /\ \E unsent \in SUBSET {n \in DOMAIN rows : rows[n].state \in {"held", "loose"}} :
          rows' = [n \in DOMAIN rows |->
             CASE n \in unsent \/ rows[n].state = "handed" -> [rows[n] EXCEPT !.state = "queued"]
               [] n \notin unsent /\ rows[n].state = "held" -> [rows[n] EXCEPT !.state = "loose"]
               [] OTHER -> rows[n]]
    /\ call' = [c \in Caller |-> IF call[c] = Todo THEN Todo ELSE Done]
    /\ UNCHANGED <<now, job, born, overtaken>>

-----------------------------------------------------------------------------
Request(c) ==
    \/ \E j \in JobId : CopyGet(c, j) \/ ExportJob(c, j) \/ DeleteJob(c, j) \/ TriggerGet(c, j)
    \/ \E j \in JobId, f \in Edits : UpdateJob(c, j, f)
    \/ \E j \in JobId, b \in BOOLEAN : SetJobEnabled(c, j, b)
    \/ \E a \in Address, o \in Offers : ImportList(c, a, o)

Answer(c) == CreateForCall(c) \/ ImportUpdate(c) \/ UpdateWrite(c) \/ SubmitManual(c)

RunOnce(j) == ListDue(j) \/ Dispatch(j) \/ PassOver(j)

Execute(j) == ComputeNext(j) \/ Claim(j) \/ Abandon(j) \/ CreateRow(j)

Next ==
    \/ Tick
    \/ \E r \in UNION {Requests[j] : j \in JobId} : CreateJob(r) \/ SaveJob(r)
    \/ \E c \in Caller : Request(c) \/ Answer(c)
    \/ \E j \in JobId : RunOnce(j) \/ Execute(j) \/ ClaimFails(j) \/ CreateRowFails(j)
    \/ \E n \in DOMAIN rows : RowStep(n)
    \/ Crash

Spec == Init /\ [][Next]_vars

\* A worker, or the reaper, ends a row of the job that has a slot, unless it was handed back.
LeaveSlot(j) ==
    \E n \in DOMAIN rows : rows[n].job = j /\ rows[n].state = "held" /\ EndRow(n)

\* The loop and its goroutines go on, and while rows of a job have a slot again and again,
\* one ends at last: no row gives its slot back and comes to the queue for ever.
FairSpec ==
    /\ Spec
    /\ \A j \in JobId : WF_vars(RunOnce(j)) /\ WF_vars(Execute(j)) /\ SF_vars(LeaveSlot(j))

-----------------------------------------------------------------------------
(* Properties *)

\* Every variable has its type.
TypeOK ==
    /\ now \in 0..MaxTime
    /\ \A j \in JobId : {job[j], list[j], exec[j].seen} \subseteq Definition \union {None}
    /\ born \in 0..Cardinality(JobId)
    /\ \A n \in DOMAIN rows :
          rows[n] \in [job: JobId, due: Maybe(Nat), retries: Nat,
                       state: {"queued", "held", "handed", "loose", "ended", "deleted"}]
    /\ \A j \in JobId : exec[j].pc \in {"idle", "compute", "claim", "create"}
    /\ slots \in [JobId -> Nat]
    /\ \A c \in Caller : call[c].pc \in {"todo", "create", "update", "write", "submit", "done"}
    /\ overtaken \subseteq JobId
    /\ mishaps \in 0..MaxMishaps

\* The job will never be due again, by its own definition.
Exhausted(r) ==
    \/ ~IsAutoKind(r)
    \/ r.kind = "cron" /\ NextCron(r, now) = None
    \/ AfterWindow(r, now)

\* The comment of Update: a job that is enabled and has a schedule is never
\* without a cursor, after whatever updates, imports, claims and crashes, but
\* for a job some update of which was overtaken.
EnabledIsScheduled ==
    \A j \in Existing \ overtaken :
        job[j].enabled /\ job[j].next = None => Exhausted(job[j])

\* A due instant of a job makes at most one scheduled row, also when the job
\* is listed twice, when the row ends in between, or after a crash.
OncePerDue ==
    \A m, n \in DOMAIN rows :
        m < n /\ rows[m].due # None /\ rows[m].job = rows[n].job /\ rows[m].job \notin overtaken
            => rows[m].due # rows[n].due

\* A source is imported into one job, also by imports at the same time, and
\* no copy shares the source of its original.
SourceOnce == \A j, k \in Existing : job[j].from = job[k].from => j = k

Held(j) == {n \in DOMAIN rows : rows[n].job = j /\ HasSlot(rows[n])}

\* The slots of a job are those of its goroutine and of its rows, scheduled, manual and
\* retries together, and never more than the job allows.
SlotHeld ==
    \A j \in Existing :
        /\ slots[j] = Cardinality(Held(j)) + (IF exec[j].pc # "idle" THEN 1 ELSE 0)
        /\ slots[j] <= Cap(j)

Schedule(r) == [k \in ScheduleFields |-> r[k]]

\* Whatever was read before: a run is claimed for a job that is enabled, under
\* the schedule and the window it has at that moment.
ClaimInForce ==
    [][\A j \in JobId \ overtaken :
          exec[j].pc = "claim" /\ exec'[j].pc = "create"
              => job[j].enabled /\ Schedule(job[j]) = Schedule(exec[j].seen)]_vars

\* An update that was not overtaken leaves what it does not name as it was,
\* the other retry option included.
PartialUpdate ==
    [][\A c \in Caller :
          LET j == call[c].target
          IN  call[c].pc = "write" /\ call'[c].pc = "done" /\ j \in Existing \ overtaken'
                  => /\ \A k \in ScheduleFields \ call[c].named : job'[j][k] = job[j][k]
                     /\ \A k \in OptionFields \ call[c].named :
                            job'[j].options[k] = job[j].options[k]]_vars

HandedBack(j) == \E n \in DOMAIN rows : rows[n].job = j /\ rows[n].state = "handed"

\* A due job does not stay due: it is run, its cursor moves, or it is disabled or deleted.
\* Waiting rows, retries, failing calls and crashes leave no slot behind that would block
\* it; only a manual row that was handed back and that nobody stops does.
DueIsTaken == \A j \in JobId : []<>(~Due(j) \/ HandedBack(j))

=============================================================================
