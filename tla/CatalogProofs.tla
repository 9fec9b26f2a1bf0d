---------------------------- MODULE CatalogProofs ----------------------------
(***************************************************************************)
(* Proofs about Catalog.  Types come first, then what a step does to the   *)
(* tables (NextCases, WriteEffect, InsertEffect, CursorMoves), then one    *)
(* lemma per conjunct of CatalogInv, and the theorems at the end.          *)
(***************************************************************************)
EXTENDS Catalog, FiniteSetTheorems, TLAPS

(***************************************************************************)
(* Instants                                                                *)
(***************************************************************************)

\* A nonempty set of numbers has a least one: the sets 0 .. n are well
\* founded by inclusion.
LEMMA LeastInstant ==
  ASSUME NEW S \in SUBSET Nat, S # {}
  PROVE  \E n \in S : \A m \in S : n <= m
<1> DEFINE T == {0 .. n : n \in S}
<1>1. T \subseteq FiniteSubsetsOf(Nat) /\ T # {}
  <2>1. ASSUME NEW x \in T  PROVE x \in FiniteSubsetsOf(Nat)
    <3>1. PICK n \in S : x = 0 .. n
      OBVIOUS
    <3>2. n \in Int /\ 0 \in Int /\ 0 .. n \in SUBSET Nat
      OBVIOUS
    <3>3. IsFiniteSet(0 .. n)
      BY <3>2, FS_Interval
    <3> QED BY <3>1, <3>2, <3>3 DEF FiniteSubsetsOf
  <2> QED BY <2>1
<1>2. PICK x \in T : \A y \in T : ~ (<<y, x>> \in StrictSubsetOrdering(Nat))
  <2>1. IsWellFoundedOn(StrictSubsetOrdering(Nat), FiniteSubsetsOf(Nat))
    BY FS_StrictSubsetOrderingWellFounded
  <2> HIDE DEF T
  <2> QED BY <1>1, <2>1, WFMin
<1>3. PICK n \in S : x = 0 .. n
  BY <1>2
<1>4. ASSUME NEW m \in S, m < n  PROVE FALSE
  <2>1. 0 .. m \in SUBSET Nat /\ 0 .. n \in SUBSET Nat
    BY <1>4
  <2>2. 0 .. m \subseteq 0 .. n /\ n \in 0 .. n /\ n \notin 0 .. m
    BY <1>4
  <2>3. <<0 .. m, 0 .. n>> \in StrictSubsetOrdering(Nat)
    BY <2>1, <2>2 DEF StrictSubsetOrdering
  <2> QED BY <1>2, <1>3, <2>3
<1> QED BY <1>4

LEMMA MinIsLeast ==
  ASSUME NEW S \in SUBSET Nat, S # {}
  PROVE  Min(S) \in S /\ \A m \in S : Min(S) <= m
BY LeastInstant DEF Min

\* A cron expression that names no instant at all.
NeverNames(r) == r.kind = "cron" /\ r.expr = {} /\ ~Unparsable(r)

\* The next instant of a schedule is later than t, but for the expression
\* that names none; when there is no next instant, it is known why.
LEMMA NextIsLater ==
  ASSUME NEW r, r.kind \in Kind, r.expr \in Expression, NEW t \in Nat
  PROVE  /\ NextByKind(r, t) \in Maybe(Nat)
         /\ NextByKind(r, t) # None => \/ NextByKind(r, t) > t
                                       \/ NeverNames(r) /\ NextByKind(r, t) = ZeroTime
         /\ NeverNames(r) => NextByKind(r, t) = ZeroTime
         /\ NextByKind(r, t) = None /\ ~Illegal(r) =>
               ~IsAutoKind(r) \/ (r.kind = "cron" /\ NextCron(r, t) = None)
<1>1. CASE r.kind \in {"run_at", "api"} \/ Unparsable(r)
  <2>1. NextByKind(r, t) = None /\ ~NeverNames(r)
    BY <1>1 DEF NextByKind, NeverNames
  <2> QED BY <1>1, <2>1 DEF Maybe, Illegal, IsAutoKind
<1>2. CASE r.kind = "cron" /\ ~Unparsable(r)
  <2>1. r.expr \in SUBSET (Nat \ {0})
    BY <1>2, DefinitionAssumptions DEF Unparsable
  <2>2. NextByKind(r, t) = NextCron(r, t)
    BY <1>2 DEF NextByKind
  <2> DEFINE later == {x \in r.expr : x > t}
  <2>3. CASE r.expr = {}
    BY <1>2, <2>2, <2>3 DEF NextCron, NeverNames, ZeroTime, Maybe
  <2>4. CASE r.expr # {} /\ later = {}
    BY <1>2, <2>2, <2>4, CatalogAssumptions DEF NextCron, NeverNames, Maybe
  <2>5. CASE r.expr # {} /\ later # {}
    <3>1. later \in SUBSET Nat
      BY <2>1
    <3>2. Min(later) \in later
      BY <2>5, <3>1, MinIsLeast
    <3>3. NextByKind(r, t) = Min(later)
      BY <2>2, <2>5 DEF NextCron
    <3>4. NextByKind(r, t) \in Nat /\ NextByKind(r, t) > t
      BY <3>1, <3>2, <3>3
    <3> QED BY <2>5, <3>4, CatalogAssumptions DEF NeverNames, Maybe
  <2> QED BY <2>3, <2>4, <2>5
<1>3. CASE r.kind \notin {"run_at", "api", "cron"} /\ ~Unparsable(r)
  <2>1. r.expr \in SUBSET Nat /\ r.expr # {} /\ 0 \notin r.expr
    BY <1>3, DefinitionAssumptions DEF Unparsable
  <2>2. Min(r.expr) \in r.expr
    BY <2>1, MinIsLeast
  <2>3. NextByKind(r, t) = t + Min(r.expr)
    BY <1>3 DEF NextByKind
  <2>4. NextByKind(r, t) \in Nat /\ NextByKind(r, t) > t
    BY <2>1, <2>2, <2>3
  <2> QED BY <1>3, <2>4, CatalogAssumptions DEF NeverNames, Maybe
<1> QED BY <1>1, <1>2, <1>3

(***************************************************************************)
(* Types                                                                   *)
(***************************************************************************)

ExecState == [pc: {"idle", "compute", "claim", "create"}, seen: Maybe(Definition),
              next: Maybe(Nat), skip: BOOLEAN]

RowState == [job: JobId, due: Maybe(Nat), retries: Nat,
             state: {"queued", "held", "handed", "loose", "ended", "deleted"}]

\* The columns an update is about to write: each is named by the request, or
\* is the cursor, or the options with those not named as they were read.  The
\* cursor is among them when anything of the schedule is.
PendingWrite(w) ==
    /\ w.target \in JobId /\ w.seen \in Definition
    /\ DOMAIN w.fields \subseteq ScheduleFields \union {"options", "next"}
    /\ \A k \in ScheduleFields \intersect DOMAIN w.fields :
           k \in w.named /\ "next" \in DOMAIN w.fields /\ w.fields[k] \in Values[k]
    /\ "next" \in DOMAIN w.fields => w.fields["next"] \in Maybe(Nat)
    /\ "options" \in DOMAIN w.fields =>
          /\ w.fields["options"] \in Options
          /\ \A k \in OptionFields \ w.named : w.fields["options"][k] = w.seen.options[k]

RequestType(r) ==
    /\ r.pc \in {"todo", "create", "update", "write", "submit", "done"}
    /\ r.pc = "create" => r.target \in JobId \union Source /\ r.seen \in Wanted \union Definition
    /\ r.pc = "update" => r.target \in JobId /\ PartOfDefinition(r.fields)
    /\ r.pc = "write" => PendingWrite(r)
    /\ r.pc = "submit" => r.target \in JobId

Types ==
    /\ now \in 0 .. MaxTime /\ mishaps \in 0 .. MaxMishaps
    /\ born \in 0 .. Cardinality(JobId)
    /\ job \in [JobId -> Maybe(Definition)]
    /\ rows \in Seq(RowState)
    /\ list \in [JobId -> Maybe(Definition)]
    /\ exec \in [JobId -> ExecState]
    /\ \A j \in JobId : exec[j].pc # "idle" => exec[j].seen \in Definition
    /\ slots \in [JobId -> Nat]
    /\ DOMAIN call = Caller /\ \A c \in Caller : RequestType(call[c])
    /\ overtaken \subseteq JobId

\* Setting columns of a job gives a job.
LEMMA ApplyIsDefinition ==
  ASSUME NEW r \in Definition, NEW f,
         \A k \in DOMAIN f \intersect ScheduleFields : f[k] \in Values[k],
         "next" \in DOMAIN f => f["next"] \in Maybe(Nat),
         "options" \in DOMAIN f => f["options"] \in Options,
         "from" \notin DOMAIN f
  PROVE  ApplyJobFields(r, f) \in Definition
BY DEF ApplyJobFields, Definition, ScheduleFields, Values

LEMMA OptionsMerged ==
  ASSUME NEW r \in Definition, NEW f, PartOfDefinition(f)
  PROVE  /\ MergeRetryOpts(r, f) \in Options
         /\ \A k \in OptionFields \ DOMAIN f : MergeRetryOpts(r, f)[k] = r.options[k]
BY DEF MergeRetryOpts, ApplyJobFields, Definition, Options, OptionFields, PartOfDefinition, Values

LEMMA ColumnsPending ==
  ASSUME NEW j \in JobId, NEW r \in Definition, NEW f, PartOfDefinition(f), NEW t \in Nat
  PROVE  PendingWrite([pc |-> "write", target |-> j, named |-> DOMAIN f,
                       fields |-> Columns(r, f, t), seen |-> r])
<1> DEFINE m == ApplyJobFields(r, f)
           g == Columns(r, f, t)
<1>1. m \in Definition
  BY ApplyIsDefinition DEF PartOfDefinition, ScheduleFields, OptionFields
<1>2. ComputeNextRun(m, t) \in Maybe(Nat)
  BY <1>1, NextIsLater DEF ComputeNextRun, Maybe, Definition
<1>3. DOMAIN g = (DOMAIN f \ OptionFields)
                    \union (IF HasScheduleChange(f) THEN {"next"} ELSE {})
                    \union (IF HasRetryOptsChange(f) THEN {"options"} ELSE {})
  BY DEF Columns
<1>4. "next" \in DOMAIN g => g["next"] = ComputeNextRun(m, t)
  BY DEF Columns
<1>5. "options" \in DOMAIN g => g["options"] = MergeRetryOpts(r, f)
  BY DEF Columns
<1>6. \A k \in DOMAIN g \ {"next", "options"} : g[k] = f[k] /\ k \in DOMAIN f
  BY DEF Columns
<1> HIDE DEF m, g
<1>7. \A k \in ScheduleFields \intersect DOMAIN g :
         k \in DOMAIN f /\ "next" \in DOMAIN g /\ g[k] \in Values[k]
  BY <1>3, <1>6 DEF PartOfDefinition, HasScheduleChange, ScheduleFields
<1>8. DOMAIN g \subseteq ScheduleFields \union {"options", "next"}
  BY <1>3 DEF PartOfDefinition
<1> QED
  BY <1>2, <1>4, <1>5, <1>7, <1>8, OptionsMerged DEF PendingWrite, g

(***************************************************************************)
(* Ids: the next one is a job id that comes after exactly those given.     *)
(***************************************************************************)

Before(j) == {k \in JobId : k < j}

Given(j) == Cardinality(Before(j)) < born

LEMMA Ranks ==
  ASSUME NEW j \in JobId
  PROVE  /\ IsFiniteSet(Before(j)) /\ Cardinality(Before(j)) \in Nat
         /\ \A k \in JobId : k < j => Cardinality(Before(k)) < Cardinality(Before(j))
<1>1. ASSUME NEW k \in JobId  PROVE IsFiniteSet(Before(k)) /\ Cardinality(Before(k)) \in Nat
  <2>1. Before(k) \in SUBSET JobId
    BY DEF Before
  <2> QED BY <2>1, CatalogAssumptions, FS_Subset, FS_CardinalityType
<1>2. ASSUME NEW k \in JobId, k < j
      PROVE  Cardinality(Before(k)) < Cardinality(Before(j))
  <2>1. Before(k) \in SUBSET Before(j) /\ k \in Before(j) /\ k \notin Before(k)
    <3>1. k \in Nat /\ j \in Nat /\ \A l \in JobId : l \in Nat
      BY CatalogAssumptions
    <3>2. ASSUME NEW l \in JobId, l < k  PROVE l < j
      BY <1>2, <3>1, <3>2
    <3>3. ~(k < k)
      BY <3>1
    <3> QED BY <1>2, <3>2, <3>3 DEF Before
  <2>2. /\ Cardinality(Before(k)) <= Cardinality(Before(j))
        /\ Cardinality(Before(j)) = Cardinality(Before(k)) => Before(j) = Before(k)
    BY <1>1, <2>1, FS_Subset
  <2> QED BY <1>1, <2>1, <2>2
<1> QED BY <1>1, <1>2

\* Not all ids can come after fewer than n others, so there is a first that
\* comes after n; it comes after exactly n.
LEMMA NextIdFresh ==
  ASSUME born \in Nat, HasNextId
  PROVE  NextId \in JobId /\ Cardinality(Before(NextId)) = born
<1> DEFINE Early == {j \in JobId : Given(j)}
           Late  == JobId \ Early
<1>1. Cardinality(Early) <= born
  <2> DEFINE f == [j \in Early |-> Cardinality(Before(j))]
             T == 0 .. (born - 1)
  <2>1. IsFiniteSet(T) /\ Cardinality(T) = born
    BY FS_Interval
  <2>2. f \in [Early -> T]
    BY Ranks DEF Given
  <2>3. ASSUME NEW j \in Early, NEW k \in Early, f[j] = f[k]  PROVE j = k
    <3>1. j \in Nat /\ k \in Nat /\ Cardinality(Before(j)) = Cardinality(Before(k))
      BY <2>3, CatalogAssumptions
    <3>2. ~(j < k) /\ ~(k < j)
      BY <3>1, Ranks
    <3> QED BY <3>1, <3>2
  <2>4. f \in Injection(Early, T)
    BY <2>2, <2>3 DEF Injection, IsInjective
  <2>5. Cardinality(Early) <= Cardinality(T)
    BY <2>1, <2>4, FS_Injection
  <2> QED BY <2>1, <2>5
<1>2. Late # {}
  <2>1. SUFFICES ASSUME Late = {}  PROVE FALSE
    OBVIOUS
  <2>2. Early = JobId
    BY <2>1
  <2>3. Cardinality(JobId) \in Nat /\ born < Cardinality(JobId)
    BY CatalogAssumptions, FS_CardinalityType DEF HasNextId
  <2>4. Cardinality(JobId) <= born
    BY <1>1, <2>2
  <2> QED BY <2>3, <2>4
<1>3. PICK j \in Late : \A k \in Late : j <= k
  <2>1. Late \in SUBSET Nat
    BY CatalogAssumptions
  <2> QED BY <1>2, <2>1, LeastInstant
<1>4. Before(j) \in SUBSET Early
  <2>1. j \in Nat /\ \A k \in JobId : k \in Nat
    BY <1>3, CatalogAssumptions
  <2>2. ASSUME NEW k \in JobId, k < j  PROVE k \in Early
    BY <1>3, <2>1, <2>2
  <2> QED BY <2>2 DEF Before
<1>5. IsFiniteSet(Early) /\ Cardinality(Early) \in Nat
  <2>1. Early \in SUBSET JobId
    OBVIOUS
  <2> QED BY <2>1, CatalogAssumptions, FS_Subset, FS_CardinalityType
<1>6. Cardinality(Before(j)) <= Cardinality(Early)
  BY <1>4, <1>5, FS_Subset
<1>7. j \in JobId /\ Cardinality(Before(j)) = born
  BY <1>1, <1>5, <1>6, Ranks DEF Given
<1>8. \E k \in JobId : Cardinality({l \in JobId : l < k}) = born
  BY <1>7 DEF Before
<1> QED BY <1>8 DEF NextId, Before

(***************************************************************************)
(* Slots                                                                   *)
(***************************************************************************)

LEMMA AcquireSlot ==
  ASSUME slots \in [JobId -> Nat], NEW k \in JobId, NEW max \in Nat, TryAcquire(k, max)
  PROVE  /\ slots' \in [JobId -> Nat]
         /\ slots[k] < max /\ slots'[k] = slots[k] + 1
         /\ \A j \in JobId \ {k} : slots'[j] = slots[j]
BY DEF TryAcquire

LEMMA ReleaseSlot ==
  ASSUME slots \in [JobId -> Nat], NEW k \in JobId, Release(k)
  PROVE  /\ slots' \in [JobId -> Nat]
         /\ slots[k] > 0 => slots'[k] = slots[k] - 1
         /\ \A j \in JobId \ {k} : slots'[j] = slots[j]
BY DEF Release

LEMMA CapType ==
  ASSUME NEW j \in JobId
  PROVE  Cap(j) \in Nat /\ 1 <= Cap(j)
<1>1. MaxConcurrency[j] \in Nat
  BY CatalogAssumptions
<1> QED BY <1>1 DEF Cap

LEMMA RowStepFrame ==
  ASSUME NEW n, RowStep(n)
  PROVE  UNCHANGED <<now, job, born, list, exec, call, overtaken, mishaps>>
BY DEF RowStep, TakeSlot, GiveBack, HandBack, EndRow, RetryRow, Becomes

\* A row takes a slot of its job, gives one back, or does neither; it keeps its job and its
\* due instant.
LEMMA RowStepEffect ==
  ASSUME Types, NEW n \in DOMAIN rows, RowStep(n)
  PROVE  LET k == rows[n].job
         IN  /\ k \in JobId /\ slots' \in [JobId -> Nat]
             /\ \E r \in RowState :
                   /\ rows' = [rows EXCEPT ![n] = r]
                   /\ r.job = k /\ r.due = rows[n].due
                   /\ \/ ~HasSlot(rows[n]) /\ HasSlot(r) /\ TryAcquire(k, Cap(k))
                      \/ HasSlot(rows[n]) /\ ~HasSlot(r) /\ Release(k)
                      \/ HasSlot(rows[n]) = HasSlot(r) /\ UNCHANGED slots
<1> DEFINE k == rows[n].job
           Effect(r) == /\ rows' = [rows EXCEPT ![n] = r]
                        /\ r.job = k /\ r.due = rows[n].due
                        /\ \/ ~HasSlot(rows[n]) /\ HasSlot(r) /\ TryAcquire(k, Cap(k))
                           \/ HasSlot(rows[n]) /\ ~HasSlot(r) /\ Release(k)
                           \/ HasSlot(rows[n]) = HasSlot(r) /\ UNCHANGED slots
<1>1. PICK old \in RowState : old = rows[n]
  <2>1. rows \in Seq(RowState) /\ n \in 1 .. Len(rows)
    BY DEF Types
  <2> QED BY <2>1
<1>2. k \in JobId
  BY <1>1 DEF RowState
<1>3. \E r \in RowState : Effect(r)
  <2>1. CASE TakeSlot(n)
    <3> DEFINE r == [rows[n] EXCEPT !.state = "held"]
    <3>1. r \in RowState /\ Effect(r)
      BY <1>1, <2>1 DEF TakeSlot, Becomes, HasSlot, RowState
    <3> QED BY <3>1
  <2>2. CASE GiveBack(n)
    <3> DEFINE r == [rows[n] EXCEPT !.state = "queued"]
    <3>1. r \in RowState /\ Effect(r)
      BY <1>1, <2>2 DEF GiveBack, Becomes, HasSlot, RowState
    <3> QED BY <3>1
  <2>3. CASE HandBack(n)
    <3> DEFINE r == [rows[n] EXCEPT !.state = "handed"]
    <3>1. r \in RowState /\ Effect(r)
      BY <1>1, <2>3 DEF HandBack, Becomes, HasSlot, RowState
    <3> QED BY <3>1
  <2>4. CASE EndRow(n)
    <3> DEFINE r == [rows[n] EXCEPT !.state = "ended"]
    <3>1. r \in RowState /\ Effect(r)
      BY <1>1, <2>4 DEF EndRow, Becomes, HasSlot, RowState
    <3> QED BY <3>1
  <2>5. CASE RetryRow(n)
    <3> DEFINE r == [rows[n] EXCEPT !.state = "held", !.retries = @ + 1]
    <3>1. r \in RowState /\ r.job = k /\ r.due = rows[n].due /\ r.state = "held"
      <4>1. old.retries + 1 \in Nat
        BY DEF RowState
      <4> QED BY <1>1, <4>1 DEF RowState
    <3>2. rows' = [rows EXCEPT ![n] = r] /\ rows[n].state = "ended" /\ TryAcquire(k, Cap(k))
      BY <2>5 DEF RetryRow, Becomes
    <3> HIDE DEF r
    <3>3. Effect(r)
      BY <3>1, <3>2 DEF HasSlot
    <3> QED BY <3>1, <3>3
  <2> QED BY <2>1, <2>2, <2>3, <2>4, <2>5 DEF RowStep
<1>4. slots' \in [JobId -> Nat]
  BY <1>2, <1>3, AcquireSlot, ReleaseSlot, CapType DEF Types
<1> QED BY <1>2, <1>3, <1>4

(***************************************************************************)
(* Every step keeps the types                                              *)
(***************************************************************************)

LEMMA InsertTypes ==
  ASSUME Types, NEW r \in Wanted \union Definition, NEW from \in JobId \union Source,
         HasNextId, Insert(r, from)
  PROVE  /\ job' \in [JobId -> Maybe(Definition)]
         /\ born' \in 0 .. Cardinality(JobId)
<1>1. born' \in 0 .. Cardinality(JobId)
  BY CatalogAssumptions, FS_CardinalityType DEF Types, HasNextId, Insert
<1> DEFINE new == [enabled |-> r.enabled, kind |-> r.kind, expr |-> r.expr,
                   start |-> r.start, end |-> r.end, from |-> from,
                   options |-> r.options, next |-> ComputeNextRun(r, now)]
<1>2. r.kind \in Kind /\ r.expr \in Expression /\ now \in Nat
  BY CatalogAssumptions DEF Types, Wanted, Definition
<1>3. ComputeNextRun(r, now) \in Maybe(Nat)
  BY <1>2, NextIsLater DEF ComputeNextRun, Maybe
<1>4. new \in Definition
  BY <1>3 DEF Wanted, Definition
<1>5. job' = [job EXCEPT ![NextId] = new]
  BY DEF Insert
<1> HIDE DEF new
<1> QED BY <1>1, <1>4, <1>5 DEF Types, Maybe

\* A request that has gone on to a state of its type.
LEMMA CallTypes ==
  ASSUME Types, NEW c \in Caller, NEW v, RequestType(v), call' = [call EXCEPT ![c] = v]
  PROVE  DOMAIN call' = Caller /\ \A d \in Caller : RequestType(call'[d])
BY DEF Types

LEMMA DoneType == RequestType(Todo) /\ RequestType(Done)
BY DEF RequestType, Todo, Done

LEMMA UpdateGetTypes ==
  ASSUME Types, NEW c \in Caller, NEW j \in JobId, NEW f, PartOfDefinition(f), UpdateGet(c, j, f)
  PROVE  DOMAIN call' = Caller /\ \A d \in Caller : RequestType(call'[d])
<1>1. CASE job[j] = None \/ (HasScheduleChange(f) /\ ~Valid(ApplyJobFields(job[j], f)))
  <2>1. call' = [call EXCEPT ![c] = Done]
    BY <1>1 DEF UpdateGet
  <2> QED BY <2>1, CallTypes, DoneType
<1>2. CASE ~(job[j] = None \/ (HasScheduleChange(f) /\ ~Valid(ApplyJobFields(job[j], f))))
  <2> DEFINE w == [pc |-> "write", target |-> j, named |-> DOMAIN f,
                   fields |-> Columns(job[j], f, now), seen |-> job[j]]
  <2>1. call' = [call EXCEPT ![c] = w]
    BY <1>2 DEF UpdateGet
  <2>2. job[j] \in Definition /\ now \in Nat
    BY <1>2, CatalogAssumptions DEF Types, Maybe
  <2>3. PendingWrite(w)
    BY <2>2, ColumnsPending
  <2>4. w.pc = "write"
    OBVIOUS
  <2> HIDE DEF w
  <2>5. RequestType(w)
    BY <2>3, <2>4 DEF RequestType
  <2> QED BY <2>1, <2>5, CallTypes
<1> QED BY <1>1, <1>2

LEMMA OfferTypes ==
  ASSUME NEW o \in Offers
  PROVE  /\ ConvertPJJob(o) \in Wanted
         /\ PartOfDefinition(JobToUpdateFields(ConvertPJJob(o)))
<1>1. o \in [type: Nat, expr: Expression, start: Nat, end: Nat, status: Nat]
  BY DefinitionAssumptions
<1>2. ConvertPJJob(o) \in Wanted
  BY <1>1 DEF ConvertPJJob, Wanted, Options, Maybe, PjMs, WireToScheduleKind, Kind
<1> DEFINE r == ConvertPJJob(o)
<1> HIDE DEF r
<1>3. PartOfDefinition(JobToUpdateFields(r))
  <2>1. r \in Wanted
    BY <1>2 DEF r
  <2> QED BY <2>1 DEF JobToUpdateFields, PartOfDefinition, ScheduleFields, Wanted, Values
<1> QED BY <1>2, <1>3 DEF r

LEMMA SavedFieldsTypes ==
  ASSUME NEW r \in Definition
  PROVE  PartOfDefinition(SavedFields(JobToDTO(r)))
BY DEF SavedFields, JobToDTO, PartOfDefinition, Definition, Values, Kind,
       WireToScheduleKind, ScheduleFields

LEMMA RequestTypes ==
  ASSUME Types, NEW c \in Caller, Request(c) \/ Answer(c)
  PROVE  Types'
<1>1. now \in Nat /\ JobId \subseteq Nat
  BY CatalogAssumptions DEF Types
<1> DEFINE CallsTyped == DOMAIN call' = Caller /\ \A d \in Caller : RequestType(call'[d])
<1>2. ASSUME NEW j \in JobId, CopyGet(c, j)  PROVE Types'
  <2> DEFINE v == [Todo EXCEPT !.pc = "create", !.target = job[j].from, !.seen = job[j]]
  <2>1. job[j] \in Definition
    BY <1>2 DEF CopyGet, Types, Maybe
  <2>2. v.pc = "create" /\ v.target = job[j].from /\ v.seen = job[j]
    BY DEF Todo
  <2>3. call' = [call EXCEPT ![c] = v]
    BY <1>2 DEF CopyGet
  <2> HIDE DEF v
  <2>4. RequestType(v)
    BY <2>1, <2>2 DEF RequestType, Definition
  <2>5. CallsTyped
    BY <2>3, <2>4, CallTypes
  <2> QED BY <1>2, <2>5 DEF CopyGet, Types
<1>3. ASSUME NEW j \in JobId, ExportJob(c, j)  PROVE Types'
  <2> DEFINE v == [Todo EXCEPT !.pc = "update", !.target = j,
                               !.fields = SavedFields(JobToDTO(job[j]))]
  <2>1. job[j] \in Definition
    BY <1>3 DEF ExportJob, Types, Maybe
  <2>2. v.pc = "update" /\ v.target = j /\ v.fields = SavedFields(JobToDTO(job[j]))
    BY DEF Todo
  <2>3. call' = [call EXCEPT ![c] = v]
    BY <1>3 DEF ExportJob
  <2> HIDE DEF v
  <2>4. RequestType(v)
    BY <2>1, <2>2, SavedFieldsTypes DEF RequestType
  <2>5. CallsTyped
    BY <2>3, <2>4, CallTypes
  <2> QED BY <1>3, <2>5 DEF ExportJob, Types
<1>4. ASSUME NEW j \in JobId, DeleteJob(c, j)  PROVE Types'
  <2>1. CallsTyped
    BY <1>4, CallTypes, DoneType DEF DeleteJob
  <2>2. job' \in [JobId -> Maybe(Definition)]
    BY <1>4 DEF DeleteJob, Types, Maybe
  <2>3. rows' \in Seq(RowState)
    <3>1. /\ DOMAIN rows = 1 .. Len(rows) /\ Len(rows) \in Nat
          /\ \A n \in DOMAIN rows : rows[n] \in RowState
      BY DEF Types
    <3>2. /\ DOMAIN rows' = DOMAIN rows
          /\ rows' = [n \in DOMAIN rows |-> rows'[n]]
          /\ \A n \in DOMAIN rows : rows'[n] \in RowState
      BY <1>4, <3>1 DEF DeleteJob, RowState
    <3> QED BY <3>1, <3>2
  <2> QED BY <1>4, <2>1, <2>2, <2>3 DEF DeleteJob, Types
<1>5. ASSUME NEW j \in JobId, TriggerGet(c, j)  PROVE Types'
  <2> DEFINE v == [Todo EXCEPT !.pc = "submit", !.target = j]
  <2>1. v.pc = "submit" /\ v.target = j
    BY DEF Todo
  <2>2. call' = [call EXCEPT ![c] = v]
    BY <1>5 DEF TriggerGet
  <2> HIDE DEF v
  <2>3. RequestType(v)
    BY <2>1 DEF RequestType
  <2>4. CallsTyped
    BY <2>2, <2>3, CallTypes
  <2> QED BY <1>5, <2>4 DEF TriggerGet, Types
<1>6. ASSUME NEW j \in JobId, NEW f, PartOfDefinition(f), UpdateGet(c, j, f)  PROVE Types'
  BY <1>6, UpdateGetTypes DEF UpdateGet, Types
<1>7. ASSUME NEW j \in JobId, NEW f \in Edits, UpdateJob(c, j, f)  PROVE Types'
  BY <1>6, <1>7, DefinitionAssumptions DEF UpdateJob
<1>8. ASSUME NEW j \in JobId, NEW b \in BOOLEAN, SetJobEnabled(c, j, b)  PROVE Types'
  <2>1. PartOfDefinition([enabled |-> b])
    BY DEF PartOfDefinition, ScheduleFields, Values
  <2> QED BY <1>6, <1>8, <2>1 DEF SetJobEnabled, UpdateJob
<1>9. ASSUME NEW a \in Address, NEW o \in Offers, ImportList(c, a, o)  PROVE Types'
  <2> DEFINE r == ConvertPJJob(o)
             known == {j \in Existing : job[j].from = Fingerprint[a]}
             v == IF known # {}
                  THEN [Todo EXCEPT !.pc = "update", !.target = Min(known),
                                    !.fields = JobToUpdateFields(r)]
                  ELSE [Todo EXCEPT !.pc = "create", !.target = Fingerprint[a], !.seen = r]
  <2>1. r \in Wanted /\ PartOfDefinition(JobToUpdateFields(r)) /\ Fingerprint[a] \in Source
    BY OfferTypes, CatalogAssumptions
  <2>2. known # {} => Min(known) \in JobId
    <3>1. known \in SUBSET Nat /\ known \subseteq JobId
      BY <1>1 DEF Existing
    <3> QED BY <3>1, MinIsLeast
  <2>3. \/ /\ v.pc = "update" /\ v.target \in JobId
           /\ v.fields = JobToUpdateFields(r)
        \/ /\ v.pc = "create" /\ v.target = Fingerprint[a] /\ v.seen = r
    BY <2>2 DEF Todo
  <2>4. call' = [call EXCEPT ![c] = v]
    BY <1>9 DEF ImportList
  <2> HIDE DEF v, r
  <2>5. RequestType(v)
    BY <2>1, <2>3 DEF RequestType
  <2>6. CallsTyped
    BY <2>4, <2>5, CallTypes
  <2> QED BY <1>9, <2>6 DEF ImportList, Types
<1>10. CASE CreateForCall(c)
  <2>1. CallsTyped
    BY <1>10, CallTypes, DoneType DEF CreateForCall
  <2>2. CASE Valid(call[c].seen) /\ ~FromTaken(call[c].target)
    <3>1. call[c].target \in JobId \union Source /\ call[c].seen \in Wanted \union Definition
      BY <1>10 DEF CreateForCall, Types, RequestType
    <3>2. HasNextId /\ Insert(call[c].seen, call[c].target)
      BY <1>10, <2>2 DEF CreateForCall
    <3>3. job' \in [JobId -> Maybe(Definition)] /\ born' \in 0 .. Cardinality(JobId)
      BY <3>1, <3>2, InsertTypes
    <3> QED BY <1>10, <2>1, <3>3 DEF CreateForCall, Types
  <2>3. CASE ~(Valid(call[c].seen) /\ ~FromTaken(call[c].target))
    <3>1. UNCHANGED <<job, born>>
      BY <1>10, <2>3 DEF CreateForCall
    <3> QED BY <1>10, <2>1, <3>1 DEF CreateForCall, Types
  <2> QED BY <2>2, <2>3
<1>11. CASE ImportUpdate(c)
  BY <1>6, <1>11 DEF ImportUpdate, Types, RequestType
<1>12. CASE UpdateWrite(c)
  <2> DEFINE j == call[c].target
             f == call[c].fields
  <2>1. PendingWrite(call[c])
    BY <1>12 DEF UpdateWrite, Types, RequestType
  <2>2. CallsTyped
    BY <1>12, CallTypes, DoneType DEF UpdateWrite
  <2>3. CASE job[j] = None
    BY <1>12, <2>2, <2>3 DEF UpdateWrite, Types
  <2>4. CASE job[j] # None
    <3>1. j \in JobId /\ job[j] \in Definition
      BY <2>1, <2>4 DEF PendingWrite, Types, Maybe
    <3>2. ApplyJobFields(job[j], f) \in Definition
      <4>1. "from" \notin DOMAIN f
        BY <2>1 DEF PendingWrite, ScheduleFields
      <4> QED BY <2>1, <3>1, <4>1, ApplyIsDefinition DEF PendingWrite
    <3>3. job' = [job EXCEPT ![j] = ApplyJobFields(job[j], f)]
      BY <1>12, <2>4 DEF UpdateWrite
    <3>4. job' \in [JobId -> Maybe(Definition)]
      BY <3>1, <3>2, <3>3 DEF Types, Maybe
    <3>5. overtaken' \subseteq JobId
      BY <1>12, <2>4, <3>1 DEF UpdateWrite, Types
    <3> QED BY <1>12, <2>2, <3>4, <3>5 DEF UpdateWrite, Types
  <2> QED BY <2>3, <2>4
<1>13. CASE SubmitManual(c)
  <2>1. CallsTyped
    BY <1>13, CallTypes, DoneType DEF SubmitManual
  <2>2. Row(call[c].target, None, "queued") \in RowState
    BY <1>13 DEF SubmitManual, Types, RequestType, Row, RowState, Maybe
  <2>3. rows' \in Seq(RowState)
    BY <1>13, <2>2 DEF SubmitManual, Types
  <2> QED BY <1>13, <2>1, <2>3 DEF SubmitManual, Types
<1> QED
  BY <1>2, <1>3, <1>4, <1>5, <1>7, <1>8, <1>9, <1>10, <1>11, <1>12, <1>13
  DEF Request, Answer

LEMMA InitTypes == Init => Types
<1> SUFFICES ASSUME Init  PROVE Types
  OBVIOUS
<1>1. Cardinality(JobId) \in Nat /\ MaxTime \in Nat /\ MaxMishaps \in Nat
  BY CatalogAssumptions, FS_CardinalityType
<1>2. Idle \in ExecState /\ Idle.pc = "idle"
  BY DEF Idle, ExecState, Maybe
<1>3. rows \in Seq(RowState)
  BY DEF Init
<1>4. DOMAIN call = Caller /\ \A c \in Caller : RequestType(call[c])
  BY DoneType DEF Init
<1> QED
  BY <1>1, <1>2, <1>3, <1>4 DEF Init, Types, Maybe

LEMMA NextTypes ==
  ASSUME Types, [Next]_vars
  PROVE  Types'
<1>1. CASE Tick
  BY <1>1, CatalogAssumptions DEF Tick, Types
<1>2. ASSUME NEW j \in JobId, NEW r \in Requests[j], CreateJob(r)  PROVE Types'
  <2>1. r \in Wanted
    BY DefinitionAssumptions
  <2>2. NextId \in JobId /\ HasNextId /\ Insert(r, NextId)
    BY <1>2, NextIdFresh DEF CreateJob, Types
  <2>3. job' \in [JobId -> Maybe(Definition)] /\ born' \in 0 .. Cardinality(JobId)
    BY <2>1, <2>2, InsertTypes
  <2> QED BY <1>2, <2>3 DEF CreateJob, Types
<1>3. ASSUME NEW c \in Caller, Request(c) \/ Answer(c)  PROVE Types'
  BY <1>3, RequestTypes
<1>4. ASSUME NEW j \in JobId, ListDue(j)  PROVE Types'
  BY <1>4 DEF ListDue, Types
<1>5. ASSUME NEW j \in JobId, Dispatch(j)  PROVE Types'
  <2>1. list[j] \in Definition
    BY <1>5 DEF Dispatch, Types, Maybe
  <2>2. list' \in [JobId -> Maybe(Definition)]
    BY <1>5 DEF Dispatch, Types, Maybe
  <2> DEFINE e == [Idle EXCEPT !.pc = "compute", !.seen = list[j]]
  <2>3. e \in ExecState /\ e.seen \in Definition
    BY <2>1 DEF ExecState, Idle, Maybe
  <2>4. exec' = [exec EXCEPT ![j] = e]
    BY <1>5 DEF Dispatch
  <2> HIDE DEF e
  <2>5. /\ exec' \in [JobId -> ExecState]
        /\ \A k \in JobId : exec'[k].pc # "idle" => exec'[k].seen \in Definition
    BY <2>3, <2>4 DEF Types
  <2>6. slots' \in [JobId -> Nat]
    BY <1>5, AcquireSlot DEF Dispatch, Types
  <2> QED BY <1>5, <2>2, <2>5, <2>6 DEF Dispatch, Types
<1>6. ASSUME NEW j \in JobId, PassOver(j)  PROVE Types'
  BY <1>6 DEF PassOver, Types, Maybe
<1>7. ASSUME NEW j \in JobId, ComputeNext(j)  PROVE Types'
  <2> DEFINE r == exec[j].seen
             e == [pc |-> "claim", seen |-> r, next |-> NewNext(r, now),
                   skip |-> BeforeWindow(r, now) \/ AfterWindow(r, now)]
  <2>1. r \in Definition /\ now \in Nat
    BY <1>7, CatalogAssumptions DEF ComputeNext, Types
  <2>2. NewNext(r, now) \in Maybe(Nat)
    BY <2>1, NextIsLater DEF NewNext, BeforeWindow, Definition, Maybe
  <2>3. e \in ExecState /\ e.seen \in Definition
    BY <2>1, <2>2 DEF ExecState, BeforeWindow, AfterWindow, Maybe
  <2>4. exec' = [exec EXCEPT ![j] = e]
    BY <1>7 DEF ComputeNext
  <2> HIDE DEF e
  <2>5. /\ exec' \in [JobId -> ExecState]
        /\ \A k \in JobId : exec'[k].pc # "idle" => exec'[k].seen \in Definition
    BY <2>3, <2>4 DEF Types
  <2> QED BY <1>7, <2>5 DEF ComputeNext, Types
<1>8. ASSUME NEW j \in JobId, Claimable(j), exec[j].pc = "claim",
             job' = [job EXCEPT ![j].next = exec[j].next]
      PROVE  job' \in [JobId -> Maybe(Definition)]
  <2>1. exec[j].next \in Maybe(Nat)
    BY DEF Types, ExecState
  <2>2. job[j] \in Definition
    BY <1>8 DEF Claimable, Types, Maybe
  <2>3. [job[j] EXCEPT !.next = exec[j].next] \in Definition
    BY <2>1, <2>2 DEF Definition
  <2> QED BY <1>8, <2>3 DEF Types, Maybe
<1>9. ASSUME NEW j \in JobId, Claim(j)  PROVE Types'
  <2>1. job' \in [JobId -> Maybe(Definition)]
    BY <1>8, <1>9 DEF Claim
  <2>2. exec[j] \in ExecState /\ exec[j].seen \in Definition
    BY <1>9 DEF Claim, Types
  <2> DEFINE e == [exec[j] EXCEPT !.pc = "create"]
  <2>3. e \in ExecState /\ e.seen \in Definition
    BY <2>2 DEF ExecState
  <2>4. exec' = [exec EXCEPT ![j] = e]
    BY <1>9 DEF Claim
  <2> HIDE DEF e
  <2>5. /\ exec' \in [JobId -> ExecState]
        /\ \A k \in JobId : exec'[k].pc # "idle" => exec'[k].seen \in Definition
    BY <2>3, <2>4 DEF Types
  <2> QED BY <1>9, <2>1, <2>5 DEF Claim, Types
<1>10. Idle \in ExecState /\ Idle.pc = "idle"
  BY DEF Idle, ExecState, Maybe
<1>11. ASSUME NEW j \in JobId, exec' = [exec EXCEPT ![j] = Idle]
       PROVE  /\ exec' \in [JobId -> ExecState]
              /\ \A k \in JobId : exec'[k].pc # "idle" => exec'[k].seen \in Definition
  BY <1>10, <1>11 DEF Types
<1>12. ASSUME NEW j \in JobId, Abandon(j)  PROVE Types'
  <2>1. job' \in [JobId -> Maybe(Definition)]
    BY <1>8, <1>12 DEF Abandon, Types
  <2>2. /\ exec' \in [JobId -> ExecState]
        /\ \A k \in JobId : exec'[k].pc # "idle" => exec'[k].seen \in Definition
    BY <1>11, <1>12 DEF Abandon
  <2>3. slots' \in [JobId -> Nat]
    BY <1>12, ReleaseSlot DEF Abandon, Types
  <2> QED BY <1>12, <2>1, <2>2, <2>3 DEF Abandon, Types
<1>13. ASSUME NEW j \in JobId, CreateRow(j)  PROVE Types'
  <2>1. exec[j].seen \in Definition
    BY <1>13 DEF CreateRow, Types
  <2>2. Row(j, exec[j].seen.next, "held") \in RowState
    BY <2>1 DEF Row, RowState, Definition
  <2>3. rows' \in Seq(RowState)
    BY <1>13, <2>2 DEF CreateRow, Types
  <2>4. /\ exec' \in [JobId -> ExecState]
        /\ \A k \in JobId : exec'[k].pc # "idle" => exec'[k].seen \in Definition
    BY <1>11, <1>13 DEF CreateRow
  <2> QED BY <1>13, <2>3, <2>4 DEF CreateRow, Types
<1>14. ASSUME NEW j \in JobId, CreateRowFails(j)  PROVE Types'
  <2>1. /\ exec' \in [JobId -> ExecState]
        /\ \A k \in JobId : exec'[k].pc # "idle" => exec'[k].seen \in Definition
    BY <1>11, <1>14 DEF CreateRowFails
  <2>2. slots' \in [JobId -> Nat]
    BY <1>14, ReleaseSlot DEF CreateRowFails, Types
  <2> QED BY <1>14, <2>1, <2>2, CatalogAssumptions DEF CreateRowFails, Types
<1>15. ASSUME NEW j \in JobId, ClaimFails(j)  PROVE Types'
  <2>1. /\ exec' \in [JobId -> ExecState]
        /\ \A k \in JobId : exec'[k].pc # "idle" => exec'[k].seen \in Definition
    BY <1>11, <1>15 DEF ClaimFails
  <2>2. slots' \in [JobId -> Nat]
    BY <1>15, ReleaseSlot DEF ClaimFails, Types
  <2> QED BY <1>15, <2>1, <2>2, CatalogAssumptions DEF ClaimFails, Types
<1>16. /\ DOMAIN rows = 1 .. Len(rows) /\ Len(rows) \in Nat
       /\ \A n \in DOMAIN rows : rows[n] \in RowState
  BY DEF Types
<1>17. ASSUME NEW n \in DOMAIN rows, RowStep(n)  PROVE Types'
  <2>1. \E r \in RowState : rows' = [rows EXCEPT ![n] = r]
    BY <1>17, RowStepEffect
  <2>2. rows' \in Seq(RowState)
    BY <2>1, <1>16 DEF Types
  <2>3. slots' \in [JobId -> Nat]
    BY <1>17, RowStepEffect
  <2> QED BY <1>17, <2>2, <2>3, RowStepFrame DEF Types
<1>18. CASE Crash
  <2>1. rows' \in Seq(RowState)
    <3>1. /\ DOMAIN rows' = DOMAIN rows
          /\ rows' = [n \in DOMAIN rows |-> rows'[n]]
          /\ \A n \in DOMAIN rows : rows'[n] \in RowState
      BY <1>16, <1>18 DEF Crash, RowState
    <3> QED BY <1>16, <3>1
  <2>2. DOMAIN call' = Caller /\ \A c \in Caller : RequestType(call'[c])
    BY <1>18, DoneType DEF Crash
  <2>3. /\ exec' \in [JobId -> ExecState]
        /\ \A k \in JobId : exec'[k].pc # "idle" => exec'[k].seen \in Definition
    BY <1>10, <1>18 DEF Crash
  <2> QED BY <1>18, <2>1, <2>2, <2>3, CatalogAssumptions DEF Crash, Types, Maybe
<1>19. CASE UNCHANGED vars
  BY <1>19 DEF vars, Types
<1> QED
  BY <1>1, <1>2, <1>3, <1>4, <1>5, <1>6, <1>7, <1>9, <1>12, <1>13, <1>14, <1>15, <1>17,
     <1>18, <1>19
  DEF Next, SaveJob, RunOnce, Execute

(***************************************************************************)
(* The invariant                                                           *)
(***************************************************************************)

\* What the scheduler has read of a job and not done with.
Copies(j) ==
    ({list[j]} \ {None}) \union (IF exec[j].pc # "idle" THEN {exec[j].seen} ELSE {})

\* Nothing is known of an id not given yet.
FreshIds ==
    \A j \in JobId : ~Given(j) =>
        job[j] = None /\ list[j] = None /\ exec[j].pc = "idle"

\* The slots of a job are counted until the job is deleted: the rows of a deleted job are
\* gone, and what they give back is left to a counter that nobody reads.
Busy(j) == IF exec[j].pc # "idle" THEN 1 ELSE 0

Counted(j) == slots[j] = Cardinality(Held(j)) + Busy(j) /\ slots[j] <= Cap(j)

SlotsCounted == \A j \in JobId : job[j] # None \/ ~Given(j) => Counted(j)

\* A copy is of a job that was due.  The cursor of the job never comes back to
\* that of a copy under another schedule: it only grows, but for an expression
\* without instants, whose schedule cannot change while the job has a cursor.
InForce(j, r) ==
    /\ r.enabled /\ r.next \in Nat /\ r.next <= now
    /\ j \notin overtaken /\ job[j] # None /\ job[j].next # None =>
          /\ job[j].next = r.next => Schedule(job[j]) = Schedule(r)
          /\ IF NeverNames(job[j]) THEN Schedule(job[j]) = Schedule(r)
             ELSE r.next <= job[j].next

CopiesInForce == \A j \in JobId : \A r \in Copies(j) : InForce(j, r)

\* What execute has computed from its copy.
NextComputed ==
    \A j \in JobId : exec[j].pc \in {"claim", "create"} =>
        /\ exec[j].next # None => exec[j].next > exec[j].seen.next \/ NeverNames(exec[j].seen)
        /\ exec[j].next = None /\ ~Illegal(exec[j].seen) => Exhausted(exec[j].seen)

\* A definition that is enabled is legal and, without a cursor, exhausted.
Sound(r) == r.enabled => ~Illegal(r) /\ (r.next = None => Exhausted(r))

JobsSound == \A j \in Existing \ overtaken : Sound(job[j])

\* What an update is about to make of the row it has read.
WritesSound ==
    \A c \in Caller :
        LET m == ApplyJobFields(call[c].seen, call[c].fields)
        IN  call[c].pc = "write" /\ "next" \in DOMAIN call[c].fields =>
                Sound(m) /\ (NeverNames(m) /\ m.next # None => m.next = ZeroTime)

\* The scheduled rows of a job lie before its cursor, and so does the run that
\* has been claimed and has no row yet.
RowsBehind ==
    /\ \A n \in DOMAIN rows : rows[n].due # None => rows[n].due <= now
    /\ \A j \in JobId \ overtaken :
          /\ \A n \in DOMAIN rows : rows[n].job = j /\ rows[n].due # None =>
                /\ job[j] # None /\ job[j].next # None => rows[n].due < job[j].next
                /\ exec[j].pc = "create" => rows[n].due < exec[j].seen.next
          /\ exec[j].pc = "create" /\ job[j] # None /\ job[j].next # None =>
                exec[j].seen.next < job[j].next

(***************************************************************************)
(* What a step does to the tables and to the scheduler                     *)
(***************************************************************************)

\* A call of the database fails, and the goroutine gives up.
Fails(j) == ClaimFails(j) \/ CreateRowFails(j)

Quiet ==
    /\ now' \in {now, now + 1}
    /\ UNCHANGED <<job, born, rows, list, exec, slots, overtaken>>

Inserts ==
    /\ HasNextId
    /\ \E r \in Wanted \union Definition, from \in JobId \union Source : Insert(r, from)
    /\ UNCHANGED <<now, rows, list, exec, slots, overtaken>>

LEMMA NextCases ==
  ASSUME Types, [Next]_vars
  PROVE  \/ Quiet \/ Inserts \/ Crash
         \/ \E c \in Caller : UpdateWrite(c) /\ job[call[c].target] # None
         \/ \E c \in Caller, j \in JobId : DeleteJob(c, j)
         \/ \E c \in Caller : SubmitManual(c)
         \/ \E j \in JobId : \/ ListDue(j) \/ Dispatch(j) \/ PassOver(j)
                             \/ ComputeNext(j) \/ Claim(j) \/ Abandon(j) \/ CreateRow(j) \/ Fails(j)
         \/ \E n \in DOMAIN rows : RowStep(n)
<1>1. ASSUME NEW j \in JobId, NEW r \in Requests[j], CreateJob(r)  PROVE Inserts
  <2>1. r \in Wanted
    BY DefinitionAssumptions
  <2>2. NextId \in JobId
    BY <1>1, NextIdFresh DEF CreateJob, Types
  <2> QED BY <1>1, <2>1, <2>2 DEF CreateJob, Inserts
<1>2. ASSUME NEW c \in Caller, CreateForCall(c)  PROVE Inserts \/ Quiet
  <2>1. call[c].target \in JobId \union Source /\ call[c].seen \in Wanted \union Definition
    BY <1>2 DEF CreateForCall, Types, RequestType
  <2> QED BY <1>2, <2>1 DEF CreateForCall, Inserts, Quiet
<1>3. ASSUME NEW c \in Caller, NEW j, NEW f, UpdateGet(c, j, f)  PROVE Quiet
  BY <1>3 DEF UpdateGet, Quiet
<1>4. ASSUME NEW c \in Caller, NEW j \in JobId, CopyGet(c, j) \/ ExportJob(c, j) \/ TriggerGet(c, j)
      PROVE  Quiet
  BY <1>4 DEF CopyGet, ExportJob, TriggerGet, Quiet
<1>5. ASSUME NEW c \in Caller, NEW a, NEW o, ImportList(c, a, o)  PROVE Quiet
  BY <1>5 DEF ImportList, Quiet
<1>6. ASSUME NEW c \in Caller, UpdateWrite(c), job[call[c].target] = None  PROVE Quiet
  BY <1>6 DEF UpdateWrite, Quiet
<1>7. CASE Tick
  BY <1>7 DEF Tick, Quiet
<1>8. CASE UNCHANGED vars
  BY <1>8 DEF vars, Quiet
<1> QED
  BY <1>1, <1>2, <1>3, <1>4, <1>5, <1>6, <1>7, <1>8
  DEF Next, SaveJob, Request, Answer, UpdateJob, SetJobEnabled, ImportUpdate, RunOnce, Execute,
      Fails

LEMMA TimeGrows ==
  ASSUME Types, [Next]_vars
  PROVE  now \in Nat /\ now' \in Nat /\ now <= now'
<1>1. now \in Nat
  BY CatalogAssumptions DEF Types
<1>2. Quiet => now' \in {now, now + 1}
  BY DEF Quiet
<1>3. Inserts \/ Crash => now' = now
  BY DEF Inserts, Crash
<1>4. ASSUME NEW c \in Caller, \/ UpdateWrite(c) \/ SubmitManual(c)
                              \/ \E j \in JobId : DeleteJob(c, j)
      PROVE  now' = now
  BY <1>4 DEF UpdateWrite, DeleteJob, SubmitManual
<1>5. ASSUME NEW j \in JobId,
             \/ ListDue(j) \/ Dispatch(j) \/ PassOver(j) \/ ComputeNext(j) \/ Claim(j)
             \/ Abandon(j) \/ CreateRow(j) \/ Fails(j)
      PROVE  now' = now
  BY <1>5 DEF ListDue, Dispatch, PassOver, ComputeNext, Claim, Abandon, CreateRow, Fails,
     ClaimFails, CreateRowFails
<1>6. ASSUME NEW n \in DOMAIN rows, RowStep(n)  PROVE now' = now
  BY <1>6, RowStepFrame
<1>7. now' \in {now, now + 1}
  BY <1>2, <1>3, <1>4, <1>5, <1>6, NextCases
<1> QED BY <1>1, <1>7

\* An update that is written: the job keeps its source and gets the columns.
LEMMA WriteEffect ==
  ASSUME Types, NEW c \in Caller, UpdateWrite(c), job[call[c].target] # None
  PROVE  LET j == call[c].target
             f == call[c].fields
             m == ApplyJobFields(job[j], f)
         IN  /\ j \in JobId /\ job[j] \in Definition /\ m \in Definition
             /\ \A k \in JobId : job'[k] = IF k = j THEN m ELSE job[k]
             /\ m.from = job[j].from
             /\ "next" \notin DOMAIN f => m.next = job[j].next /\ Schedule(m) = Schedule(job[j])
             /\ "next" \in DOMAIN f => m.next = f["next"]
             /\ j \notin overtaken' =>
                   /\ j \notin overtaken /\ job[j] = call[c].seen
                   /\ "next" \in DOMAIN f /\ f["next"] # None => f["next"] > now
<1> DEFINE j == call[c].target
           f == call[c].fields
           m == ApplyJobFields(job[j], f)
<1>1. PendingWrite(call[c])
  BY DEF UpdateWrite, Types, RequestType
<1>2. j \in JobId /\ job[j] \in Definition
  BY <1>1 DEF PendingWrite, Types, Maybe
<1>3. "from" \notin DOMAIN f
  BY <1>1 DEF PendingWrite, ScheduleFields
<1>4. m \in Definition
  BY <1>1, <1>2, <1>3, ApplyIsDefinition DEF PendingWrite
<1>5. \A k \in JobId : job'[k] = IF k = j THEN m ELSE job[k]
  <2>1. job' = [job EXCEPT ![j] = m]
    BY DEF UpdateWrite
  <2> HIDE DEF m, j
  <2> QED BY <2>1 DEF Types
<1>6. m.from = job[j].from
  BY <1>2, <1>3 DEF ApplyJobFields, Definition
<1>7. "next" \notin DOMAIN f => m.next = job[j].next /\ Schedule(m) = Schedule(job[j])
  <2>1. "next" \notin DOMAIN f => \A k \in ScheduleFields : k \notin DOMAIN f
    BY <1>1 DEF PendingWrite
  <2> QED BY <1>2, <2>1 DEF ApplyJobFields, Definition, Schedule, ScheduleFields
<1>8. "next" \in DOMAIN f => m.next = f["next"]
  BY <1>2 DEF ApplyJobFields, Definition
<1>9. j \notin overtaken' =>
         /\ j \notin overtaken /\ job[j] = call[c].seen
         /\ "next" \in DOMAIN f /\ f["next"] # None => f["next"] > now
  <2>1. overtaken' = IF job[j] # call[c].seen
                         \/ ("next" \in DOMAIN f /\ f.next # None /\ f.next <= now)
                     THEN overtaken \union {j} ELSE overtaken
    BY DEF UpdateWrite
  <2>2. "next" \in DOMAIN f => f["next"] \in Maybe(Nat)
    BY <1>1 DEF PendingWrite
  <2>3. now \in Nat
    BY CatalogAssumptions DEF Types
  <2> QED BY <2>1, <2>2, <2>3 DEF Maybe
<1> QED BY <1>2, <1>4, <1>5, <1>6, <1>7, <1>8, <1>9

LEMMA InsertEffect ==
  ASSUME Types, Inserts
  PROVE  /\ NextId \in JobId /\ Cardinality(Before(NextId)) = born /\ born' = born + 1
         /\ \A k \in JobId \ {NextId} : job'[k] = job[k]
         /\ \E r \in Wanted \union Definition :
               LET new == job'[NextId]
               IN  /\ Valid(r) /\ ~FromTaken(new.from)
                   /\ new.enabled = r.enabled /\ new.kind = r.kind /\ new.expr = r.expr
                   /\ new.start = r.start /\ new.end = r.end /\ new.next = ComputeNextRun(r, now)
<1>1. NextId \in JobId /\ Cardinality(Before(NextId)) = born
  BY NextIdFresh DEF Inserts, Types
<1>2. PICK r \in Wanted \union Definition, from \in JobId \union Source : Insert(r, from)
  BY DEF Inserts
<1> DEFINE new == [enabled |-> r.enabled, kind |-> r.kind, expr |-> r.expr,
                   start |-> r.start, end |-> r.end, from |-> from,
                   options |-> r.options, next |-> ComputeNextRun(r, now)]
<1>3. job'[NextId] = new /\ \A k \in JobId \ {NextId} : job'[k] = job[k]
  <2>1. job' = [job EXCEPT ![NextId] = new]
    BY <1>2 DEF Insert
  <2> HIDE DEF new
  <2> QED BY <1>1, <2>1 DEF Types
<1>4. Valid(r) /\ ~FromTaken(from) /\ born' = born + 1
  BY <1>2 DEF Insert
<1>5. /\ new.from = from /\ new.enabled = r.enabled /\ new.kind = r.kind /\ new.expr = r.expr
      /\ new.start = r.start /\ new.end = r.end /\ new.next = ComputeNextRun(r, now)
  OBVIOUS
<1> HIDE DEF new
<1> QED BY <1>1, <1>3, <1>4, <1>5

\* A claim, or an abandoned run whose cursor is as read, moves the cursor.
LEMMA CursorMoves ==
  ASSUME Types, NEW j \in JobId, Claimable(j), exec[j].pc = "claim",
         job' = [job EXCEPT ![j].next = exec[j].next]
  PROVE  /\ job[j] \in Definition /\ job[j] # None /\ job[j].next = exec[j].seen.next
         /\ exec[j].seen \in Definition /\ exec[j].next \in Maybe(Nat)
         /\ \A k \in JobId \ {j} : job'[k] = job[k]
         /\ job'[j] \in Definition /\ job'[j].next = exec[j].next
         /\ job'[j].from = job[j].from
         /\ Schedule(job'[j]) = Schedule(job[j])
<1>1. job[j] \in Definition /\ job[j] # None /\ job[j].next = exec[j].seen.next
  BY DEF Claimable, Types, Maybe
<1>2. exec[j].seen \in Definition /\ exec[j].next \in Maybe(Nat)
  BY DEF Types, ExecState
<1> DEFINE new == [job[j] EXCEPT !.next = exec[j].next]
<1>3. new \in Definition /\ new.next = exec[j].next /\ new.from = job[j].from
  BY <1>1, <1>2 DEF Definition
<1>4. Schedule(new) = Schedule(job[j])
  BY <1>1 DEF Definition, Schedule, ScheduleFields
<1>5. job' = [job EXCEPT ![j] = new]
  BY DEF Types
<1> HIDE DEF new
<1>6. job'[j] = new /\ \A k \in JobId \ {j} : job'[k] = job[k]
  BY <1>5 DEF Types
<1> QED BY <1>1, <1>2, <1>3, <1>4, <1>6

(***************************************************************************)
(* One job for each source                                                 *)
(***************************************************************************)

\* A step leaves every job its source, but for the one it inserts, whose
\* source no job had.
LEMMA NextSourceOnce ==
  ASSUME Types, SourceOnce, [Next]_vars
  PROVE  SourceOnce'
<1>1. ASSUME \A k \in JobId : job'[k] = None \/ (job[k] # None /\ job'[k].from = job[k].from)
      PROVE  SourceOnce'
  BY <1>1 DEF SourceOnce, Existing
<1>2. CASE Inserts
  <2>1. ~FromTaken(job'[NextId].from) /\ \A k \in JobId \ {NextId} : job'[k] = job[k]
    BY <1>2, InsertEffect
  <2> QED BY <2>1 DEF SourceOnce, Existing, FromTaken
<1>3. ASSUME NEW c \in Caller, UpdateWrite(c), job[call[c].target] # None  PROVE SourceOnce'
  BY <1>1, <1>3, WriteEffect
<1>4. ASSUME NEW c \in Caller, NEW j \in JobId, DeleteJob(c, j)  PROVE SourceOnce'
  BY <1>1, <1>4 DEF DeleteJob, Types
<1>5. ASSUME NEW j \in JobId, Claim(j) \/ Abandon(j)  PROVE SourceOnce'
  <2>1. CASE job' = job
    BY <1>1, <2>1
  <2>2. CASE job' # job
    BY <1>1, <1>5, <2>2, CursorMoves DEF Claim, Abandon
  <2> QED BY <2>1, <2>2
<1>6. UNCHANGED job => SourceOnce'
  BY <1>1
<1> QED
  BY <1>2, <1>3, <1>4, <1>5, <1>6, NextCases, RowStepFrame
  DEF Quiet, Crash, SubmitManual, ListDue, Dispatch, PassOver, ComputeNext, CreateRow, Fails,
     ClaimFails, CreateRowFails

(***************************************************************************)
(* Ids are fresh, and slots are counted                                    *)
(***************************************************************************)

LEMMA NextFreshIds ==
  ASSUME Types, FreshIds, [Next]_vars
  PROVE  FreshIds'
<1>1. ASSUME born' = born,
             \A j \in JobId : ~Given(j) =>
                job'[j] = None /\ list'[j] = None /\ exec'[j].pc = "idle"
      PROVE  FreshIds'
  BY <1>1 DEF FreshIds, Given
<1>2. CASE Quiet
  BY <1>1, <1>2 DEF Quiet, FreshIds
<1>3. CASE Inserts
  <2>1. ASSUME NEW j \in JobId, ~Given(j)'  PROVE ~Given(j) /\ j # NextId
    BY <1>3, <2>1, InsertEffect, Ranks DEF Given, Types
  <2>2. ASSUME NEW j \in JobId, ~Given(j)'  PROVE job'[j] = None
    BY <1>3, <2>1, <2>2, InsertEffect DEF FreshIds
  <2> QED BY <1>3, <2>1, <2>2 DEF Inserts, FreshIds
<1>4. CASE Crash
  <2>1. Idle.pc = "idle"
    BY DEF Idle
  <2> QED BY <1>1, <1>4, <2>1 DEF Crash, FreshIds
<1>5. ASSUME NEW c \in Caller, UpdateWrite(c), job[call[c].target] # None  PROVE FreshIds'
  <2>1. \A j \in JobId : job[j] = None => job'[j] = None
    BY <1>5, WriteEffect
  <2> QED BY <1>1, <1>5, <2>1 DEF UpdateWrite, FreshIds
<1>6. ASSUME NEW c \in Caller, NEW k \in JobId, DeleteJob(c, k)  PROVE FreshIds'
  BY <1>1, <1>6 DEF DeleteJob, FreshIds, Types
<1>7. ASSUME NEW c \in Caller, SubmitManual(c)  PROVE FreshIds'
  BY <1>1, <1>7 DEF SubmitManual, FreshIds
<1>8. ASSUME NEW k \in JobId,
             \/ ListDue(k) \/ Dispatch(k) \/ PassOver(k) \/ ComputeNext(k) \/ Claim(k)
             \/ Abandon(k) \/ CreateRow(k) \/ Fails(k)
      PROVE  FreshIds'
  <2>1. Given(k)
    BY <1>8 DEF FreshIds, ListDue, Due, Dispatch, PassOver, ComputeNext, Claim, Abandon,
       CreateRow, Fails, ClaimFails, CreateRowFails
  <2>2. \A j \in JobId \ {k} : job'[j] = job[j] /\ list'[j] = list[j] /\ exec'[j] = exec[j]
    BY <1>8 DEF Types, ListDue, Dispatch, PassOver, ComputeNext, Claim, Abandon, CreateRow,
       Fails, ClaimFails, CreateRowFails
  <2>3. born' = born
    BY <1>8 DEF ListDue, Dispatch, PassOver, ComputeNext, Claim, Abandon, CreateRow, Fails,
       ClaimFails, CreateRowFails
  <2> QED BY <1>1, <2>1, <2>2, <2>3 DEF FreshIds
<1>9. ASSUME NEW n \in DOMAIN rows, RowStep(n)  PROVE FreshIds'
  BY <1>1, <1>9, RowStepFrame DEF FreshIds
<1> QED BY <1>2, <1>3, <1>4, <1>5, <1>6, <1>7, <1>8, <1>9, NextCases

\* No id becomes one whose slots are counted.
LEMMA CountedBefore ==
  ASSUME Types, [Next]_vars, NEW j \in JobId, job'[j] # None \/ ~Given(j)'
  PROVE  job[j] # None \/ ~Given(j)
<1>1. CASE Inserts
  BY <1>1, InsertEffect, Ranks DEF Given, Types
<1>2. born' = born => (Given(j)' <=> Given(j))
  BY DEF Given
<1>3. ASSUME NEW c \in Caller, UpdateWrite(c), job[call[c].target] # None
      PROVE  born' = born /\ (job'[j] # None => job[j] # None)
  BY <1>3, WriteEffect DEF UpdateWrite
<1>4. ASSUME NEW c \in Caller, NEW k \in JobId, DeleteJob(c, k)
      PROVE  born' = born /\ (job'[j] # None => job[j] # None)
  BY <1>4 DEF DeleteJob, Types
<1>5. ASSUME NEW k \in JobId, Claim(k) \/ Abandon(k)
      PROVE  born' = born /\ (job'[j] # None => job[j] # None)
  <2>1. job' = job \/ (Claimable(k) /\ job' = [job EXCEPT ![k].next = exec[k].next])
    BY <1>5 DEF Claim, Abandon
  <2>2. job'[j] # None => job[j] # None
    BY <2>1 DEF Claimable, Types
  <2> QED BY <1>5, <2>2 DEF Claim, Abandon
<1>6. ASSUME \/ Quiet \/ Crash
             \/ \E c \in Caller : SubmitManual(c)
             \/ \E k \in JobId : \/ ListDue(k) \/ Dispatch(k) \/ PassOver(k) \/ ComputeNext(k)
                                 \/ CreateRow(k) \/ Fails(k)
             \/ \E n \in DOMAIN rows : RowStep(n)
      PROVE  job' = job /\ born' = born
  BY <1>6, RowStepFrame DEF Quiet, Crash, SubmitManual, ListDue, Dispatch, PassOver, ComputeNext,
     CreateRow, Fails, ClaimFails, CreateRowFails
<1> QED BY <1>1, <1>2, <1>3, <1>4, <1>5, <1>6, NextCases

LEMMA HeldFinite ==
  ASSUME Types, NEW j \in JobId
  PROVE  IsFiniteSet(Held(j)) /\ Cardinality(Held(j)) \in Nat
<1>1. DOMAIN rows = 1 .. Len(rows) /\ Len(rows) \in Nat
  BY DEF Types
<1>2. 1 \in Int /\ Len(rows) \in Int
  BY <1>1
<1>3. IsFiniteSet(1 .. Len(rows))
  BY <1>2, FS_Interval
<1>4. Held(j) \in SUBSET (1 .. Len(rows))
  BY <1>1 DEF Held
<1> QED BY <1>3, <1>4, FS_Subset, FS_CardinalityType

\* A slot is taken with a goroutine or for a row, handed from the goroutine to the row it
\* creates, and given back with the one or the other.
LEMMA NextSlotsCounted ==
  ASSUME Types, FreshIds, SlotsCounted, [Next]_vars
  PROVE  SlotsCounted'
<1>1. /\ DOMAIN rows = 1 .. Len(rows) /\ Len(rows) \in Nat /\ rows \in Seq(RowState)
      /\ \A n \in DOMAIN rows : rows[n] \in RowState /\ rows[n].job \in JobId
  <2>1. /\ DOMAIN rows = 1 .. Len(rows) /\ Len(rows) \in Nat /\ rows \in Seq(RowState)
        /\ \A n \in DOMAIN rows : rows[n] \in RowState
    BY DEF Types
  <2> QED BY <2>1 DEF RowState
<1> SUFFICES ASSUME NEW j \in JobId, job'[j] # None \/ ~Given(j)'
             PROVE  Counted(j)'
  BY DEF SlotsCounted
<1>2. /\ slots[j] \in Nat /\ slots[j] = Cardinality(Held(j)) + Busy(j) /\ slots[j] <= Cap(j)
      /\ IsFiniteSet(Held(j)) /\ Cardinality(Held(j)) \in Nat /\ Busy(j) \in {0, 1}
      /\ Cap(j) \in Nat /\ 1 <= Cap(j) /\ Cap(j)' = Cap(j)
  <2>1. Counted(j)
    BY CountedBefore DEF SlotsCounted
  <2>2. Cap(j)' = Cap(j)
    BY DEF Cap
  <2> QED BY <2>1, <2>2, HeldFinite, CapType DEF Counted, Busy, Types
<1>3. ASSUME Held(j)' = Held(j), Busy(j)' = Busy(j), slots'[j] = slots[j]  PROVE Counted(j)'
  BY <1>2, <1>3 DEF Counted
<1>4. UNCHANGED rows => Held(j)' = Held(j)
  BY DEF Held
<1>5. exec'[j].pc = exec[j].pc => Busy(j)' = Busy(j)
  BY DEF Busy
<1>6. ASSUME UNCHANGED <<rows, exec, slots>>  PROVE Counted(j)'
  BY <1>3, <1>4, <1>5, <1>6
<1>7. CASE Crash
  <2>1. slots'[j] = 0 /\ exec'[j].pc = "idle"
    BY <1>7 DEF Crash, Idle
  <2>2. \A n \in DOMAIN rows' : ~HasSlot(rows'[n])
    BY <1>1, <1>7 DEF Crash, HasSlot, RowState
  <2>3. Held(j)' = {}
    BY <2>2 DEF Held, HasSlot
  <2>4. Cardinality(Held(j)') = 0
    BY <2>3, FS_EmptySet
  <2> QED BY <1>2, <2>1, <2>4 DEF Counted, Busy
<1>8. ASSUME NEW c \in Caller, NEW k \in JobId, DeleteJob(c, k)  PROVE Counted(j)'
  <2>1. job[k] # None /\ job'[k] = None /\ Given(k)' = Given(k)
    BY <1>8 DEF DeleteJob, Types, Given
  <2>2. j # k
    BY <2>1 DEF FreshIds
  <2>3. Held(j)' = Held(j)
    BY <1>8, <2>2 DEF DeleteJob, Held, HasSlot
  <2> QED BY <1>3, <1>5, <1>8, <2>3 DEF DeleteJob
<1>9. ASSUME NEW r, rows' = Append(rows, r)
      PROVE  /\ DOMAIN rows' = DOMAIN rows \union {Len(rows) + 1}
             /\ \A n \in DOMAIN rows : rows'[n] = rows[n] /\ n # Len(rows) + 1
             /\ rows'[Len(rows) + 1] = r
  BY <1>1, <1>9
<1>10. ASSUME NEW c \in Caller, SubmitManual(c)  PROVE Counted(j)'
  <2> DEFINE r == Row(call[c].target, None, "queued")
  <2>1. rows' = Append(rows, r) /\ r.state = "queued"
    BY <1>10 DEF SubmitManual, Row
  <2> HIDE DEF r
  <2>2. Held(j)' = Held(j)
    BY <1>9, <2>1 DEF Held, HasSlot
  <2> QED BY <1>3, <1>5, <1>10, <2>2 DEF SubmitManual
\* Steps of the goroutine of one job leave the others alone.
<1>11. ASSUME NEW k \in JobId, k # j, UNCHANGED rows,
              exec'[j] = exec[j], slots'[j] = slots[j]
       PROVE  Counted(j)'
  BY <1>3, <1>4, <1>5, <1>11
<1>12. ASSUME NEW k \in JobId, Dispatch(k)  PROVE Counted(j)'
  <2> DEFINE e == [Idle EXCEPT !.pc = "compute", !.seen = list[k]]
  <2>1. rows' = rows /\ exec' = [exec EXCEPT ![k] = e] /\ e.pc = "compute"
    BY <1>12 DEF Dispatch, Idle
  <2> HIDE DEF e
  <2>2. slots[k] < 1 /\ slots'[k] = slots[k] + 1 /\ \A i \in JobId \ {k} : slots'[i] = slots[i]
    BY <1>12, AcquireSlot DEF Dispatch, Types
  <2>3. CASE j # k
    <3>1. exec'[j] = exec[j]
      BY <2>1, <2>3 DEF Types
    <3> QED BY <1>11, <2>1, <2>2, <2>3, <3>1
  <2>4. CASE j = k
    <3>1. Busy(j) = 0 /\ Cardinality(Held(j)) = 0
      BY <1>2, <2>2, <2>4
    <3>2. Busy(j)' = 1
      BY <2>1, <2>4 DEF Busy, Types
    <3> QED BY <1>2, <1>4, <2>1, <2>2, <2>4, <3>1, <3>2 DEF Counted
  <2> QED BY <2>3, <2>4
<1>13. ASSUME NEW k \in JobId, ComputeNext(k) \/ Claim(k)  PROVE Counted(j)'
  <2>1. slots' = slots /\ rows' = rows /\ exec[k].pc # "idle" /\ exec'[k].pc # "idle"
    BY <1>13 DEF ComputeNext, Claim, Types, ExecState
  <2>2. k # j => exec'[j] = exec[j]
    BY <1>13 DEF ComputeNext, Claim, Types
  <2>3. Busy(j)' = Busy(j)
    BY <2>1, <2>2 DEF Busy
  <2> QED BY <1>3, <1>4, <2>1, <2>3
<1>14. ASSUME NEW k \in JobId, Abandon(k) \/ Fails(k)  PROVE Counted(j)'
  <2>1. rows' = rows /\ exec[k].pc # "idle" /\ exec' = [exec EXCEPT ![k] = Idle] /\ Release(k)
    BY <1>14 DEF Abandon, Fails, ClaimFails, CreateRowFails
  <2>2. /\ slots[k] > 0 => slots'[k] = slots[k] - 1
        /\ \A i \in JobId \ {k} : slots'[i] = slots[i]
    BY <2>1, ReleaseSlot DEF Types
  <2>3. CASE j # k
    <3>1. exec'[j] = exec[j]
      BY <2>1, <2>3 DEF Types
    <3> QED BY <1>11, <2>1, <2>2, <2>3, <3>1
  <2>4. CASE j = k
    <3>1. Busy(j) = 1 /\ Busy(j)' = 0
      BY <2>1, <2>4 DEF Busy, Types, Idle
    <3> QED BY <1>2, <1>4, <2>1, <2>2, <2>4, <3>1 DEF Counted
  <2> QED BY <2>3, <2>4
<1>15. ASSUME NEW k \in JobId, CreateRow(k)  PROVE Counted(j)'
  <2> DEFINE r == Row(k, exec[k].seen.next, "held")
  <2>1. rows' = Append(rows, r) /\ r.job = k /\ r.state = "held"
    BY <1>15 DEF CreateRow, Row
  <2> HIDE DEF r
  <2>2. slots' = slots /\ exec[k].pc # "idle" /\ exec' = [exec EXCEPT ![k] = Idle]
    BY <1>15 DEF CreateRow
  <2>3. CASE j # k
    <3>1. Held(j)' = Held(j)
      BY <1>9, <2>1, <2>3 DEF Held
    <3>2. exec'[j] = exec[j]
      BY <2>2, <2>3 DEF Types
    <3> QED BY <1>3, <1>5, <2>2, <3>1, <3>2
  <2>4. CASE j = k
    <3>1. Held(j)' = Held(j) \union {Len(rows) + 1} /\ Len(rows) + 1 \notin Held(j)
      BY <1>9, <2>1, <2>4 DEF Held, HasSlot
    <3>2. Cardinality(Held(j)') = Cardinality(Held(j)) + 1
      BY <1>2, <3>1, FS_AddElement
    <3>3. Busy(j) = 1 /\ Busy(j)' = 0
      BY <2>2, <2>4 DEF Busy, Types, Idle
    <3> QED BY <1>2, <2>2, <3>2, <3>3 DEF Counted
  <2> QED BY <2>3, <2>4
<1>16. ASSUME NEW n \in DOMAIN rows, RowStep(n)  PROVE Counted(j)'
  <2>1. PICK k \in JobId : k = rows[n].job
    BY <1>1
  <2>2. PICK r \in RowState :
           /\ rows' = [rows EXCEPT ![n] = r] /\ r.job = k
           /\ \/ ~HasSlot(rows[n]) /\ HasSlot(r) /\ TryAcquire(k, Cap(k))
              \/ HasSlot(rows[n]) /\ ~HasSlot(r) /\ Release(k)
              \/ HasSlot(rows[n]) = HasSlot(r) /\ UNCHANGED slots
    BY <1>16, <2>1, RowStepEffect
  <2>3. DOMAIN rows' = DOMAIN rows /\ rows'[n] = r /\ \A m \in DOMAIN rows \ {n} : rows'[m] = rows[m]
    BY <1>1, <2>2
  <2>4. Busy(j)' = Busy(j)
    BY <1>5, <1>16, RowStepFrame
  <2>5. CASE j # k
    <3>1. Held(j)' = Held(j)
      BY <2>1, <2>2, <2>3, <2>5 DEF Held
    <3>2. slots'[j] = slots[j]
      BY <2>2, <2>5, AcquireSlot, ReleaseSlot, CapType DEF Types
    <3> QED BY <1>3, <2>4, <3>1, <3>2
  <2>6. CASE j = k /\ ~HasSlot(rows[n]) /\ HasSlot(r) /\ TryAcquire(k, Cap(k))
    <3>1. Held(j)' = Held(j) \union {n} /\ n \notin Held(j)
      BY <2>1, <2>2, <2>3, <2>6 DEF Held, HasSlot
    <3>2. Cardinality(Held(j)') = Cardinality(Held(j)) + 1
      BY <1>2, <3>1, FS_AddElement
    <3>3. slots[j] < Cap(j) /\ slots'[j] = slots[j] + 1
      BY <2>6, AcquireSlot, CapType DEF Types
    <3> QED BY <1>2, <2>4, <3>2, <3>3 DEF Counted
  <2>7. CASE j = k /\ HasSlot(rows[n]) /\ ~HasSlot(r) /\ Release(k)
    <3>1. Held(j)' = Held(j) \ {n} /\ n \in Held(j)
      BY <2>1, <2>2, <2>3, <2>7 DEF Held, HasSlot
    <3>2. /\ Cardinality(Held(j)') = Cardinality(Held(j)) - 1
          /\ IsFiniteSet(Held(j)') /\ Cardinality(Held(j)') \in Nat
      BY <1>2, <3>1, FS_RemoveElement, FS_CardinalityType
    <3>3. slots[j] > 0
      BY <1>2, <3>2
    <3>4. slots'[j] = slots[j] - 1
      BY <2>7, <3>3, ReleaseSlot DEF Types
    <3> QED BY <1>2, <2>4, <3>2, <3>4 DEF Counted
  <2>8. CASE j = k /\ HasSlot(rows[n]) = HasSlot(r) /\ UNCHANGED slots
    <3>1. Held(j)' = Held(j)
      BY <2>1, <2>2, <2>3, <2>8 DEF Held, HasSlot
    <3> QED BY <1>3, <2>4, <2>8, <3>1
  <2> QED BY <2>2, <2>5, <2>6, <2>7, <2>8
<1>17. ASSUME \/ Quiet \/ Inserts
              \/ \E c \in Caller : UpdateWrite(c)
              \/ \E k \in JobId : ListDue(k) \/ PassOver(k)
       PROVE  UNCHANGED <<rows, exec, slots>>
  BY <1>17 DEF Quiet, Inserts, UpdateWrite, ListDue, PassOver
<1> QED
  BY <1>6, <1>7, <1>8, <1>10, <1>12, <1>13, <1>14, <1>15, <1>16, <1>17, NextCases

(***************************************************************************)
(* Cursors                                                                 *)
(***************************************************************************)

LEMMA SameSchedule ==
  ASSUME NEW r \in Definition, NEW s \in Definition, Schedule(r) = Schedule(s)
  PROVE  /\ r.kind = s.kind /\ r.expr = s.expr /\ r.enabled = s.enabled
         /\ r.start = s.start /\ r.end = s.end
         /\ NeverNames(r) = NeverNames(s) /\ Illegal(r) = Illegal(s)
         /\ Exhausted(r) = Exhausted(s)
<1>1. \A k \in ScheduleFields : Schedule(r)[k] = Schedule(s)[k]
  OBVIOUS
<1>2. \A k \in ScheduleFields : Schedule(r)[k] = r[k] /\ Schedule(s)[k] = s[k]
  BY DEF Schedule
<1>3. \A k \in ScheduleFields : r[k] = s[k]
  BY <1>1, <1>2
<1>4. /\ r.kind = s.kind /\ r.expr = s.expr /\ r.enabled = s.enabled
      /\ r.start = s.start /\ r.end = s.end
  BY <1>3 DEF ScheduleFields, Definition
<1> QED
  BY <1>4 DEF NeverNames, Illegal, Unparsable, Exhausted, IsAutoKind, NextCron, AfterWindow

\* A legal schedule without a next instant has none later either.
LEMMA ExhaustedStays ==
  ASSUME NEW r, r.kind \in Kind, r.expr \in Expression, r.end \in Maybe(Nat),
         ~Illegal(r), Exhausted(r), now \in Nat, now' \in Nat, now <= now'
  PROVE  Exhausted(r)'
<1>1. CASE ~IsAutoKind(r)
  BY <1>1 DEF Exhausted, IsAutoKind
<1>2. CASE AfterWindow(r, now)
  <2>1. r.end \in Nat /\ now' > r.end
    BY <1>2 DEF AfterWindow, Maybe
  <2> QED BY <1>2, <2>1 DEF Exhausted, AfterWindow
<1>3. CASE IsAutoKind(r) /\ r.kind = "cron" /\ NextCron(r, now) = None
  <2>1. r.expr \in SUBSET Nat
    BY <1>3, DefinitionAssumptions DEF Illegal, Unparsable
  <2> DEFINE later == {x \in r.expr : x > now}
             later1 == {x \in r.expr : x > now'}
  <2>2. r.expr # {}
    BY <1>3, CatalogAssumptions DEF NextCron, ZeroTime
  <2>3. later = {}
    <3>1. ASSUME later # {}  PROVE FALSE
      <4>1. later \in SUBSET Nat
        BY <2>1
      <4>2. Min(later) \in Nat
        BY <3>1, <4>1, MinIsLeast
      <4>3. NextCron(r, now) = Min(later)
        BY <2>2, <3>1 DEF NextCron
      <4> QED BY <1>3, <4>2, <4>3, CatalogAssumptions
    <3> QED BY <3>1
  <2>4. later1 = {}
    <3>1. ASSUME NEW x \in later1  PROVE x \in later
      BY <2>1
    <3> QED BY <2>3, <3>1
  <2>5. NextCron(r, now') = None
    BY <2>2, <2>4 DEF NextCron
  <2> QED BY <1>3, <2>5 DEF Exhausted
<1> QED BY <1>1, <1>2, <1>3 DEF Exhausted

LEMMA SoundStays ==
  ASSUME NEW r \in Definition, Sound(r), now \in Nat, now' \in Nat, now <= now'
  PROVE  Sound(r)'
BY ExhaustedStays DEF Sound, Definition, Illegal, Unparsable, IsAutoKind

\* A definition s whose cursor has just been computed from its schedule, that
\* of r, which is valid.
LEMMA ComputedIsSound ==
  ASSUME NEW r, r.kind \in Kind, r.expr \in Expression, r.enabled \in BOOLEAN, Valid(r),
         NEW s, s.kind = r.kind, s.expr = r.expr, s.enabled = r.enabled,
         s.next = ComputeNextRun(r, now), now \in Nat
  PROVE  /\ Sound(s)
         /\ s.next # None => s.next > now \/ (NeverNames(s) /\ s.next = ZeroTime)
         /\ NeverNames(s) /\ s.next # None => s.next = ZeroTime
<1>1. r.enabled => ~Illegal(r)
  BY DEF Valid
<1>2. Illegal(s) = Illegal(r) /\ NeverNames(s) = NeverNames(r) /\ IsAutoKind(s) = IsAutoKind(r)
  BY DEF Illegal, NeverNames, Unparsable, IsAutoKind
<1>3. NextCron(s, now) = NextCron(r, now)
  BY DEF NextCron
<1> QED
  BY <1>1, <1>2, <1>3, NextIsLater DEF ComputeNextRun, Sound, Exhausted

\* Writing columns computed by Columns makes of r what the request asks for.
LEMMA ColumnsAreSound ==
  ASSUME NEW r \in Definition, NEW f, PartOfDefinition(f), now \in Nat,
         HasScheduleChange(f) => Valid(ApplyJobFields(r, f))
  PROVE  LET m == ApplyJobFields(r, Columns(r, f, now))
         IN  "next" \in DOMAIN Columns(r, f, now) =>
                Sound(m) /\ (NeverNames(m) /\ m.next # None => m.next = ZeroTime)
<1> DEFINE g == Columns(r, f, now)
           q == ApplyJobFields(r, f)
           m == ApplyJobFields(r, g)
<1> SUFFICES ASSUME "next" \in DOMAIN g
             PROVE  Sound(m) /\ (NeverNames(m) /\ m.next # None => m.next = ZeroTime)
  OBVIOUS
<1>1. DOMAIN g = (DOMAIN f \ OptionFields)
                    \union (IF HasScheduleChange(f) THEN {"next"} ELSE {})
                    \union (IF HasRetryOptsChange(f) THEN {"options"} ELSE {})
  BY DEF Columns
<1>2. g["next"] = ComputeNextRun(q, now)
  BY DEF Columns
<1>3. \A k \in DOMAIN g \ {"next", "options"} : g[k] = f[k] /\ k \in DOMAIN f
  BY DEF Columns
<1>4. q \in Definition
  BY ApplyIsDefinition DEF PartOfDefinition, ScheduleFields, OptionFields
<1>5. HasScheduleChange(f)
  BY <1>1 DEF PartOfDefinition, ScheduleFields, OptionFields
<1> HIDE DEF g
<1>6. m.next = ComputeNextRun(q, now)
  BY <1>2 DEF ApplyJobFields, Definition
<1>7. \A k \in ScheduleFields : k \in DOMAIN g <=> k \in DOMAIN f
  BY <1>1 DEF ScheduleFields, OptionFields
<1>8. \A k \in ScheduleFields : k \in DOMAIN r /\ m[k] = q[k]
  BY <1>3, <1>7 DEF ApplyJobFields, Definition, ScheduleFields
<1>9. m.kind = q.kind /\ m.expr = q.expr /\ m.enabled = q.enabled
  BY <1>8 DEF ScheduleFields, ApplyJobFields, Definition
<1>10. Valid(q)
  BY <1>5
<1>11. q.kind \in Kind /\ q.expr \in Expression /\ q.enabled \in BOOLEAN
  BY <1>4 DEF Definition
<1> HIDE DEF q, m
<1> QED BY <1>6, <1>9, <1>10, <1>11, ComputedIsSound

\* A request that is about to write was so before, or has just computed what
\* it writes.
LEMMA NextWritesSound ==
  ASSUME Types, WritesSound, [Next]_vars
  PROVE  WritesSound'
<1> DEFINE m(w) == ApplyJobFields(w.seen, w.fields)
           Computed(w) == "next" \in DOMAIN w.fields =>
                /\ Sound(m(w))
                /\ NeverNames(m(w)) /\ m(w).next # None => m(w).next = ZeroTime
<1>1. now \in Nat /\ now' \in Nat /\ now <= now'
  BY TimeGrows
<1>2. ASSUME NEW w, PendingWrite(w), Computed(w)  PROVE Computed(w)'
  <2>1. m(w) \in Definition
    <3>1. "from" \notin DOMAIN w.fields
      BY <1>2 DEF PendingWrite, ScheduleFields
    <3> QED BY <1>2, <3>1, ApplyIsDefinition DEF PendingWrite
  <2> DEFINE d == m(w)
  <2>2. d \in Definition
    BY <2>1
  <2> HIDE DEF d
  <2>3. Sound(d) => Sound(d)'
    BY <1>1, <2>2, SoundStays
  <2> QED BY <1>2, <2>3 DEF d
<1>3. ASSUME NEW c \in Caller, NEW j \in JobId, NEW f, PartOfDefinition(f), UpdateGet(c, j, f),
             NEW w, w = call'[c], w.pc = "write"
      PROVE  Computed(w)'
  <2>1. job[j] # None /\ (HasScheduleChange(f) => Valid(ApplyJobFields(job[j], f)))
    BY <1>3 DEF UpdateGet, Types, Done, Todo
  <2>2. job[j] \in Definition
    BY <2>1 DEF Types, Maybe
  <2>3. w.fields = Columns(job[j], f, now) /\ w.seen = job[j]
    BY <1>3, <2>1 DEF UpdateGet, Types
  <2>4. now' = now
    BY <1>3 DEF UpdateGet
  <2>5. Computed(w)
    BY <1>1, <1>3, <2>1, <2>2, <2>3, ColumnsAreSound
  <2> DEFINE d == m(w)
  <2> HIDE DEF d
  <2>6. Sound(d)' = Sound(d)
    BY <2>4 DEF Sound, Exhausted, AfterWindow
  <2> QED BY <2>5, <2>6 DEF d
<1>4. ASSUME NEW c \in Caller, call'[c].pc = "write"
      PROVE  \/ call'[c] = call[c]
             \/ \E j \in JobId : \E f : PartOfDefinition(f) /\ UpdateGet(c, j, f)
  <2>1. Todo.pc # "write" /\ Done.pc # "write"
    BY DEF Todo, Done
  <2>2. ASSUME NEW d \in Caller, NEW v, call' = [call EXCEPT ![d] = v]
        PROVE  call'[c] = IF c = d THEN v ELSE call[c]
    BY <2>2 DEF Types
  <2>3. ASSUME NEW d \in Caller, NEW j \in JobId, NEW f, PartOfDefinition(f), UpdateGet(d, j, f)
        PROVE  call'[c] = call[c] \/ c = d
    BY <2>2, <2>3 DEF UpdateGet
  <2>4. ASSUME NEW d \in Caller, NEW j \in JobId, NEW f \in Edits, UpdateJob(d, j, f)
        PROVE  PartOfDefinition(f) /\ UpdateGet(d, j, f)
    BY <2>4, DefinitionAssumptions DEF UpdateJob
  <2>5. ASSUME NEW d \in Caller, NEW j \in JobId, NEW b \in BOOLEAN, SetJobEnabled(d, j, b)
        PROVE  PartOfDefinition([enabled |-> b]) /\ UpdateGet(d, j, [enabled |-> b])
    <3>1. PartOfDefinition([enabled |-> b])
      BY DEF PartOfDefinition, ScheduleFields, Values
    <3> QED BY <2>5, <3>1 DEF SetJobEnabled, UpdateJob
  <2>6. ASSUME NEW d \in Caller, ImportUpdate(d)
        PROVE  /\ PartOfDefinition(call[d].fields) /\ call[d].target \in JobId
               /\ UpdateGet(d, call[d].target, call[d].fields)
    BY <2>6 DEF ImportUpdate, Types, RequestType
  <2>7. ASSUME NEW d \in Caller, NEW j \in JobId, CopyGet(d, j) \/ ExportJob(d, j) \/ TriggerGet(d, j)
        PROVE  call'[c] = call[c]
    <3>1. ASSUME NEW v, call' = [call EXCEPT ![d] = v], v.pc # "write"  PROVE call'[c] = call[c]
      BY <1>4, <2>2, <3>1
    <3>2. CASE CopyGet(d, j)
      <4> DEFINE v == [Todo EXCEPT !.pc = "create", !.target = job[j].from, !.seen = job[j]]
      <4>1. v.pc # "write" /\ call' = [call EXCEPT ![d] = v]
        BY <3>2 DEF CopyGet, Todo
      <4> QED BY <3>1, <4>1
    <3>3. CASE ExportJob(d, j)
      <4> DEFINE v == [Todo EXCEPT !.pc = "update", !.target = j,
                                   !.fields = SavedFields(JobToDTO(job[j]))]
      <4>1. v.pc # "write" /\ call' = [call EXCEPT ![d] = v]
        BY <3>3 DEF ExportJob, Todo
      <4> QED BY <3>1, <4>1
    <3>4. CASE TriggerGet(d, j)
      <4> DEFINE v == [Todo EXCEPT !.pc = "submit", !.target = j]
      <4>1. v.pc # "write" /\ call' = [call EXCEPT ![d] = v]
        BY <3>4 DEF TriggerGet, Todo
      <4> QED BY <3>1, <4>1
    <3> QED BY <2>7, <3>2, <3>3, <3>4
  <2>8. ASSUME NEW d \in Caller, NEW a, NEW o, ImportList(d, a, o)  PROVE call'[c] = call[c]
    <3>1. PICK v : call' = [call EXCEPT ![d] = v] /\ v.pc # "write"
      <4> DEFINE r == ConvertPJJob(o)
                 known == {j \in Existing : job[j].from = Fingerprint[a]}
                 v == IF known # {}
                      THEN [Todo EXCEPT !.pc = "update", !.target = Min(known),
                                        !.fields = JobToUpdateFields(r)]
                      ELSE [Todo EXCEPT !.pc = "create", !.target = Fingerprint[a], !.seen = r]
      <4>1. call' = [call EXCEPT ![d] = v]
        BY <2>8 DEF ImportList
      <4>2. v.pc # "write"
        BY DEF Todo
      <4> HIDE DEF v
      <4> QED BY <4>1, <4>2
    <3> QED BY <1>4, <2>2, <3>1
  <2>9. ASSUME NEW d \in Caller,
               \/ CreateForCall(d) \/ UpdateWrite(d) \/ SubmitManual(d)
               \/ \E j \in JobId : DeleteJob(d, j)
        PROVE  call'[c] = call[c]
    <3>1. call' = [call EXCEPT ![d] = Done]
      BY <2>9 DEF CreateForCall, UpdateWrite, SubmitManual, DeleteJob
    <3> QED BY <1>4, <2>1, <2>2, <3>1
  <2>10. ASSUME NEW d \in Caller, Request(d) \/ Answer(d)
         PROVE  \/ call'[c] = call[c]
                \/ \E j \in JobId : \E f : PartOfDefinition(f) /\ UpdateGet(c, j, f)
    BY <2>3, <2>4, <2>5, <2>6, <2>7, <2>8, <2>9, <2>10 DEF Request, Answer
  <2>11. CASE Crash
    BY <1>4, <2>1, <2>11 DEF Crash
  <2>12. ASSUME NEW j \in JobId,
                RunOnce(j) \/ Execute(j) \/ Fails(j)
         PROVE  call' = call
    BY <2>12 DEF RunOnce, Execute, ListDue, Dispatch, PassOver, ComputeNext, Claim, Abandon,
       CreateRow,
       Fails, ClaimFails, CreateRowFails
  <2>13. ASSUME NEW n \in DOMAIN rows, RowStep(n)  PROVE call' = call
    BY <2>13, RowStepFrame
  <2>14. Tick \/ UNCHANGED vars \/ (\E r : CreateJob(r) \/ SaveJob(r)) => call' = call
    BY DEF Tick, vars, CreateJob, SaveJob
  <2> QED BY <2>10, <2>11, <2>12, <2>13, <2>14 DEF Next, Fails
<1>5. ASSUME NEW c \in Caller, NEW w, w = call'[c], w.pc = "write"  PROVE Computed(w)'
  <2>1. CASE w = call[c]
    <3>1. PendingWrite(w) /\ Computed(w)
      BY <1>5, <2>1 DEF Types, RequestType, WritesSound
    <3> QED BY <1>2, <3>1
  <2>2. CASE \E j \in JobId : \E f : PartOfDefinition(f) /\ UpdateGet(c, j, f)
    BY <1>3, <1>5, <2>2
  <2> QED BY <1>4, <1>5, <2>1, <2>2
<1> QED
  BY <1>5 DEF WritesSound, Sound, Exhausted, AfterWindow

\* What execute computes: a later instant, or none for a good reason.
LEMMA NextNextComputed ==
  ASSUME Types, CopiesInForce, NextComputed, [Next]_vars
  PROVE  NextComputed'
<1>1. now \in Nat /\ now' \in Nat /\ now <= now'
  BY TimeGrows
<1> DEFINE Good(e) == e.pc \in {"claim", "create"} =>
             /\ e.next # None => e.next > e.seen.next \/ NeverNames(e.seen)
             /\ e.next = None /\ ~Illegal(e.seen) => Exhausted(e.seen)
<1>2. ASSUME NEW e \in ExecState, e.pc # "idle" => e.seen \in Definition, Good(e)  PROVE Good(e)'
  <2> DEFINE r == e.seen
  <2>1. r \in Definition /\ ~Illegal(r) /\ Exhausted(r) => Exhausted(r)'
    <3> HIDE DEF r
    <3> QED BY <1>1, ExhaustedStays DEF Definition
  <2> QED BY <1>2, <2>1
<1>3. ASSUME NEW j \in JobId, ComputeNext(j), NEW e, e = exec'[j]  PROVE Good(e)'
  <2> DEFINE r == e.seen
  <2>1. /\ e.pc = "claim" /\ exec[j].seen = r /\ e.next = NewNext(r, now) /\ now' = now
    BY <1>3 DEF ComputeNext, Types
  <2>2. r \in Definition
    BY <1>3, <2>1 DEF ComputeNext, Types
  <2>3. r.next \in Nat /\ r.next <= now
    BY <1>3, <2>1 DEF ComputeNext, CopiesInForce, Copies, InForce
  <2> HIDE DEF r
  <2>4. r.kind \in Kind /\ r.expr \in Expression /\ r.start \in Maybe(Nat)
    BY <2>2 DEF Definition
  <2> DEFINE n == NextByKind(r, now)
  <2>5. /\ n \in Maybe(Nat)
        /\ n # None => n > now \/ NeverNames(r)
        /\ n = None /\ ~Illegal(r) => ~IsAutoKind(r) \/ (r.kind = "cron" /\ NextCron(r, now) = None)
    BY <1>1, <2>4, NextIsLater
  <2>6. NewNext(r, now) # None => NewNext(r, now) > r.next \/ NeverNames(r)
    <3>1. CASE BeforeWindow(r, now) /\ (n = None \/ n < r.start) /\ ~AfterWindow(r, now)
      <4>1. NewNext(r, now) = r.start /\ r.start \in Nat /\ r.start > now
        BY <1>1, <2>4, <3>1 DEF NewNext, BeforeWindow, Maybe
      <4> QED BY <1>1, <2>3, <4>1
    <3>2. CASE ~(BeforeWindow(r, now) /\ (n = None \/ n < r.start)) /\ ~AfterWindow(r, now)
      <4>1. NewNext(r, now) = n
        BY <3>2 DEF NewNext
      <4> HIDE DEF n
      <4> QED BY <1>1, <2>3, <2>5, <4>1 DEF Maybe
    <3>3. CASE AfterWindow(r, now)
      BY <3>3 DEF NewNext
    <3> QED BY <3>1, <3>2, <3>3
  <2>7. NewNext(r, now) = None /\ ~Illegal(r) => Exhausted(r)
    BY <2>4, <2>5, CatalogAssumptions DEF NewNext, Exhausted, BeforeWindow, Maybe
  <2>8. Exhausted(r)' = Exhausted(r)
    BY <2>1 DEF Exhausted, AfterWindow
  <2> QED BY <2>1, <2>6, <2>7, <2>8 DEF r
<1>4. ASSUME NEW j \in JobId, NEW e, e = exec'[j], e.pc # "idle"
      PROVE  \/ ComputeNext(j) \/ e.pc = "compute" \/ e = exec[j]
             \/ exec[j].pc = "claim" /\ e.seen = exec[j].seen /\ e.next = exec[j].next
  <2>1. Idle.pc = "idle" /\ \A k \in JobId : exec[k] \in ExecState
    BY DEF Idle, Types
  <2>2. ASSUME NEW k \in JobId, NEW v, exec' = [exec EXCEPT ![k] = v]
        PROVE  e = IF k = j THEN v ELSE exec[j]
    BY <1>4, <2>2 DEF Types
  <2>3. ASSUME NEW k \in JobId, Dispatch(k)  PROVE e.pc = "compute" \/ e = exec[j]
    <3> DEFINE v == [Idle EXCEPT !.pc = "compute", !.seen = list[k]]
    <3>1. exec' = [exec EXCEPT ![k] = v] /\ v.pc = "compute"
      BY <2>3 DEF Dispatch, Idle
    <3> HIDE DEF v
    <3> QED BY <2>2, <3>1
  <2>4. ASSUME NEW k \in JobId, ComputeNext(k)  PROVE ComputeNext(j) \/ e = exec[j]
    BY <1>4, <2>4 DEF ComputeNext, Types
  <2>5. ASSUME NEW k \in JobId, Claim(k)
        PROVE  \/ e = exec[j]
               \/ exec[j].pc = "claim" /\ e.seen = exec[j].seen /\ e.next = exec[j].next
    <3> DEFINE v == [exec[k] EXCEPT !.pc = "create"]
    <3>1. exec' = [exec EXCEPT ![k] = v] /\ exec[k].pc = "claim"
      BY <2>5 DEF Claim
    <3>2. v.seen = exec[k].seen /\ v.next = exec[k].next
      BY <2>1 DEF ExecState
    <3> HIDE DEF v
    <3> QED BY <2>2, <3>1, <3>2
  <2>6. ASSUME NEW k \in JobId, Abandon(k) \/ CreateRow(k) \/ Fails(k)
        PROVE  e = exec[j]
    <3>1. exec' = [exec EXCEPT ![k] = Idle]
      BY <2>6 DEF Abandon, CreateRow, Fails, ClaimFails, CreateRowFails
    <3> QED BY <1>4, <2>1, <2>2, <3>1
  <2>7. ~Crash
    BY <1>4, <2>1 DEF Crash
  <2>8. ASSUME \/ Quiet \/ Inserts
               \/ \E c \in Caller : UpdateWrite(c) \/ SubmitManual(c)
               \/ \E c \in Caller, k \in JobId : DeleteJob(c, k)
               \/ \E k \in JobId : ListDue(k) \/ PassOver(k)
               \/ \E n \in DOMAIN rows : RowStep(n)
        PROVE  exec' = exec
    BY <2>8, RowStepFrame DEF Quiet, Inserts, UpdateWrite, SubmitManual, DeleteJob, ListDue,
       PassOver
  <2> QED BY <1>4, <2>3, <2>4, <2>5, <2>6, <2>7, <2>8, NextCases
<1>5. ASSUME NEW j \in JobId, NEW e, e = exec'[j]  PROVE Good(e)'
  <2>1. e.pc \in {"idle", "compute"} => Good(e)'
    OBVIOUS
  <2>2. exec[j] \in ExecState /\ (exec[j].pc # "idle" => exec[j].seen \in Definition) /\ Good(exec[j])
    BY DEF Types, NextComputed
  <2>3. PICK d : d = exec[j]
    OBVIOUS
  <2>4. Good(d)'
    BY <1>2, <2>2, <2>3
  <2>5. CASE d.pc = "claim" /\ e.seen = d.seen /\ e.next = d.next
    BY <2>4, <2>5
  <2> QED BY <1>3, <1>4, <1>5, <2>1, <2>3, <2>4, <2>5
<1> QED BY <1>5 DEF NextComputed, Exhausted, AfterWindow

LEMMA OvertakenGrows ==
  ASSUME Types, [Next]_vars
  PROVE  overtaken \subseteq overtaken'
<1>1. ASSUME NEW c \in Caller, UpdateWrite(c)  PROVE overtaken \subseteq overtaken'
  BY <1>1 DEF UpdateWrite
<1>2. ASSUME \/ Quiet \/ Inserts \/ Crash
             \/ \E c \in Caller : SubmitManual(c)
             \/ \E c \in Caller, k \in JobId : DeleteJob(c, k)
             \/ \E n \in DOMAIN rows : RowStep(n)
      PROVE  overtaken' = overtaken
  BY <1>2, RowStepFrame DEF Quiet, Inserts, Crash, SubmitManual, DeleteJob
<1>3. ASSUME NEW j \in JobId,
             \/ ListDue(j) \/ Dispatch(j) \/ PassOver(j) \/ ComputeNext(j) \/ Claim(j)
             \/ Abandon(j) \/ CreateRow(j) \/ Fails(j)
      PROVE  overtaken' = overtaken
  BY <1>3 DEF ListDue, Dispatch, PassOver, ComputeNext, Claim, Abandon, CreateRow, Fails,
     ClaimFails, CreateRowFails
<1> QED BY <1>1, <1>2, <1>3, NextCases

\* Only ListDue makes a copy; Dispatch passes it on.
LEMMA NextCopies ==
  ASSUME Types, [Next]_vars, NEW j \in JobId, NEW r \in Copies(j)'
  PROVE  r \in Copies(j) \/ (ListDue(j) /\ r = job[j])
<1>1. Idle.pc = "idle"
  BY DEF Idle
<1>2. ASSUME \/ Quiet \/ Inserts
             \/ \E c \in Caller : UpdateWrite(c) \/ SubmitManual(c)
             \/ \E c \in Caller, k \in JobId : DeleteJob(c, k)
             \/ \E n \in DOMAIN rows : RowStep(n)
      PROVE  r \in Copies(j)
  <2>1. exec' = exec /\ list' = list
    BY <1>2, RowStepFrame DEF Quiet, Inserts, UpdateWrite, SubmitManual, DeleteJob
  <2> QED BY <2>1 DEF Copies
<1>3. CASE Crash
  BY <1>1, <1>3 DEF Crash, Copies
<1>4. ASSUME NEW k \in JobId, ListDue(k)  PROVE r \in Copies(j) \/ (ListDue(j) /\ r = job[j])
  BY <1>4 DEF ListDue, Copies, Types
<1>5. ASSUME NEW k \in JobId, Dispatch(k)  PROVE r \in Copies(j)
  <2>1. list[k] # None /\ list' = [list EXCEPT ![k] = None]
    BY <1>5 DEF Dispatch
  <2>2. exec'[j] = exec[j] \/ (j = k /\ exec'[j].seen = list[j])
    <3> DEFINE v == [Idle EXCEPT !.pc = "compute", !.seen = list[k]]
    <3>1. exec' = [exec EXCEPT ![k] = v] /\ v.seen = list[k]
      BY <1>5 DEF Dispatch, Idle
    <3> HIDE DEF v
    <3> QED BY <3>1 DEF Types
  <2> QED BY <2>1, <2>2 DEF Copies, Types
<1>6. ASSUME NEW k \in JobId, PassOver(k)  PROVE r \in Copies(j)
  BY <1>6 DEF PassOver, Copies, Types
<1>7. ASSUME NEW k \in JobId, ComputeNext(k) \/ Claim(k)  PROVE r \in Copies(j)
  <2>1. exec[k] \in ExecState /\ exec[k].pc # "idle" /\ list' = list
    BY <1>7 DEF ComputeNext, Claim, Types
  <2>2. exec'[j] = exec[j] \/ (j = k /\ exec'[j].seen = exec[j].seen)
    BY <1>7, <2>1 DEF ComputeNext, Claim, Types, ExecState
  <2> QED BY <2>1, <2>2 DEF Copies
<1>8. ASSUME NEW k \in JobId, Abandon(k) \/ CreateRow(k) \/ Fails(k)  PROVE r \in Copies(j)
  <2>1. exec' = [exec EXCEPT ![k] = Idle] /\ list' = list
    BY <1>8 DEF Abandon, CreateRow, Fails, ClaimFails, CreateRowFails
  <2>2. exec'[j] = exec[j] \/ exec'[j].pc = "idle"
    BY <1>1, <2>1 DEF Types
  <2> QED BY <2>1, <2>2 DEF Copies
<1> QED BY <1>2, <1>3, <1>4, <1>5, <1>6, <1>7, <1>8, NextCases

\* Writing or moving the cursor of a job leaves its copies in force, or behind.
LEMMA NextCopiesInForce ==
  ASSUME Types, FreshIds, CopiesInForce, NextComputed, WritesSound, [Next]_vars
  PROVE  CopiesInForce'
<1>1. now \in Nat /\ now' \in Nat /\ now <= now' /\ overtaken \subseteq overtaken'
  BY TimeGrows, OvertakenGrows
<1>2. ASSUME NEW j \in JobId  PROVE Copies(j) \subseteq Definition
  BY DEF Copies, Types, Maybe
<1> SUFFICES ASSUME NEW j \in JobId, NEW r \in Copies(j)'  PROVE InForce(j, r)'
  BY DEF CopiesInForce
<1>3. CASE ListDue(j) /\ r = job[j] /\ r \notin Copies(j)
  <2>1. r.enabled /\ r.next # None /\ r.next <= now /\ job' = job
    BY <1>3 DEF ListDue, Due
  <2>2. r \in Definition
    BY <1>3 DEF ListDue, Due, Types, Maybe
  <2>3. r.next \in Nat
    BY <2>1, <2>2 DEF Definition, Maybe
  <2> QED BY <1>1, <1>3, <2>1, <2>3 DEF InForce
<1>4. CASE r \in Copies(j)
  <2>1. InForce(j, r) /\ r \in Definition
    BY <1>2, <1>4 DEF CopiesInForce
  <2>2. r.enabled /\ r.next \in Nat /\ r.next <= now /\ r.next <= now'
    BY <1>1, <2>1 DEF InForce
  <2>3. ASSUME job'[j] = job[j] \/ job'[j] = None  PROVE InForce(j, r)'
    BY <1>1, <2>1, <2>2, <2>3 DEF InForce
  <2>4. CASE Inserts
    <3>1. Given(j)
      BY <1>4 DEF FreshIds, Copies
    <3>2. j # NextId
      BY <2>4, <3>1, InsertEffect DEF Given, Types
    <3> QED BY <2>3, <2>4, <3>2, InsertEffect
  <2>5. ASSUME NEW c \in Caller, UpdateWrite(c), job[call[c].target] # None  PROVE InForce(j, r)'
    <3> DEFINE f == call[c].fields
               m == ApplyJobFields(job[j], f)
    <3>1. CASE j # call[c].target
      BY <2>3, <2>5, <3>1, WriteEffect
    <3>2. CASE j \in overtaken'
      BY <2>2, <3>2 DEF InForce
    <3>3. CASE j = call[c].target /\ j \notin overtaken'
      <4>1. /\ job[j] \in Definition /\ m \in Definition /\ job'[j] = m
            /\ "next" \notin DOMAIN f => m.next = job[j].next /\ Schedule(m) = Schedule(job[j])
            /\ "next" \in DOMAIN f => m.next = f["next"]
            /\ j \notin overtaken /\ job[j] = call[c].seen
            /\ "next" \in DOMAIN f /\ f["next"] # None => f["next"] > now
        BY <2>5, <3>3, WriteEffect
      <4>2. CASE "next" \notin DOMAIN f
        <5>1. NeverNames(m) = NeverNames(job[j])
          BY <4>1, <4>2, SameSchedule
        <5> QED BY <2>1, <2>2, <2>5, <3>3, <4>1, <4>2, <5>1 DEF InForce
      <4>3. CASE "next" \in DOMAIN f /\ m.next # None
        <5>1. m.next \in Nat /\ m.next > now
          BY <4>1, <4>3 DEF Definition, Maybe
        <5>2. ~NeverNames(m)
          <6>1. NeverNames(m) => m.next = ZeroTime
            BY <2>5, <4>1, <4>3 DEF WritesSound, UpdateWrite
          <6> QED BY <1>1, <5>1, <6>1 DEF ZeroTime
        <5> QED BY <1>1, <2>2, <4>1, <5>1, <5>2 DEF InForce
      <4>4. CASE m.next = None
        BY <2>2, <4>1, <4>4 DEF InForce
      <4> QED BY <4>2, <4>3, <4>4
    <3> QED BY <3>1, <3>2, <3>3
  <2>6. ASSUME NEW k \in JobId, Claim(k) \/ Abandon(k)  PROVE InForce(j, r)'
    <3>1. CASE job'[j] = job[j]
      BY <2>3, <3>1
    <3>2. CASE j \in overtaken'
      BY <2>2, <3>2 DEF InForce
    <3>3. CASE job'[j] # job[j] /\ j \notin overtaken'
      <4>1. /\ Claimable(k) /\ exec[k].pc = "claim"
            /\ job' = [job EXCEPT ![k].next = exec[k].next]
        BY <2>6, <3>3 DEF Claim, Abandon
      <4>2. j = k
        BY <3>3, <4>1, CursorMoves
      <4>3. /\ job[j] \in Definition /\ job[j] # None /\ job[j].next = exec[j].seen.next
            /\ exec[j].seen \in Definition /\ exec[j].next \in Maybe(Nat)
            /\ job'[j] \in Definition /\ job'[j].next = exec[j].next
            /\ Schedule(job'[j]) = Schedule(job[j])
        BY <4>1, <4>2, CursorMoves
      <4>4. j \notin overtaken
        BY <1>1, <3>3
      <4>5. InForce(j, exec[j].seen)
        BY <4>1, <4>2 DEF CopiesInForce, Copies
      <4>6. exec[j].seen.next \in Nat /\ job[j].next # None /\ Schedule(job[j]) = Schedule(exec[j].seen)
        BY <4>3, <4>4, <4>5, CatalogAssumptions DEF InForce
      <4>7. NeverNames(job'[j]) = NeverNames(job[j]) /\ NeverNames(exec[j].seen) = NeverNames(job[j])
        BY <4>3, <4>6, SameSchedule
      <4>8. exec[j].next # None => exec[j].next > exec[j].seen.next \/ NeverNames(exec[j].seen)
        BY <4>1, <4>2 DEF NextComputed
      <4>9. CASE NeverNames(job[j])
        BY <2>1, <2>2, <4>3, <4>4, <4>6, <4>7, <4>9 DEF InForce
      <4>10. CASE ~NeverNames(job[j]) /\ exec[j].next # None
        <5>1. r.next <= job[j].next
          BY <2>1, <4>3, <4>4, <4>6, <4>10 DEF InForce
        <5>2. exec[j].next \in Nat /\ exec[j].next > r.next
          BY <2>2, <4>3, <4>6, <4>7, <4>8, <4>10, <5>1 DEF Maybe
        <5> QED BY <2>2, <4>3, <4>7, <4>10, <5>2 DEF InForce
      <4>11. CASE exec[j].next = None
        BY <2>2, <4>3, <4>11 DEF InForce
      <4> QED BY <4>9, <4>10, <4>11
    <3> QED BY <3>1, <3>2, <3>3
  <2>7. ASSUME NEW c \in Caller, NEW k \in JobId, DeleteJob(c, k)  PROVE InForce(j, r)'
    BY <2>3, <2>7 DEF DeleteJob, Types
  <2>8. UNCHANGED job => InForce(j, r)'
    BY <2>3
  <2> QED
    BY <2>4, <2>5, <2>6, <2>7, <2>8, NextCases, RowStepFrame
    DEF Quiet, Crash, SubmitManual, ListDue, Dispatch, PassOver, ComputeNext, CreateRow, Fails,
       ClaimFails, CreateRowFails
<1> QED BY <1>3, <1>4, NextCopies

\* Inserted, written or moved on: without a cursor only for a good reason.
LEMMA NextJobsSound ==
  ASSUME Types, CopiesInForce, NextComputed, WritesSound, JobsSound, [Next]_vars
  PROVE  JobsSound'
<1>1. now \in Nat /\ now' \in Nat /\ now <= now' /\ overtaken \subseteq overtaken'
  BY TimeGrows, OvertakenGrows
<1>2. ASSUME NEW j \in JobId, j \notin overtaken', job'[j] = job[j] \/ job'[j] = None, NEW d, d = job'[j],
             d # None
      PROVE  Sound(d)'
  <2>1. Sound(d) /\ d \in Definition
    BY <1>1, <1>2 DEF JobsSound, Existing, Types, Maybe
  <2> QED BY <1>1, <2>1, SoundStays
<1>3. ASSUME NEW d, Sound(d), now' = now  PROVE Sound(d)'
  BY <1>3 DEF Sound, Exhausted, AfterWindow
<1> SUFFICES ASSUME NEW j \in JobId, j \notin overtaken', NEW d, d = job'[j], d # None  PROVE Sound(d)'
  BY DEF JobsSound, Existing, Sound, Exhausted, AfterWindow
<1>4. CASE Inserts
  <2>1. CASE j # NextId
    BY <1>2, <1>4, <2>1, InsertEffect
  <2>2. CASE j = NextId
    <3>1. PICK r \in Wanted \union Definition :
             /\ Valid(r)
             /\ d.enabled = r.enabled /\ d.kind = r.kind /\ d.expr = r.expr
             /\ d.next = ComputeNextRun(r, now)
      BY <1>4, <2>2, InsertEffect
    <3>2. r.kind \in Kind /\ r.expr \in Expression /\ r.enabled \in BOOLEAN
      BY DEF Wanted, Definition
    <3>3. Sound(d)
      BY <1>1, <3>1, <3>2, ComputedIsSound
    <3> QED BY <1>3, <1>4, <3>3 DEF Inserts
  <2> QED BY <2>1, <2>2
<1>5. ASSUME NEW c \in Caller, UpdateWrite(c), job[call[c].target] # None  PROVE Sound(d)'
  <2> DEFINE f == call[c].fields
             m == ApplyJobFields(job[j], f)
  <2>1. CASE j # call[c].target
    BY <1>2, <1>5, <2>1, WriteEffect
  <2>2. CASE j = call[c].target
    <3>1. /\ job[j] \in Definition /\ m \in Definition /\ d = m
          /\ "next" \notin DOMAIN f => m.next = job[j].next /\ Schedule(m) = Schedule(job[j])
          /\ j \notin overtaken /\ job[j] = call[c].seen
      BY <1>5, <2>2, WriteEffect
    <3>2. CASE "next" \notin DOMAIN f
      <4>1. Sound(job[j])
        BY <1>5, <2>2, <3>1 DEF JobsSound, Existing
      <4>2. /\ m.enabled = job[j].enabled /\ Illegal(m) = Illegal(job[j])
            /\ Exhausted(m) = Exhausted(job[j])
        BY <3>1, <3>2, SameSchedule
      <4>3. Sound(m)
        BY <3>1, <3>2, <4>1, <4>2 DEF Sound
      <4> QED BY <1>3, <1>5, <3>1, <4>3 DEF UpdateWrite
    <3>3. CASE "next" \in DOMAIN f
      <4>1. Sound(m)
        BY <1>5, <3>1, <3>3 DEF WritesSound, UpdateWrite
      <4> QED BY <1>3, <1>5, <3>1, <4>1 DEF UpdateWrite
    <3> QED BY <3>2, <3>3
  <2> QED BY <2>1, <2>2
<1>6. ASSUME NEW k \in JobId, Claim(k) \/ Abandon(k)  PROVE Sound(d)'
  <2>1. CASE job'[j] = job[j]
    BY <1>2, <2>1
  <2>2. CASE job'[j] # job[j]
    <3>1. /\ Claimable(k) /\ exec[k].pc = "claim"
          /\ job' = [job EXCEPT ![k].next = exec[k].next]
      BY <1>6, <2>2 DEF Claim, Abandon
    <3>2. j = k
      BY <2>2, <3>1, CursorMoves
    <3>3. /\ job[j] \in Definition /\ job[j] # None /\ job[j].next = exec[j].seen.next
          /\ exec[j].seen \in Definition
          /\ d \in Definition /\ d.next = exec[j].next
          /\ Schedule(d) = Schedule(job[j])
      BY <3>1, <3>2, CursorMoves
    <3>4. InForce(j, exec[j].seen) /\ j \notin overtaken
      BY <1>1, <3>1, <3>2 DEF CopiesInForce, Copies
    <3>5. Schedule(job[j]) = Schedule(exec[j].seen)
      BY <3>3, <3>4, CatalogAssumptions DEF InForce
    <3>6. Illegal(d) = Illegal(job[j]) /\ Illegal(d) = Illegal(exec[j].seen) /\ d.enabled = job[j].enabled
          /\ Exhausted(d) = Exhausted(exec[j].seen)
      BY <3>3, <3>5, SameSchedule
    <3>7. Sound(job[j])
      BY <3>3, <3>4 DEF JobsSound, Existing
    <3>8. exec[j].next = None /\ ~Illegal(exec[j].seen) => Exhausted(exec[j].seen)
      BY <3>1, <3>2 DEF NextComputed
    <3>9. Sound(d)
      BY <3>3, <3>6, <3>7, <3>8 DEF Sound
    <3> QED BY <1>3, <1>6, <3>9 DEF Claim, Abandon
  <2> QED BY <2>1, <2>2
<1>7. ASSUME NEW c \in Caller, NEW k \in JobId, DeleteJob(c, k)  PROVE Sound(d)'
  BY <1>2, <1>7 DEF DeleteJob, Types
<1>8. UNCHANGED job => Sound(d)'
  BY <1>2
<1> QED
  BY <1>4, <1>5, <1>6, <1>7, <1>8, NextCases, RowStepFrame
  DEF Quiet, Crash, SubmitManual, ListDue, Dispatch, PassOver, ComputeNext, CreateRow, Fails,
     ClaimFails, CreateRowFails

\* A row keeps its job and its due instant.  A new one is the last, and is not
\* of a schedule or is the run claimed last.
LEMMA NextRowsAre ==
  ASSUME Types, [Next]_vars, NEW n \in DOMAIN rows'
  PROVE  \/ n \in DOMAIN rows /\ rows'[n].job = rows[n].job /\ rows'[n].due = rows[n].due
         \/ /\ n = Len(rows) + 1
            /\ \/ rows'[n].due = None
               \/ \E k \in JobId : CreateRow(k) /\ rows'[n].job = k /\ rows'[n].due = exec[k].seen.next
<1>1. /\ DOMAIN rows = 1 .. Len(rows) /\ Len(rows) \in Nat /\ rows \in Seq(RowState)
      /\ \A m \in DOMAIN rows : rows[m] \in RowState
  BY DEF Types
<1>2. ASSUME NEW r, rows' = Append(rows, r)
      PROVE  IF n = Len(rows) + 1 THEN rows'[n] = r ELSE n \in DOMAIN rows /\ rows'[n] = rows[n]
  BY <1>1, <1>2
<1>3. ASSUME NEW c \in Caller, SubmitManual(c)
      PROVE  \/ n \in DOMAIN rows /\ rows'[n] = rows[n]
             \/ n = Len(rows) + 1 /\ rows'[n].due = None
  <2>1. PICK r : r.due = None /\ rows' = Append(rows, r)
    <3>1. /\ rows' = Append(rows, Row(call[c].target, None, "queued"))
          /\ Row(call[c].target, None, "queued").due = None
      BY <1>3 DEF SubmitManual, Row
    <3> QED BY <3>1
  <2> QED BY <1>2, <2>1
<1>4. ASSUME NEW k \in JobId, CreateRow(k)
      PROVE  \/ n \in DOMAIN rows /\ rows'[n] = rows[n]
             \/ n = Len(rows) + 1 /\ rows'[n].job = k /\ rows'[n].due = exec[k].seen.next
  <2>1. PICK r, due : /\ rows' = Append(rows, r) /\ due = exec[k].seen.next
                      /\ r.job = k /\ r.due = due
    BY <1>4 DEF CreateRow, Row
  <2> QED BY <1>2, <2>1
<1>5. ASSUME NEW c \in Caller, NEW j \in JobId, DeleteJob(c, j)
      PROVE  n \in DOMAIN rows /\ rows'[n].job = rows[n].job /\ rows'[n].due = rows[n].due
  BY <1>1, <1>5 DEF DeleteJob, RowState
<1>6. CASE Crash
  <2>1. n \in DOMAIN rows /\ \E t : rows'[n] = [rows[n] EXCEPT !.state = t] \/ rows'[n] = rows[n]
    BY <1>6 DEF Crash
  <2> QED BY <1>1, <2>1 DEF RowState
<1>7. ASSUME NEW m \in DOMAIN rows, RowStep(m)
      PROVE  n \in DOMAIN rows /\ rows'[n].job = rows[n].job /\ rows'[n].due = rows[n].due
  <2>1. PICK r : rows' = [rows EXCEPT ![m] = r] /\ r.job = rows[m].job /\ r.due = rows[m].due
    BY <1>7, RowStepEffect
  <2>2. n \in DOMAIN rows
    BY <2>1
  <2>3. CASE n = m
    BY <2>1, <2>2, <2>3
  <2>4. CASE n # m
    BY <2>1, <2>2, <2>4
  <2> QED BY <2>2, <2>3, <2>4
<1>8. UNCHANGED rows => n \in DOMAIN rows /\ rows'[n] = rows[n]
  OBVIOUS
<1> QED
  BY <1>3, <1>4, <1>5, <1>6, <1>7, <1>8, NextCases
  DEF Quiet, Inserts, UpdateWrite, ListDue, Dispatch, PassOver, ComputeNext, Claim, Abandon, Fails,
      ClaimFails, CreateRowFails

\* Due instants go up, where every expression names an instant: a claim takes
\* the cursor past the run it claims, an update past the present.
LEMMA NextRowsBehind ==
  ASSUME {} \notin Expression, Types, FreshIds, CopiesInForce, NextComputed, WritesSound,
         RowsBehind, [Next]_vars
  PROVE  RowsBehind'
<1>1. now \in Nat /\ now' \in Nat /\ now <= now' /\ overtaken \subseteq overtaken'
  BY TimeGrows, OvertakenGrows
<1> DEFINE Past(r) == r.due # None => r.due <= now
           Behind(j, r) == r.job = j /\ r.due # None =>
                /\ job[j] # None /\ job[j].next # None => r.due < job[j].next
                /\ exec[j].pc = "create" => r.due < exec[j].seen.next
           Claimed(j) == exec[j].pc = "create" /\ job[j] # None /\ job[j].next # None =>
                            exec[j].seen.next < job[j].next
<1>2. /\ DOMAIN rows = 1 .. Len(rows) /\ Len(rows) \in Nat
      /\ \A n \in DOMAIN rows : rows[n] \in RowState
  BY DEF Types
<1>3. \A r \in RowState : r.job \in JobId /\ (r.due # None => r.due \in Nat)
  BY DEF RowState, Maybe
<1>4. \A n \in DOMAIN rows : Past(rows[n])
  BY DEF RowsBehind
<1>5. \A j \in JobId \ overtaken : Claimed(j) /\ \A n \in DOMAIN rows : Behind(j, rows[n])
  BY DEF RowsBehind
<1>6. ASSUME NEW j \in JobId, j \notin overtaken', Claimed(j),
             NEW r \in RowState, Past(r), Behind(j, r)
      PROVE  Behind(j, r)' /\ Claimed(j)'
  <2>1. j \notin overtaken /\ (r.due # None => r.due \in Nat)
    BY <1>1, <1>3, <1>6
  <2>2. ASSUME job'[j] = job[j] \/ job'[j] = None, exec'[j] = exec[j] \/ exec'[j].pc # "create"
        PROVE  Behind(j, r)' /\ Claimed(j)'
    BY <1>6, <2>2
  <2>3. exec[j].pc # "idle" =>
           /\ exec[j].seen \in Definition /\ exec[j].seen.next \in Nat
           /\ exec[j].seen.next <= now /\ ~NeverNames(exec[j].seen)
    <3>1. exec[j].pc # "idle" => exec[j].seen \in Definition /\ InForce(j, exec[j].seen)
      BY DEF CopiesInForce, Copies, Types
    <3>2. \A s \in Definition : ~NeverNames(s)
      BY DEF NeverNames, Definition
    <3> QED BY <3>1, <3>2 DEF InForce
  <2>4. ASSUME exec'[j] = exec[j], job'[j].next = None \/ (job'[j].next \in Nat /\ job'[j].next > now)
        PROVE  Behind(j, r)' /\ Claimed(j)'
    BY <1>1, <1>6, <2>1, <2>3, <2>4
  <2>5. CASE Inserts
    <3>1. CASE j # NextId
      BY <2>2, <2>5, <3>1, InsertEffect DEF Inserts
    <3>2. CASE j = NextId
      <4>1. PICK q \in Wanted \union Definition :
               job'[j].expr = q.expr /\ job'[j].next = ComputeNextRun(q, now)
        BY <2>5, <3>2, InsertEffect
      <4>2. q.kind \in Kind /\ q.expr \in Expression /\ ~NeverNames(q)
        BY DEF Wanted, Definition, NeverNames
      <4>3. job'[j].next = None \/ (job'[j].next \in Nat /\ job'[j].next > now)
        BY <1>1, <4>1, <4>2, NextIsLater DEF ComputeNextRun, Maybe
      <4> QED BY <2>4, <2>5, <4>3 DEF Inserts
    <3> QED BY <3>1, <3>2
  <2>6. ASSUME NEW c \in Caller, UpdateWrite(c), job[call[c].target] # None
        PROVE  Behind(j, r)' /\ Claimed(j)'
    <3> DEFINE f == call[c].fields
               m == ApplyJobFields(job[j], f)
    <3>1. exec' = exec
      BY <2>6 DEF UpdateWrite
    <3>2. CASE j # call[c].target
      BY <2>2, <2>6, <3>1, <3>2, WriteEffect
    <3>3. CASE j = call[c].target
      <4>1. /\ m \in Definition /\ job'[j] = m /\ job[j] # None
            /\ "next" \notin DOMAIN f => m.next = job[j].next
            /\ "next" \in DOMAIN f => m.next = f["next"]
            /\ "next" \in DOMAIN f /\ f["next"] # None => f["next"] > now
        BY <1>6, <2>6, <3>3, WriteEffect
      <4>2. m.next \in Maybe(Nat)
        BY <4>1 DEF Definition
      <4> HIDE DEF m, f
      <4>3. CASE "next" \notin DOMAIN f
        BY <1>6, <3>1, <4>1, <4>3
      <4>4. CASE "next" \in DOMAIN f
        BY <2>4, <3>1, <4>1, <4>2, <4>4 DEF Maybe
      <4> QED BY <4>3, <4>4
    <3> QED BY <3>2, <3>3
  <2>7. ASSUME NEW k \in JobId, Claim(k) \/ Abandon(k)
        PROVE  Behind(j, r)' /\ Claimed(j)'
    <3>1. CASE j # k
      <4>1. job'[j] = job[j] /\ exec'[j] = exec[j]
        BY <2>7, <3>1 DEF Claim, Abandon, Types
      <4> QED BY <2>2, <4>1
    <3>2. CASE j = k /\ Abandon(k) /\ ~Claimable(k)
      <4>1. job'[j] = job[j] /\ exec'[j].pc # "create"
        BY <2>7, <3>2 DEF Abandon, Types, Idle
      <4> QED BY <2>2, <4>1
    <3>3. CASE j = k /\ Claimable(k)
      <4>1. exec[k].pc = "claim" /\ job' = [job EXCEPT ![k].next = exec[k].next]
        BY <2>7, <3>3 DEF Claim, Abandon
      <4>2. /\ job[j] # None /\ job[j].next = exec[j].seen.next
            /\ exec[j].next \in Maybe(Nat) /\ job'[j].next = exec[j].next
        BY <3>3, <4>1, CursorMoves
      <4>3. exec[j].seen.next \in Nat /\ (exec[j].next # None => exec[j].next > exec[j].seen.next)
        BY <2>3, <3>3, <4>1 DEF NextComputed
      <4>4. r.job = j /\ r.due # None => r.due < exec[j].seen.next
        BY <1>6, <4>2, <4>3, CatalogAssumptions
      <4>5. exec'[j].pc # "create" \/ exec'[j].seen = exec[j].seen
        <5>1. exec[k] \in ExecState
          BY DEF Types
        <5> QED BY <2>7, <3>3, <5>1 DEF Claim, Abandon, Types, Idle, ExecState
      <4>6. job'[j].next # None => job'[j].next \in Nat /\ job'[j].next > exec[j].seen.next
        BY <4>2, <4>3 DEF Maybe
      <4> QED BY <2>1, <4>3, <4>4, <4>5, <4>6
    <3> QED BY <2>7, <3>1, <3>2, <3>3 DEF Claim
  <2>8. ASSUME NEW c \in Caller, NEW k \in JobId, DeleteJob(c, k)
        PROVE  Behind(j, r)' /\ Claimed(j)'
    BY <2>2, <2>8 DEF DeleteJob, Types
  <2>9. CASE Crash
    <3>1. job'[j] = job[j] /\ exec'[j].pc # "create"
      BY <2>9 DEF Crash, Idle
    <3> QED BY <2>2, <3>1
  <2>10. ASSUME NEW k \in JobId, Dispatch(k) \/ ComputeNext(k) \/ CreateRow(k) \/ Fails(k)
         PROVE  Behind(j, r)' /\ Claimed(j)'
    <3>1. job' = job
      BY <2>10 DEF Dispatch, ComputeNext, CreateRow, Fails, ClaimFails, CreateRowFails
    <3>2. exec'[j] = exec[j] \/ exec'[j].pc # "create"
      <4>1. CASE Dispatch(k)
        <5> DEFINE v == [Idle EXCEPT !.pc = "compute", !.seen = list[k]]
        <5>1. v.pc = "compute" /\ (exec' = exec \/ exec' = [exec EXCEPT ![k] = v])
          BY <4>1 DEF Dispatch, Idle
        <5> HIDE DEF v
        <5> QED BY <5>1 DEF Types
      <4>2. CASE ComputeNext(k)
        BY <4>2 DEF ComputeNext, Types
      <4>3. CASE CreateRow(k) \/ Fails(k)
        BY <4>3 DEF CreateRow, Fails, ClaimFails, CreateRowFails, Types, Idle
      <4> QED BY <2>10, <4>1, <4>2, <4>3
    <3> QED BY <2>2, <3>1, <3>2
  <2>11. UNCHANGED <<job, exec>> => Behind(j, r)' /\ Claimed(j)'
    BY <2>2
  <2> QED
    BY <2>5, <2>6, <2>7, <2>8, <2>9, <2>10, <2>11, NextCases, RowStepFrame
    DEF Quiet, SubmitManual, ListDue, PassOver
<1>7. ASSUME NEW j \in JobId, j \notin overtaken'  PROVE Claimed(j)'
  <2>1. PICK r \in RowState : r.due = None
    <3> DEFINE r == Row(j, None, "ended")
    <3>1. r \in RowState /\ r.due = None
      BY DEF Row, RowState, Maybe
    <3> QED BY <3>1
  <2> QED BY <1>1, <1>5, <1>6, <1>7, <2>1
<1>8. ASSUME NEW n \in DOMAIN rows', NEW r, r = rows'[n]
      PROVE  Past(r)' /\ \A j \in JobId : j \notin overtaken' => Behind(j, r)'
  <2>1. CASE n \in DOMAIN rows /\ r.job = rows[n].job /\ r.due = rows[n].due
    <3>1. PICK s \in RowState : s = rows[n]
      BY <1>2, <2>1
    <3>2. Past(s) /\ (s.due # None => s.due \in Nat)
      BY <1>3, <1>4, <2>1, <3>1
    <3>3. \A j \in JobId : j \notin overtaken' => Behind(j, s)'
      BY <1>1, <1>5, <1>6, <2>1, <3>1, <3>2
    <3> QED BY <1>1, <2>1, <3>1, <3>2, <3>3
  <2>2. CASE r.due = None
    BY <2>2
  <2>3. ASSUME NEW k \in JobId, CreateRow(k), r.job = k, r.due = exec[k].seen.next
        PROVE  Past(r)' /\ \A j \in JobId : j \notin overtaken' => Behind(j, r)'
    <3>1. exec[k].pc = "create" /\ exec'[k].pc = "idle" /\ job' = job
      BY <2>3 DEF CreateRow, Types, Idle
    <3>2. exec[k].seen.next \in Nat /\ exec[k].seen.next <= now
      BY <3>1 DEF CopiesInForce, Copies, InForce
    <3>3. k \notin overtaken' => Claimed(k)
      BY <1>1, <1>5
    <3> QED BY <1>1, <2>3, <3>1, <3>2, <3>3
  <2> QED BY <1>8, <2>1, <2>2, <2>3, NextRowsAre
<1> QED BY <1>7, <1>8 DEF RowsBehind

\* The run claimed last is due after every row of its job.
LEMMA NextOncePerDue ==
  ASSUME Types, CopiesInForce, RowsBehind, OncePerDue, [Next]_vars
  PROVE  OncePerDue'
<1>1. /\ DOMAIN rows = 1 .. Len(rows) /\ Len(rows) \in Nat
      /\ \A n \in DOMAIN rows : rows[n] \in RowState
      /\ DOMAIN rows' = 1 .. Len(rows') /\ Len(rows') \in Nat
  BY NextTypes DEF Types
<1>2. overtaken \subseteq overtaken'
  BY OvertakenGrows
<1> SUFFICES ASSUME NEW m \in DOMAIN rows', NEW n \in DOMAIN rows', m < n, rows'[m].due # None,
                    rows'[m].job = rows'[n].job, rows'[m].job \notin overtaken'
             PROVE  rows'[m].due # rows'[n].due
  BY DEF OncePerDue
<1>3. CASE n \in DOMAIN rows /\ rows'[n].job = rows[n].job /\ rows'[n].due = rows[n].due
  <2>1. m \in DOMAIN rows /\ m # Len(rows) + 1
    BY <1>1, <1>3
  <2>2. rows'[m].job = rows[m].job /\ rows'[m].due = rows[m].due
    BY <2>1, NextRowsAre
  <2> QED BY <1>2, <1>3, <2>1, <2>2 DEF OncePerDue
<1>4. CASE rows'[n].due = None
  BY <1>4
<1>5. ASSUME NEW k \in JobId, CreateRow(k), n = Len(rows) + 1, rows'[n].job = k,
             rows'[n].due = exec[k].seen.next
      PROVE  rows'[m].due # rows'[n].due
  <2>1. m \in DOMAIN rows /\ m # Len(rows) + 1
    BY <1>1, <1>5
  <2>2. rows'[m].job = rows[m].job /\ rows'[m].due = rows[m].due
    BY <2>1, NextRowsAre
  <2>3. exec[k].pc = "create"
    BY <1>5 DEF CreateRow
  <2>4. exec[k].seen.next \in Nat
    BY <2>3 DEF CopiesInForce, Copies, InForce
  <2>5. rows[m].due < exec[k].seen.next
    BY <1>2, <1>5, <2>1, <2>2, <2>3 DEF RowsBehind
  <2>6. rows[m].due \in Nat
    BY <1>1, <2>1, <2>2 DEF RowState, Maybe
  <2> QED BY <1>5, <2>2, <2>4, <2>5, <2>6
<1> QED BY <1>3, <1>4, <1>5, NextRowsAre

(***************************************************************************)
(* The theorems                                                            *)
(***************************************************************************)

CatalogInv ==
    /\ Types /\ FreshIds /\ SlotsCounted /\ SourceOnce
    /\ CopiesInForce /\ NextComputed /\ WritesSound /\ JobsSound

LEMMA InitCatalogInv == Init => CatalogInv
<1> SUFFICES ASSUME Init  PROVE CatalogInv
  OBVIOUS
<1>1. /\ Existing = {} /\ \A j \in JobId : Copies(j) = {} /\ exec[j].pc = "idle"
      /\ \A c \in Caller : call[c].pc = "todo"
  BY DEF Init, Existing, Copies, Idle, Todo
<1>2. FreshIds
  BY DEF Init, FreshIds, Idle
<1>3. SlotsCounted
  <2>1. \A j \in JobId : slots[j] = 0 /\ Busy(j) = 0 /\ Held(j) = {}
    BY DEF Init, Busy, Held, Idle
  <2> QED BY <2>1, FS_EmptySet, CapType DEF SlotsCounted, Counted
<1>4. SourceOnce /\ CopiesInForce /\ NextComputed /\ WritesSound /\ JobsSound
  BY <1>1 DEF SourceOnce, CopiesInForce, NextComputed, WritesSound, JobsSound
<1> QED BY <1>2, <1>3, <1>4, InitTypes DEF CatalogInv

LEMMA CatalogInvariant == Spec => []CatalogInv
<1>1. CatalogInv /\ [Next]_vars => CatalogInv'
  BY NextTypes, NextFreshIds, NextSlotsCounted, NextSourceOnce, NextCopiesInForce,
     NextNextComputed, NextWritesSound, NextJobsSound DEF CatalogInv
<1> QED BY <1>1, InitCatalogInv, PTL DEF Spec

\* Every variable has its type: the columns an update or an import writes, and
\* the cursor a trigger computes, make a row of the table again.
THEOREM CatalogTypeCorrect == Spec => []TypeOK
<1>1. Types => TypeOK
  <2> SUFFICES ASSUME Types  PROVE TypeOK
    OBVIOUS
  <2>1. \A j \in JobId : {job[j], list[j], exec[j].seen} \subseteq Definition \union {None}
    BY DEF Types, ExecState, Maybe
  <2>2. \A n \in DOMAIN rows : rows[n] \in RowState
    BY DEF Types
  <2>3. \A j \in JobId : exec[j].pc \in {"idle", "compute", "claim", "create"}
    BY DEF Types, ExecState
  <2>4. \A c \in Caller : call[c].pc \in {"todo", "create", "update", "write", "submit", "done"}
    BY DEF Types, RequestType
  <2> QED BY <2>1, <2>2, <2>3, <2>4 DEF Types, TypeOK, RowState
<1> QED BY <1>1, CatalogInvariant, PTL DEF CatalogInv

\* A source has one job, whatever imports, copies and creates race: the check
\* of the index and the insert are one step.
THEOREM SourcesOnce == Spec => []SourceOnce
BY CatalogInvariant, PTL DEF CatalogInv

\* The counter of a job is shared by its scheduled runs, its manual rows and its retries: it
\* is the number of those that have a slot, its goroutine included, and never above the
\* limit of the job, also when a claim or a create fails or the server restarts.
THEOREM SlotsOwned == Spec => []SlotHeld
<1>1. CatalogInv => SlotHeld
  BY DEF CatalogInv, SlotsCounted, Counted, Busy, SlotHeld, Existing
<1> QED BY <1>1, CatalogInvariant, PTL

\* A job that is enabled, and not written by an update that came too late, has
\* a cursor, or its own definition says that it is never due again.
THEOREM EnabledScheduled == Spec => []EnabledIsScheduled
<1>1. JobsSound => EnabledIsScheduled
  BY DEF JobsSound, Sound, EnabledIsScheduled
<1> QED BY <1>1, CatalogInvariant, PTL DEF CatalogInv

\* A due instant of a job makes one scheduled row at most, across double
\* listing, updates, failing creates and restarts, when no cron expression is
\* without any instant: of such a one the library answers the zero time, and
\* the job is due again and again at that same instant.
THEOREM RunOncePerDue ==
  ASSUME {} \notin Expression
  PROVE  Spec => []OncePerDue
<1>1. Init => RowsBehind /\ OncePerDue
  <2> SUFFICES ASSUME Init  PROVE RowsBehind /\ OncePerDue
    OBVIOUS
  <2>1. DOMAIN rows = {} /\ \A j \in JobId : exec[j].pc = "idle"
    BY DEF Init, Idle
  <2> QED BY <2>1 DEF RowsBehind, OncePerDue
<1>2. CatalogInv /\ RowsBehind /\ OncePerDue /\ [Next]_vars => RowsBehind' /\ OncePerDue'
  BY NextRowsBehind, NextOncePerDue DEF CatalogInv
<1> QED BY <1>1, <1>2, CatalogInvariant, PTL DEF Spec

\* Whatever was read when the job was listed, a run is claimed for a job that
\* is enabled and has, at that moment, the schedule and the window the run was
\* computed from: the compare on the cursor is enough.
THEOREM ClaimsInForce == Spec => ClaimInForce
<1>1. ASSUME CatalogInv, [Next]_vars, NEW j \in JobId \ overtaken,
             exec[j].pc = "claim", exec'[j].pc = "create"
      PROVE  job[j].enabled /\ Schedule(job[j]) = Schedule(exec[j].seen)
  <2>1. ASSUME NEW k \in JobId, ComputeNext(k)  PROVE FALSE
    BY <1>1, <2>1 DEF ComputeNext, CatalogInv, Types
  <2>2. ASSUME NEW k \in JobId, \/ Dispatch(k) \/ Abandon(k) \/ CreateRow(k) \/ Fails(k)
        PROVE  FALSE
    <3> DEFINE v == [Idle EXCEPT !.pc = "compute", !.seen = list[k]]
    <3>1. v.pc = "compute" /\ Idle.pc = "idle"
      BY DEF Idle
    <3>2. exec' = exec \/ exec' = [exec EXCEPT ![k] = Idle] \/ exec' = [exec EXCEPT ![k] = v]
      BY <2>2 DEF Dispatch, Abandon, CreateRow, Fails, ClaimFails, CreateRowFails
    <3> HIDE DEF v
    <3> QED BY <1>1, <3>1, <3>2 DEF CatalogInv, Types
  <2>3. ASSUME Crash  PROVE FALSE
    BY <1>1, <2>3 DEF Crash, Idle
  <2>4. exec' # exec
    BY <1>1
  <2>5. PICK k \in JobId : Claim(k)
    BY <1>1, <2>1, <2>2, <2>3, <2>4, NextCases, RowStepFrame
    DEF CatalogInv, Quiet, Inserts, UpdateWrite, DeleteJob, SubmitManual, ListDue, PassOver
  <2>6. k = j
    BY <1>1, <2>5 DEF Claim, CatalogInv, Types
  <2>7. job[j] # None /\ job[j].next = exec[j].seen.next
    BY <2>5, <2>6 DEF Claim, Claimable
  <2>8. InForce(j, exec[j].seen)
    BY <1>1 DEF CatalogInv, CopiesInForce, Copies
  <2>9. Schedule(job[j]) = Schedule(exec[j].seen) /\ exec[j].seen.enabled
    BY <1>1, <2>7, <2>8, CatalogAssumptions DEF InForce
  <2>10. job[j] \in Definition /\ exec[j].seen \in Definition
    BY <1>1, <2>7 DEF CatalogInv, Types, Maybe
  <2> QED BY <2>9, <2>10, SameSchedule
<1>2. CatalogInv /\ [Next]_vars =>
          [\A j \in JobId \ overtaken : exec[j].pc = "claim" /\ exec'[j].pc = "create"
              => job[j].enabled /\ Schedule(job[j]) = Schedule(exec[j].seen)]_vars
  BY <1>1
<1> QED BY <1>2, CatalogInvariant, PTL DEF Spec, ClaimInForce

\* A pending write of a request ends when it is made, or when the server goes.
LEMMA WritesEnd ==
  ASSUME Types, [Next]_vars, NEW c \in Caller, call[c].pc = "write", call'[c].pc = "done"
  PROVE  UpdateWrite(c) \/ Crash
<1>1. ASSUME NEW d \in Caller, Request(d) \/ Answer(d)  PROVE d = c /\ UpdateWrite(c)
  <2>1. ASSUME d # c  PROVE FALSE
    <3>1. \A v : call' = [call EXCEPT ![d] = v] => call'[c] = call[c]
      BY <2>1
    <3> QED
      BY <1>1, <3>1 DEF Request, Answer, CopyGet, ExportJob, DeleteJob, TriggerGet, UpdateJob,
         SetJobEnabled, UpdateGet, ImportList, CreateForCall, ImportUpdate, UpdateWrite, SubmitManual
  <2>2. ~Request(c)
    BY DEF Request, CopyGet, ExportJob, DeleteJob, TriggerGet, UpdateJob, SetJobEnabled, ImportList
  <2>3. Answer(c) => UpdateWrite(c)
    BY DEF Answer, CreateForCall, ImportUpdate, SubmitManual
  <2> QED BY <1>1, <2>1, <2>2, <2>3
<1>2. call' # call
  OBVIOUS
<1> QED
  BY <1>1, <1>2, RowStepFrame DEF Next, Tick, CreateJob, SaveJob, RunOnce, Execute, ListDue,
     Dispatch, PassOver, ComputeNext,
     Claim, Abandon, CreateRow, Fails, ClaimFails, CreateRowFails, vars

\* An update that was not overtaken leaves the columns it does not name as they
\* were, and of the two retry options, one column, the one it does not name.
THEOREM UpdatesPartial == Spec => PartialUpdate
<1> DEFINE Partial(c) ==
             LET j == call[c].target
             IN  call[c].pc = "write" /\ call'[c].pc = "done" /\ j \in Existing \ overtaken'
                     => /\ \A k \in ScheduleFields \ call[c].named : job'[j][k] = job[j][k]
                        /\ \A k \in OptionFields \ call[c].named :
                               job'[j].options[k] = job[j].options[k]
<1>1. ASSUME CatalogInv, [Next]_vars, NEW c \in Caller  PROVE Partial(c)
  <2> DEFINE f == call[c].fields
             r == job[call[c].target]
             m == ApplyJobFields(r, f)
  <2> SUFFICES ASSUME call[c].pc = "write", call'[c].pc = "done",
                      call[c].target \in Existing, call[c].target \notin overtaken'
               PROVE  /\ \A k \in ScheduleFields \ call[c].named : job'[call[c].target][k] = r[k]
                      /\ \A k \in OptionFields \ call[c].named :
                             job'[call[c].target].options[k] = r.options[k]
    OBVIOUS
  <2>1. CASE Crash
    BY <2>1 DEF Crash
  <2>2. CASE UpdateWrite(c)
    <3>1. r \in Definition /\ job'[call[c].target] = m /\ r = call[c].seen
      BY <1>1, <2>2, WriteEffect DEF CatalogInv, Existing
    <3>2. PendingWrite(call[c])
      BY <1>1 DEF CatalogInv, Types, RequestType
    <3>3. \A k \in ScheduleFields \ call[c].named : k \notin DOMAIN f
      BY <3>2 DEF PendingWrite
    <3>4. \A k \in ScheduleFields : k \in DOMAIN r
      BY <3>1 DEF Definition, ScheduleFields
    <3>5. \A k \in ScheduleFields \ call[c].named : m[k] = r[k]
      BY <3>3, <3>4 DEF ApplyJobFields
    <3>6. m.options = IF "options" \in DOMAIN f THEN f["options"] ELSE r.options
      BY <3>1 DEF ApplyJobFields, Definition
    <3>7. \A k \in OptionFields \ call[c].named : m.options[k] = r.options[k]
      BY <3>1, <3>2, <3>6 DEF PendingWrite
    <3> QED BY <3>1, <3>5, <3>7
  <2> QED BY <1>1, <2>1, <2>2, WritesEnd DEF CatalogInv
<1>2. CatalogInv /\ [Next]_vars => [\A c \in Caller : Partial(c)]_vars
  BY <1>1
<1> QED BY <1>2, CatalogInvariant, PTL DEF Spec, PartialUpdate
=============================================================================
