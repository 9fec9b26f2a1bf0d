----------------------------- MODULE ManualQueue -----------------------------
(***************************************************************************)
(* The manual queue of the scheduler (internal/dispatch/scheduler.go): the *)
(* heap pq with its index pqIndex, the delayed pushes, the dispatcher      *)
(* RunManualDispatcher, the goroutines runManualHeld it starts, the        *)
(* recovery after a restart, and InstanceService.SetPriority, which writes *)
(* the row first and the queued item second.                               *)
(*                                                                         *)
(* Scheduler models what becomes of a row; this module models the order in *)
(* which the rows of the queue are served and where a row is while it      *)
(* waits.  Of a row it keeps the status, as far as the queue reads it, and *)
(* the priority.  No database call fails here (Scheduler has those).       *)
(***************************************************************************)
EXTENDS Integers, Sequences, FiniteSets

CONSTANTS
    Instance,       \* ids of job_instance rows, in the order of creation
    Job,
    Caller,         \* requests to set a priority, one each
    Stoppable,      \* rows somebody may stop while they are queued
    JobOf,          \* [Instance -> Job]
    MaxConcurrency, \* [Job -> 1, 2, ...]
    Priority,       \* the priorities set later
    Submitted,      \* the priorities rows are triggered with
    MaxMishaps,     \* dispatches that find no worker online, and restarts
    None

ASSUME QueueAssumptions ==
    /\ Instance \subseteq Nat \ {0} /\ IsFiniteSet(Instance)
    /\ JobOf \in [Instance -> Job]
    /\ MaxConcurrency \in [Job -> Nat \ {0}]
    /\ Priority \union Submitted \subseteq Int
    /\ MaxMishaps \in Nat
    /\ None \notin Instance \union Int

VARIABLES
    row,        \* job_instance: status and priority
    heap,       \* pq, the items it points to, and the keys of pqIndex
    pqSeq,      \* the last sequence number given
    timer,      \* pushes under way (SubmitManual, AfterFunc): the priority each has captured
    notifying,  \* rows pushed whose pusher has not called notifyWake yet
    wake,       \* the channel wake holds a token
    disp,       \* RunManualDispatcher: program counter and the item in hand
    task,       \* runManualHeld: program counter per row
    slots, held,
    call,       \* SetPriority per caller
    misses, restarts

vars == <<row, heap, pqSeq, timer, notifying, wake, disp, task, slots, held,
          call, misses, restarts>>

-----------------------------------------------------------------------------
(* The heap.  pq holds pointers to items; an item knows its place (pqIdx), *)
(* which Swap and Push maintain and Fix relies on.                         *)

Item == [priority: Int, seq: Nat, pqIdx: Nat]

Heap == [pq: Seq(Instance), item: [Instance -> Item], index: SUBSET Instance]

EmptyHeap ==
    [pq    |-> << >>,
     item  |-> [i \in Instance |-> [priority |-> 0, seq |-> 0, pqIdx |-> 0]],
     index |-> {}]

InHeap == {heap.pq[n] : n \in DOMAIN heap.pq}

Less(h, m, n) ==
    LET x == h.item[h.pq[m]]
        y == h.item[h.pq[n]]
    IN  IF x.priority # y.priority THEN x.priority > y.priority ELSE x.seq < y.seq

\* Wrong: only one of the two items learns its new place (IndexExact).
SwapOneSided(h, m, n) ==
    [h EXCEPT !.pq[m] = h.pq[n], !.pq[n] = h.pq[m], !.item[h.pq[n]].pqIdx = m]

Swap(h, m, n) ==
    [h EXCEPT !.pq[m] = h.pq[n], !.pq[n] = h.pq[m],
              !.item[h.pq[n]].pqIdx = m, !.item[h.pq[m]].pqIdx = n]

\* The state of a loop, from state s, after n rounds.
Loop(round, s, n) ==
    LET after[k \in 0 .. n] == IF k = 0 THEN s ELSE round[after[k - 1]]
    IN  after[n]

\* container/heap, with places counted from 1.  Its loops go from place to
\* place, n or size times at most, and stay where they stop.
Walk == [heap: Heap, at: Nat, size: Nat]

UpRound(w) ==
    IF w.at > 1 /\ Less(w.heap, w.at, w.at \div 2)
    THEN [w EXCEPT !.heap = Swap(w.heap, w.at \div 2, w.at), !.at = w.at \div 2]
    ELSE w

Up(h, n) ==
    Loop([w \in Walk |-> UpRound(w)], [heap |-> h, at |-> n, size |-> Len(h.pq)], n).heap

DownRound(w) ==
    LET left  == 2 * w.at
        right == left + 1
        child == IF right <= w.size /\ Less(w.heap, right, left) THEN right ELSE left
    IN  IF left <= w.size /\ Less(w.heap, child, w.at)
        THEN [w EXCEPT !.heap = Swap(w.heap, w.at, child), !.at = child]
        ELSE w

Down(h, n, size) ==
    Loop([w \in Walk |-> DownRound(w)], [heap |-> h, at |-> n, size |-> size], size).heap

Push(h, i) ==
    LET n == Len(h.pq) + 1
    IN  Up([h EXCEPT !.pq = Append(@, i), !.item[i].pqIdx = n], n)

Fix(h, n) ==
    LET d == Down(h, n, Len(h.pq))
    IN  IF d = h THEN Up(h, n) ELSE d

Pop(h) ==
    LET n == Len(h.pq)
        d == Down(Swap(h, 1, n), 1, n - 1)
    IN  [d EXCEPT !.pq = SubSeq(@, 1, n - 1)]

\* The item of a new push: its own sequence number.
PushItem(h, i, p, n) ==
    Push([h EXCEPT !.item[i] = [priority |-> p, seq |-> n, pqIdx |-> 0],
                   !.index = @ \union {i}], i)

\* An item nobody points to any more.
Forget(h, i) == [h EXCEPT !.item[i] = EmptyHeap.item[i]]

-----------------------------------------------------------------------------
Init ==
    /\ row = [i \in Instance |-> [status |-> "absent", priority |-> 0]]
    /\ heap = EmptyHeap
    /\ pqSeq = 0
    /\ timer = [i \in Instance |-> None]
    /\ notifying = {}
    /\ wake = FALSE
    /\ disp = [pc |-> "loop", cur |-> None]
    /\ task = [i \in Instance |-> "none"]
    /\ slots = [j \in Job |-> 0]
    /\ held = {}
    /\ call = [c \in Caller |-> [pc |-> "todo", ins |-> None, priority |-> 0]]
    /\ misses = 0
    /\ restarts = 0

-----------------------------------------------------------------------------
(* Triggers and pushes *)

\* The row is written before it is queued; a delay, or just the goroutine,
\* stands between the two.
SubmitManual(i, p) ==
    /\ row[i].status = "absent"
    /\ \A k \in Instance : k < i => row[k].status # "absent"
    /\ row' = [row EXCEPT ![i] = [status |-> "queued", priority |-> p]]
    /\ timer' = [timer EXCEPT ![i] = p]
    /\ UNCHANGED <<heap, pqSeq, notifying, wake, disp, task, slots, held, call, misses, restarts>>

\* Wrong: nobody wakes the dispatcher (NoLostWakeup).
PushPendingSilent(i) ==
    /\ timer[i] # None
    /\ pqSeq' = pqSeq + 1
    /\ heap' = PushItem(heap, i, timer[i], pqSeq')
    /\ timer' = [timer EXCEPT ![i] = None]
    /\ notifying' = notifying
    /\ UNCHANGED <<row, wake, disp, task, slots, held, call, misses, restarts>>

PushPending(i) ==
    /\ timer[i] # None
    /\ pqSeq' = pqSeq + 1
    /\ heap' = PushItem(heap, i, timer[i], pqSeq')
    /\ timer' = [timer EXCEPT ![i] = None]
    /\ notifying' = notifying \union {i}
    /\ UNCHANGED <<row, wake, disp, task, slots, held, call, misses, restarts>>

NotifyWake(i) ==
    /\ i \in notifying
    /\ notifying' = notifying \ {i}
    /\ wake' = TRUE
    /\ UNCHANGED <<row, heap, pqSeq, timer, disp, task, slots, held, call, misses, restarts>>

-----------------------------------------------------------------------------
(* The dispatcher *)

SleepWhenEmpty ==
    /\ disp.pc = "loop" /\ heap.pq = << >>
    /\ disp' = [disp EXCEPT !.pc = "asleep"]
    /\ UNCHANGED <<row, heap, pqSeq, timer, notifying, wake, task, slots, held, call, misses, restarts>>

WakeUp ==
    /\ disp.pc = "asleep" /\ wake
    /\ wake' = FALSE
    /\ disp' = [disp EXCEPT !.pc = "loop"]
    /\ UNCHANGED <<row, heap, pqSeq, timer, notifying, task, slots, held, call, misses, restarts>>

PopPending ==
    /\ disp.pc = "loop" /\ heap.pq # << >>
    /\ LET i == Head(heap.pq)
       IN  /\ heap' = [Pop(heap) EXCEPT !.index = @ \ {i}]
           /\ disp' = [pc |-> "acquire", cur |-> i]
    /\ UNCHANGED <<row, pqSeq, timer, notifying, wake, task, slots, held, call, misses, restarts>>

\* Wrong: one slot too many (TypeOK).
TryAcquireOffByOne ==
    LET i == disp.cur
        j == JobOf[i]
    IN  /\ disp.pc = "acquire"
        /\ slots[j] <= MaxConcurrency[j]
        /\ slots' = [slots EXCEPT ![j] = @ + 1]
        /\ task' = [task EXCEPT ![i] = "dispatch"]
        /\ disp' = [pc |-> "loop", cur |-> None]
        /\ heap' = Forget(heap, i)
        /\ UNCHANGED <<row, pqSeq, timer, notifying, wake, held, call, misses, restarts>>

TryAcquire ==
    LET i == disp.cur
        j == JobOf[i]
    IN  /\ disp.pc = "acquire"
        /\ slots[j] < MaxConcurrency[j]
        /\ slots' = [slots EXCEPT ![j] = @ + 1]
        /\ task' = [task EXCEPT ![i] = "dispatch"]
        /\ disp' = [pc |-> "loop", cur |-> None]
        /\ heap' = Forget(heap, i)
        /\ UNCHANGED <<row, pqSeq, timer, notifying, wake, held, call, misses, restarts>>

\* Wrong: every refused item is dropped (OneCarrier).
RefreshDrops ==
    /\ disp.pc = "acquire"
    /\ slots[JobOf[disp.cur]] >= MaxConcurrency[JobOf[disp.cur]]
    /\ heap' = Forget(heap, disp.cur)
    /\ disp' = [pc |-> "rest", cur |-> None]
    /\ UNCHANGED <<row, pqSeq, timer, notifying, wake, task, slots, held, call, misses, restarts>>

\* Wrong: a row ended while it was in hand frees a slot it never had (SlotsHeld).
RefreshReleases ==
    LET i == disp.cur
    IN  /\ disp.pc = "acquire"
        /\ slots[JobOf[i]] >= MaxConcurrency[JobOf[i]]
        /\ IF row[i].status = "ended"
           THEN /\ slots' = [slots EXCEPT ![JobOf[i]] = @ - 1]
                /\ heap' = Forget(heap, i)
                /\ disp' = [pc |-> "rest", cur |-> None]
           ELSE /\ heap' = [heap EXCEPT !.item[i].priority = row[i].priority]
                /\ disp' = [disp EXCEPT !.pc = "push"]
                /\ UNCHANGED slots
        /\ UNCHANGED <<row, pqSeq, timer, notifying, wake, task, held, call, misses, restarts>>

\* No slot: the row is read again, for its priority or to drop the item.
Refresh ==
    LET i == disp.cur
    IN  /\ disp.pc = "acquire"
        /\ slots[JobOf[i]] >= MaxConcurrency[JobOf[i]]
        /\ IF row[i].status = "ended"
           THEN /\ heap' = Forget(heap, i)
                /\ disp' = [pc |-> "rest", cur |-> None]
           ELSE /\ heap' = [heap EXCEPT !.item[i].priority = row[i].priority]
                /\ disp' = [disp EXCEPT !.pc = "push"]
        /\ UNCHANGED <<row, pqSeq, timer, notifying, wake, task, slots, held, call, misses, restarts>>

\* The same item goes back under its old sequence number.
RePush ==
    /\ disp.pc = "push"
    /\ heap' = Push([heap EXCEPT !.index = @ \union {disp.cur}], disp.cur)
    /\ disp' = [pc |-> "rest", cur |-> None]
    /\ UNCHANGED <<row, pqSeq, timer, notifying, wake, task, slots, held, call, misses, restarts>>

\* It waits for a token or 100 ms, whichever comes first.
Rest ==
    /\ disp.pc = "rest"
    /\ disp' = [disp EXCEPT !.pc = "loop"]
    /\ wake' \in {wake, FALSE}
    /\ UNCHANGED <<row, heap, pqSeq, timer, notifying, task, slots, held, call, misses, restarts>>

-----------------------------------------------------------------------------
(* The goroutine of a popped row *)

Release(j) ==
    /\ slots' = [slots EXCEPT ![j] = IF @ <= 1 THEN 0 ELSE @ - 1]
    /\ wake' = TRUE

\* releaseByInstance: a row that holds no slot frees none.
ReleaseHeld(i) ==
    /\ held' = held \ {i}
    /\ IF i \in held THEN Release(JobOf[i]) ELSE wake' = TRUE /\ UNCHANGED slots

\* The row is read again; one ended meanwhile is not sent.  (Scheduler has the
\* steps between this read and the answer of the worker.)
DispatchToWorker(i) ==
    /\ task[i] = "dispatch"
    /\ task' = [task EXCEPT ![i] = "none"]
    /\ IF row[i].status = "ended"
       THEN Release(JobOf[i]) /\ UNCHANGED <<row, held>>
       ELSE /\ row' = [row EXCEPT ![i].status = "active"]
            /\ held' = held \union {i}
            /\ UNCHANGED <<slots, wake>>
    /\ UNCHANGED <<heap, pqSeq, timer, notifying, disp, call, misses, restarts>>

DispatchNoWorker(i) ==
    /\ task[i] = "dispatch"
    /\ row[i].status # "ended"
    /\ misses + restarts < MaxMishaps
    /\ misses' = misses + 1
    /\ Release(JobOf[i])
    /\ task' = [task EXCEPT ![i] = "requeue"]
    /\ UNCHANGED <<row, heap, pqSeq, timer, notifying, disp, held, call, restarts>>

\* Wrong: the row is left without a timer (QueueDrains).
RequeueForgotten(i) ==
    /\ task[i] = "requeue"
    /\ task' = [task EXCEPT ![i] = "none"]
    /\ timer' = timer
    /\ UNCHANGED <<row, heap, pqSeq, notifying, wake, disp, slots, held, call, misses, restarts>>

\* The row is read; the timer captures the priority read.
RequeueAfterNoWorker(i) ==
    /\ task[i] = "requeue"
    /\ task' = [task EXCEPT ![i] = "none"]
    /\ timer' = IF row[i].status = "ended" THEN timer
                ELSE [timer EXCEPT ![i] = row[i].priority]
    /\ UNCHANGED <<row, heap, pqSeq, notifying, wake, disp, slots, held, call, misses, restarts>>

\* The worker reports the end, or the row is stopped or canceled.
EndRow(i) ==
    /\ \/ row[i].status = "active"
       \/ row[i].status = "queued" /\ i \in Stoppable
    /\ row' = [row EXCEPT ![i].status = "ended"]
    /\ ReleaseHeld(i)
    /\ UNCHANGED <<heap, pqSeq, timer, notifying, disp, task, call, misses, restarts>>

-----------------------------------------------------------------------------
(* InstanceService.SetPriority *)

\* The row first: UPDATE ... WHERE status = 'queued'.
UpdatePriority(c, i, p) ==
    /\ call[c].pc = "todo"
    /\ row[i].status = "queued"
    /\ row' = [row EXCEPT ![i].priority = p]
    /\ call' = [call EXCEPT ![c] = [pc |-> "heap", ins |-> i, priority |-> p]]
    /\ UNCHANGED <<heap, pqSeq, timer, notifying, wake, disp, task, slots, held, misses, restarts>>

\* Wrong: the item keeps its place in the heap (ImplementsPriorityQueue).
ReprioritizedInPlace(h, i, p) ==
    IF i \in h.index THEN [h EXCEPT !.item[i].priority = p] ELSE h

Reprioritized(h, i, p) ==
    IF i \notin h.index \/ h.item[i].priority = p THEN h
    ELSE Fix([h EXCEPT !.item[i].priority = p], h.item[i].pqIdx)

\* Then the item, if the index still knows it.
UpdateQueuedPriority(c) ==
    /\ call[c].pc = "heap"
    /\ heap' = Reprioritized(heap, call[c].ins, call[c].priority)
    /\ call' = [call EXCEPT ![c] = [pc |-> "done", ins |-> None, priority |-> 0]]
    /\ UNCHANGED <<row, pqSeq, timer, notifying, wake, disp, task, slots, held, misses, restarts>>

-----------------------------------------------------------------------------
(* Restart *)

\* RecoverQueued: priority descending, oldest first, and fresh numbers.
Queued == {i \in Instance : row[i].status = "queued"}

Ahead(i, k) ==
    \/ row[i].priority > row[k].priority
    \/ row[i].priority = row[k].priority /\ i < k

RecoveryOrder ==
    [n \in 1 .. Cardinality(Queued) |->
        CHOOSE i \in Queued : Cardinality({k \in Queued : Ahead(k, i)}) = n - 1]

\* The next row of the list is pushed.
RecoverRound(r) ==
    LET n == r.done + 1
        i == RecoveryOrder[n]
    IN  [heap |-> PushItem(r.heap, i, row[i].priority, n), done |-> n]

\* All but the rows was memory; a request under way is gone too.
Restart ==
    /\ misses + restarts < MaxMishaps
    /\ restarts' = restarts + 1
    /\ heap' = Loop([r \in [heap: Heap, done: Nat] |-> RecoverRound(r)],
                    [heap |-> EmptyHeap, done |-> 0], Cardinality(Queued)).heap
    /\ pqSeq' = Cardinality(Queued)
    /\ timer' = [i \in Instance |-> None]
    /\ notifying' = {}
    /\ wake' = FALSE
    /\ disp' = [pc |-> "loop", cur |-> None]
    /\ task' = [i \in Instance |-> "none"]
    /\ slots' = [j \in Job |-> 0]
    /\ held' = {}
    /\ call' = [c \in Caller |-> IF call[c].pc = "heap"
                                 THEN [pc |-> "done", ins |-> None, priority |-> 0]
                                 ELSE call[c]]
    /\ UNCHANGED <<row, misses>>

-----------------------------------------------------------------------------
Pusher(i) == PushPending(i) \/ NotifyWake(i)

Dispatcher ==
    \/ SleepWhenEmpty \/ WakeUp \/ PopPending
    \/ TryAcquire \/ Refresh \/ RePush \/ Rest

Task(i) ==
    DispatchToWorker(i) \/ DispatchNoWorker(i) \/ RequeueAfterNoWorker(i)

Next ==
    \/ \E i \in Instance, p \in Submitted : SubmitManual(i, p)
    \/ \E i \in Instance : Pusher(i) \/ Task(i) \/ EndRow(i)
    \/ Dispatcher
    \/ \E c \in Caller, i \in Instance, p \in Priority : UpdatePriority(c, i, p)
    \/ \E c \in Caller : UpdateQueuedPriority(c)
    \/ Restart

Spec == Init /\ [][Next]_vars

\* The loop goes on, the goroutines of every row go on, and a worker that has a
\* row ends it.
Progress(i) == Pusher(i) \/ Task(i) \/ (row[i].status = "active" /\ EndRow(i))

FairSpec ==
    Spec /\ WF_vars(Dispatcher) /\ \A i \in Instance : WF_vars(Progress(i))

-----------------------------------------------------------------------------
(* Properties *)

\* Every variable has its type; a slot counter stays within the limit.
TypeOK ==
    /\ row \in [Instance -> [status: {"absent", "queued", "active", "ended"}, priority: Int]]
    /\ heap \in Heap
    /\ pqSeq \in Nat
    /\ timer \in [Instance -> Int \union {None}]
    /\ notifying \subseteq Instance
    /\ wake \in BOOLEAN
    /\ disp \in [pc: {"loop", "asleep", "acquire", "push", "rest"}, cur: Instance \union {None}]
    /\ task \in [Instance -> {"none", "dispatch", "requeue"}]
    /\ slots \in [Job -> Nat] /\ \A j \in Job : slots[j] <= MaxConcurrency[j]
    /\ held \subseteq Instance
    /\ call \in [Caller -> [pc: {"todo", "heap", "done"}, ins: Instance \union {None}, priority: Int]]
    /\ misses \in Nat /\ restarts \in Nat /\ misses + restarts <= MaxMishaps

\* The index knows exactly the rows in the heap, each row is there once, and
\* its item knows its place: otherwise Fix would move another row's item.
IndexExact ==
    /\ heap.index = InHeap
    /\ \A n \in DOMAIN heap.pq : heap.item[heap.pq[n]].pqIdx = n

Carriers(i) ==
    (IF timer[i] # None THEN {"timer"} ELSE {})
    \union (IF i \in InHeap THEN {"heap"} ELSE {})
    \union (IF disp.cur = i THEN {"dispatcher"} ELSE {})
    \union (IF task[i] # "none" THEN {"task"} ELSE {})

\* A queued row is at one place of the process, never at two (it would be
\* dispatched twice) and never nowhere (it would wait for ever): through
\* refused slots, missing workers, stops and restarts.
OneCarrier ==
    \A i \in Instance :
        /\ Cardinality(Carriers(i)) <= 1
        /\ row[i].status = "queued" => Carriers(i) # {}

\* When the dispatcher sleeps without a timeout and the heap holds an item,
\* the token that wakes it is in the channel or about to be put there.
NoLostWakeup ==
    disp.pc = "asleep" /\ heap.pq # << >> => wake \/ notifying # {}

\* The slots taken are those of rows with a goroutine or a worker; a row
\* refused by TryAcquire or dropped by Refresh holds and returns none.
SlotsHeld ==
    \A j \in Job :
        slots[j] = Cardinality({i \in Instance :
                        JobOf[i] = j /\ (i \in held \/ task[i] = "dispatch")})

\* The comments of SetPriority and UpdateQueuedPriority: an item whose
\* priority was set while it was out of the heap comes back with the new
\* priority, so none in the heap is stale once the request is over.
NoStalePriority ==
    \A i \in InHeap :
        (\A c \in Caller : call[c].ins # i) => heap.item[i].priority = row[i].priority

\* Whatever is popped is the best item of the heap, pushes and new
\* priorities keep the order, and only a restart rebuilds it.
PQ == INSTANCE PriorityQueue WITH
    waiting <- {[key |-> i, priority |-> heap.item[i].priority, seq |-> heap.item[i].seq] : i \in InHeap},
    life <- restarts

ImplementsPriorityQueue == PQ!Spec

\* Every queued row is dispatched or ended at last, also one whose job is full
\* or whose item is popped, refused and pushed again in front of others.  (A
\* row is queued once and ids are bounded, so this says it of each.)
QueueDrains == <>[](Queued = {})

=============================================================================
