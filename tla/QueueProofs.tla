----------------------------- MODULE QueueProofs -----------------------------
(***************************************************************************)
(* What holds of the manual queue for any number of rows, jobs, callers,   *)
(* priorities, limits, missing workers and restarts.                       *)
(*                                                                         *)
(* The first half is about the heap alone: each loop of container/heap is  *)
(* followed by its loop invariant, so that Push, Pop and Fix are shown to  *)
(* keep the order (Ordered) and the places (Exact), and RecoverQueued to   *)
(* push every queued row once.  The second half is about the steps: where  *)
(* a row is (Carried), the numbers of the items (Numbered), the slots and  *)
(* the sleeping dispatcher; from these follow the properties of            *)
(* ManualQueue, and that it implements PriorityQueue.                      *)
(***************************************************************************)
EXTENDS ManualQueue, FiniteSetTheorems, TLAPS

(***************************************************************************)
(* Induction and loops                                                     *)
(***************************************************************************)

\* Every set of natural numbers has a least one.
LEMMA LeastNumber ==
  ASSUME NEW S \in SUBSET Nat, S # {}
  PROVE  \E n \in S : \A m \in S : n <= m
<1> DEFINE T == {0 .. n : n \in S}
<1>1. T \subseteq FiniteSubsetsOf(Nat) /\ T # {}
  <2>1. ASSUME NEW x \in T  PROVE x \in FiniteSubsetsOf(Nat)
    <3>1. PICK n \in S : x = 0 .. n
      OBVIOUS
    <3>2. n \in Int /\ 0 \in Int /\ 0 .. n \in SUBSET Nat
      OBVIOUS
    <3>3. IsFiniteSet(0 .. n)
      BY <3>2, FS_Interval
    <3> QED BY <3>1, <3>2, <3>3 DEF FiniteSubsetsOf
  <2> QED BY <2>1
<1>2. PICK x \in T : \A y \in T : ~ (<<y, x>> \in StrictSubsetOrdering(Nat))
  <2>1. IsWellFoundedOn(StrictSubsetOrdering(Nat), FiniteSubsetsOf(Nat))
    BY FS_StrictSubsetOrderingWellFounded
  <2> HIDE DEF T
  <2> QED BY <1>1, <2>1, WFMin
<1>3. PICK n \in S : x = 0 .. n
  BY <1>2
<1>4. ASSUME NEW m \in S, m < n  PROVE FALSE
  <2>1. 0 .. m \in SUBSET Nat /\ 0 .. n \in SUBSET Nat
    BY <1>4
  <2>2. 0 .. m \subseteq 0 .. n /\ n \in 0 .. n /\ n \notin 0 .. m
    BY <1>4
  <2>3. <<0 .. m, 0 .. n>> \in StrictSubsetOrdering(Nat)
    BY <2>1, <2>2 DEF StrictSubsetOrdering
  <2> QED BY <1>2, <1>3, <2>3
<1> QED BY <1>4

\* Induction, over a set.
LEMMA Reaches ==
  ASSUME NEW S, 0 \in S, \A n \in Nat : n \in S => n + 1 \in S
  PROVE  Nat \subseteq S
<1> SUFFICES ASSUME Nat \ S # {}  PROVE FALSE
  OBVIOUS
<1>1. PICK n \in Nat \ S : \A m \in Nat \ S : n <= m
  BY LeastNumber
<1>2. n - 1 \in Nat /\ n - 1 \in S /\ (n - 1) + 1 = n
  BY <1>1
<1> QED BY <1>1, <1>2

\* What holds at the start of a loop and is handed on by each round holds
\* at the end.  Good[k] is the set of states it may be in after k rounds.
LEMMA LoopRule ==
  ASSUME NEW round, NEW s, NEW n \in Nat, NEW Good, s \in Good[0],
         \A k \in 1 .. n : \A x \in Good[k - 1] : round[x] \in Good[k]
  PROVE  Loop(round, s, n) \in Good[n]
<1> DEFINE Run(f, m) ==
             /\ DOMAIN f = 0 .. m /\ f[0] = s
             /\ \A k \in 1 .. m : f[k] = round[f[k - 1]]
           S == {m \in Nat : \E f : Run(f, m)}
<1>1. 0 \in S
  <2>1. Run([k \in 0 .. 0 |-> s], 0)
    OBVIOUS
  <2> QED BY <2>1
<1>2. ASSUME NEW m \in Nat, m \in S  PROVE m + 1 \in S
  <2>1. PICK f : Run(f, m)
    BY <1>2
  <2> DEFINE g == [k \in 0 .. m + 1 |-> IF k \in 0 .. m THEN f[k] ELSE round[f[m]]]
  <2>2. DOMAIN g = 0 .. m + 1 /\ g[0] = s
    BY <2>1
  <2>3. ASSUME NEW k \in 1 .. m + 1  PROVE g[k] = round[g[k - 1]]
    <3>1. CASE k \in 1 .. m
      BY <2>1, <3>1
    <3>2. CASE k = m + 1
      <4>1. k - 1 = m /\ k \notin 0 .. m /\ m \in 0 .. m
        BY <3>2
      <4> QED BY <4>1
    <3> QED BY <3>1, <3>2
  <2> HIDE DEF g
  <2>4. Run(g, m + 1)
    BY <2>2, <2>3
  <2> QED BY <2>4
<1>3. n \in S
  <2> HIDE DEF S
  <2> QED BY <1>1, <1>2, Reaches
<1>4. PICK f : Run(f, n)
  BY <1>3
<1> DEFINE e(g) == [k \in 0 .. n |-> IF k = 0 THEN s ELSE round[g[k - 1]]]
<1>5. \E g : g = e(g)
  <2>1. PICK h : h = [k \in 0 .. n |-> f[k]]
    OBVIOUS
  <2>2. h = e(h)
    BY <1>4, <2>1
  <2> QED BY <2>2
<1>6. PICK g : g = e(g) /\ Loop(round, s, n) = g[n]
  BY <1>5 DEF Loop
<1>7. g[0] = s /\ \A k \in 1 .. n : g[k] = round[g[k - 1]]
  BY <1>6
<1> DEFINE T == {k \in Nat : k \in 0 .. n => g[k] \in Good[k]}
<1>8. 0 \in T
  BY <1>7
<1>9. ASSUME NEW k \in Nat, k \in T  PROVE k + 1 \in T
  <2> SUFFICES ASSUME k + 1 \in 0 .. n  PROVE g[k + 1] \in Good[k + 1]
    OBVIOUS
  <2>1. k + 1 \in 1 .. n /\ (k + 1) - 1 = k /\ k \in 0 .. n
    OBVIOUS
  <2> QED BY <1>7, <1>9, <2>1
<1>10. n \in T
  <2> HIDE DEF T
  <2> QED BY <1>8, <1>9, Reaches
<1> QED BY <1>6, <1>10

(***************************************************************************)
(* The order of the heap                                                   *)
(***************************************************************************)

\* x is served before y.
Sooner(x, y) ==
    IF x.priority # y.priority THEN x.priority > y.priority ELSE x.seq < y.seq

Key == [priority: Int, seq: Nat]

LEMMA SoonerOrder ==
  ASSUME NEW x \in Key, NEW y \in Key, NEW z \in Key
  PROVE  /\ ~Sooner(x, x)
         /\ Sooner(x, y) => ~Sooner(y, x)
         /\ ~Sooner(x, y) /\ ~Sooner(y, z) => ~Sooner(x, z)
         /\ Sooner(y, z) /\ ~Sooner(x, z) => ~Sooner(x, y)
         /\ x.seq # y.seq => Sooner(x, y) \/ Sooner(y, x)
BY DEF Sooner, Key

LEMMA HeapPlaces ==
  ASSUME NEW h \in Heap
  PROVE  /\ Len(h.pq) \in Nat /\ DOMAIN h.pq = 1 .. Len(h.pq)
         /\ \A n \in DOMAIN h.pq : h.pq[n] \in Instance
         /\ \A i \in Instance : h.item[i] \in Item
BY DEF Heap

\* What the parent of a place is.
LEMMA Halves ==
  ASSUME NEW k \in Nat, k > 1
  PROVE  /\ k \div 2 \in Nat /\ 1 <= k \div 2 /\ k \div 2 < k
         /\ \A p \in Nat : k \div 2 = p <=> k = 2 * p \/ k = 2 * p + 1
OBVIOUS

\* What Less compares.
KeyAt(h, n) == [priority |-> h.item[h.pq[n]].priority, seq |-> h.item[h.pq[n]].seq]

LEMMA LessIsSooner ==
  ASSUME NEW h \in Heap, NEW m \in DOMAIN h.pq, NEW n \in DOMAIN h.pq
  PROVE  KeyAt(h, m) \in Key /\ Less(h, m, n) = Sooner(KeyAt(h, m), KeyAt(h, n))
BY HeapPlaces DEF KeyAt, Key, Item, Less, Sooner

\* Every item knows its place.
Exact(h) == \A n \in DOMAIN h.pq : h.item[h.pq[n]].pqIdx = n

Keys(h) == {h.pq[n] : n \in DOMAIN h.pq}

\* h and g differ in the places of the items only.
Rearranged(h, g) ==
    /\ g \in Heap /\ Len(g.pq) = Len(h.pq) /\ g.index = h.index
    /\ Keys(g) = Keys(h)
    /\ \A i \in Instance :
          /\ g.item[i].priority = h.item[i].priority /\ g.item[i].seq = h.item[i].seq
          /\ i \notin Keys(h) => g.item[i] = h.item[i]

LEMMA ExactInjective ==
  ASSUME NEW h, Exact(h), NEW m \in DOMAIN h.pq, NEW n \in DOMAIN h.pq, h.pq[m] = h.pq[n]
  PROVE  m = n
BY DEF Exact

\* Swap exchanges two places and tells both items.
LEMMA SwapRearranges ==
  ASSUME NEW h \in Heap, Exact(h), NEW m \in DOMAIN h.pq, NEW n \in DOMAIN h.pq
  PROVE  LET g == Swap(h, m, n)
         IN  /\ Rearranged(h, g) /\ Exact(g)
             /\ \A k \in DOMAIN h.pq :
                   g.pq[k] = IF k = m THEN h.pq[n] ELSE IF k = n THEN h.pq[m] ELSE h.pq[k]
<1> DEFINE g == Swap(h, m, n)
           x == h.pq[m]
           y == h.pq[n]
           s == [h.pq EXCEPT ![m] = y]
           q == [s EXCEPT ![n] = x]
           a == [h.item[y] EXCEPT !.pqIdx = m]
           t == [h.item EXCEPT ![y] = a]
           b == [t[x] EXCEPT !.pqIdx = n]
           u == [t EXCEPT ![x] = b]
<1>1. /\ Len(h.pq) \in Nat /\ DOMAIN h.pq = 1 .. Len(h.pq)
      /\ h.pq \in Seq(Instance) /\ x \in Instance /\ y \in Instance
      /\ h.item \in [Instance -> Item] /\ h.index \in SUBSET Instance
      /\ m \in Nat /\ n \in Nat
  BY DEF Heap
<1>2. g = [h EXCEPT !.pq = q, !.item = u]
  <2>1. g = [[[[h EXCEPT !.pq = s] EXCEPT !.pq = q] EXCEPT !.item = t] EXCEPT !.item = u]
    BY DEF Swap, Heap
  <2> QED BY <2>1 DEF Heap
<1>3. /\ DOMAIN q = DOMAIN h.pq /\ q \in Seq(Instance) /\ Len(q) = Len(h.pq)
      /\ \A k \in DOMAIN h.pq : q[k] = IF k = m THEN y ELSE IF k = n THEN x ELSE h.pq[k]
  <2>1. /\ DOMAIN q = DOMAIN h.pq
        /\ \A k \in DOMAIN h.pq : q[k] = IF k = n THEN x ELSE IF k = m THEN y ELSE h.pq[k]
    OBVIOUS
  <2>2. q \in [1 .. Len(h.pq) -> Instance]
    BY <1>1
  <2>3. q \in Seq(Instance) /\ Len(q) = Len(h.pq)
    <3> HIDE DEF q
    <3> QED BY <1>1, <2>2
  <2> QED BY <2>1, <2>3
<1>4. x = y <=> m = n
  BY ExactInjective
<1>5. /\ u \in [Instance -> Item]
      /\ \A i \in Instance :
            /\ u[i].priority = h.item[i].priority /\ u[i].seq = h.item[i].seq
            /\ u[i].pqIdx = IF i = x THEN n ELSE IF i = y THEN m ELSE h.item[i].pqIdx
            /\ i # x /\ i # y => u[i] = h.item[i]
  <2>1. /\ a \in Item /\ a.priority = h.item[y].priority /\ a.seq = h.item[y].seq /\ a.pqIdx = m
    BY <1>1 DEF Item
  <2> HIDE DEF a
  <2>2. /\ t \in [Instance -> Item] /\ t[y] = a
        /\ \A i \in Instance : i # y => t[i] = h.item[i]
    BY <1>1, <2>1
  <2> HIDE DEF t
  <2>3. /\ b \in Item /\ b.priority = t[x].priority /\ b.seq = t[x].seq /\ b.pqIdx = n
    BY <1>1, <2>2 DEF Item
  <2> HIDE DEF b
  <2>4. /\ u \in [Instance -> Item] /\ u[x] = b
        /\ \A i \in Instance : i # x => u[i] = t[i]
    BY <1>1, <2>2, <2>3
  <2> HIDE DEF u
  <2> QED BY <1>1, <2>1, <2>2, <2>3, <2>4
<1> HIDE DEF q, u, g
<1>6. g \in Heap /\ g.pq = q /\ g.item = u /\ g.index = h.index
  BY <1>1, <1>2, <1>3, <1>5 DEF Heap
<1>7. Keys(g) = Keys(h)
  BY <1>1, <1>3, <1>6 DEF Keys
<1>8. Rearranged(h, g)
  BY <1>1, <1>3, <1>5, <1>6, <1>7 DEF Rearranged, Keys
<1>9. Exact(g)
  <2> SUFFICES ASSUME NEW k \in DOMAIN h.pq  PROVE u[q[k]].pqIdx = k
    BY <1>3, <1>6 DEF Exact
  <2>1. h.pq[k] \in Instance /\ h.item[h.pq[k]].pqIdx = k
    BY <1>1 DEF Exact
  <2>2. h.pq[k] = x => k = m
    BY ExactInjective
  <2>3. h.pq[k] = y => k = n
    BY ExactInjective
  <2> QED BY <1>1, <1>3, <1>4, <1>5, <2>1, <2>2, <2>3
<1> QED BY <1>3, <1>6, <1>8, <1>9 DEF g

\* The order of a heap, everywhere; but for a place that may be too good for
\* where it is; but for one that may be too bad; but for one that may be either.
Ordered(h, size) == \A k \in 2 .. size : ~Less(h, k, k \div 2)

Grandparent(h, p, size) ==
    p > 1 => \A k \in 2 .. size : k \div 2 = p => ~Less(h, k, p \div 2)

AlmostUp(h, p, size) ==
    Grandparent(h, p, size) /\ \A k \in 2 .. size : k # p => ~Less(h, k, k \div 2)

AlmostDown(h, p, size) ==
    Grandparent(h, p, size) /\ \A k \in 2 .. size : k \div 2 # p => ~Less(h, k, k \div 2)

AlmostFix(h, p, size) ==
    /\ Grandparent(h, p, size)
    /\ \A k \in 2 .. size : k # p /\ k \div 2 # p => ~Less(h, k, k \div 2)

\* Keys move as places are swapped.
LEMMA SwapKeys ==
  ASSUME NEW h \in Heap, Exact(h), NEW m \in DOMAIN h.pq, NEW n \in DOMAIN h.pq,
         NEW k \in DOMAIN h.pq
  PROVE  KeyAt(Swap(h, m, n), k) =
            IF k = m THEN KeyAt(h, n) ELSE IF k = n THEN KeyAt(h, m) ELSE KeyAt(h, k)
<1> DEFINE g == Swap(h, m, n)
           i == IF k = m THEN h.pq[n] ELSE IF k = n THEN h.pq[m] ELSE h.pq[k]
<1>1. Rearranged(h, g) /\ g.pq[k] = i
  BY SwapRearranges
<1>2. i \in Instance
  BY HeapPlaces
<1>3. g.item[i].priority = h.item[i].priority /\ g.item[i].seq = h.item[i].seq
  BY <1>1, <1>2 DEF Rearranged
<1>4. KeyAt(g, k) = [priority |-> h.item[i].priority, seq |-> h.item[i].seq]
  BY <1>1, <1>3 DEF KeyAt
<1> HIDE DEF g
<1> QED BY <1>4 DEF KeyAt, g

\* One round of Up hands the only item that may be too good to its parent's place.
LEMMA UpSwaps ==
  ASSUME NEW h \in Heap, Exact(h), NEW p \in DOMAIN h.pq, p > 1,
         AlmostUp(h, p, Len(h.pq)), Less(h, p, p \div 2)
  PROVE  AlmostUp(Swap(h, p \div 2, p), p \div 2, Len(h.pq))
<1> DEFINE q == p \div 2
           g == Swap(h, q, p)
           L == Len(h.pq)
           key(k) == KeyAt(h, k)
<1>1. L \in Nat /\ DOMAIN h.pq = 1 .. L /\ p \in 2 .. L
  BY HeapPlaces
<1>2. q \in 1 .. L /\ q < p
  BY <1>1, Halves
<1>3. \A k \in 2 .. L : k \div 2 \in 1 .. L /\ k \div 2 < k /\ k \in 1 .. L
  BY <1>1, Halves
<1>4. g \in Heap /\ DOMAIN g.pq = 1 .. L
  <2>1. Rearranged(h, g)
    BY <1>1, <1>2, SwapRearranges
  <2> HIDE DEF g
  <2> QED BY <2>1, HeapPlaces DEF Rearranged
<1>5. \A k \in 1 .. L : KeyAt(g, k) = IF k = q THEN key(p) ELSE IF k = p THEN key(q) ELSE key(k)
  <2> HIDE DEF q
  <2>1. q \in DOMAIN h.pq
    BY <1>1, <1>2
  <2>2. \A k \in DOMAIN h.pq :
           KeyAt(g, k) = IF k = q THEN KeyAt(h, p) ELSE IF k = p THEN KeyAt(h, q) ELSE KeyAt(h, k)
    BY <2>1, SwapKeys
  <2> HIDE DEF g
  <2> QED BY <1>1, <2>2
<1> HIDE DEF q, g, L
<1>6. \A k \in 1 .. L, n \in 1 .. L : Less(g, k, n) = Sooner(KeyAt(g, k), KeyAt(g, n))
  BY <1>4, LessIsSooner
<1>7. \A k \in 1 .. L, n \in 1 .. L : key(k) \in Key /\ Less(h, k, n) = Sooner(key(k), key(n))
  BY <1>1, LessIsSooner
<1>8. Sooner(key(p), key(q))
  BY <1>1, <1>2, <1>7 DEF q
<1>9. ASSUME NEW k \in 2 .. L, k # p  PROVE ~Sooner(key(k), key(k \div 2))
  BY <1>1, <1>3, <1>7, <1>9 DEF AlmostUp, L
<1>10. ASSUME NEW k \in 2 .. L, k \div 2 = p  PROVE ~Sooner(key(k), key(q))
  <2>1. ~Less(h, k, q)
    BY <1>1, <1>10 DEF AlmostUp, Grandparent, L, q
  <2> QED BY <1>2, <1>3, <1>7, <2>1
<1> HIDE DEF key
<1>11. ASSUME NEW k \in 2 .. L, k # q  PROVE ~Less(g, k, k \div 2)
  <2>1. k \in 1 .. L /\ k \div 2 \in 1 .. L /\ k \div 2 # k
    BY <1>3
  <2>2. CASE k = p
    <3>1. KeyAt(g, k) = key(q) /\ KeyAt(g, k \div 2) = key(p)
      BY <1>2, <1>5, <2>1, <2>2 DEF q
    <3> QED BY <1>1, <1>2, <1>6, <1>7, <1>8, <2>1, <3>1, SoonerOrder
  <2>3. CASE k # p /\ k \div 2 = p
    <3>1. KeyAt(g, k) = key(k) /\ KeyAt(g, k \div 2) = key(q)
      BY <1>2, <1>5, <1>11, <2>1, <2>3
    <3> QED BY <1>6, <1>10, <2>1, <2>3, <3>1
  <2>4. CASE k # p /\ k \div 2 = q
    <3>1. KeyAt(g, k) = key(k) /\ KeyAt(g, k \div 2) = key(p)
      BY <1>2, <1>5, <1>11, <2>1, <2>4
    <3>2. ~Sooner(key(k), key(q))
      BY <1>9, <2>4
    <3>3. ~Sooner(key(k), key(p))
      BY <1>1, <1>2, <1>7, <1>8, <2>1, <3>2, SoonerOrder
    <3> QED BY <1>6, <2>1, <3>1, <3>3
  <2>5. CASE k # p /\ k \div 2 # p /\ k \div 2 # q
    <3>1. KeyAt(g, k) = key(k) /\ KeyAt(g, k \div 2) = key(k \div 2)
      BY <1>5, <1>11, <2>1, <2>5
    <3> QED BY <1>6, <1>9, <2>1, <2>5, <3>1
  <2> QED BY <2>2, <2>3, <2>4, <2>5
<1>12. ASSUME q > 1, NEW k \in 2 .. L, k \div 2 = q  PROVE ~Less(g, k, q \div 2)
  <2>1. k \in 1 .. L /\ q \in 2 .. L /\ q \div 2 \in 1 .. L /\ q \div 2 < q /\ k # q
    BY <1>2, <1>3, <1>12
  <2>2. ~Sooner(key(q), key(q \div 2))
    BY <1>2, <1>9, <2>1
  <2>3. KeyAt(g, q \div 2) = key(q \div 2)
    BY <1>2, <1>5, <2>1
  <2>4. CASE k = p
    <3>1. KeyAt(g, k) = key(q)
      BY <1>5, <2>1, <2>4
    <3> QED BY <1>6, <2>1, <2>2, <2>3, <3>1
  <2>5. CASE k # p
    <3>1. KeyAt(g, k) = key(k) /\ ~Sooner(key(k), key(q))
      BY <1>5, <1>9, <1>12, <2>1, <2>5
    <3>2. ~Sooner(key(k), key(q \div 2))
      BY <1>7, <2>1, <2>2, <3>1, SoonerOrder
    <3> QED BY <1>6, <2>1, <2>3, <3>1, <3>2
  <2> QED BY <2>4, <2>5
<1> QED BY <1>11, <1>12 DEF AlmostUp, Grandparent, g, q, L

LEMMA SameArrangement ==
  ASSUME NEW h \in Heap
  PROVE  Rearranged(h, h)
BY DEF Rearranged

LEMMA RearrangedTwice ==
  ASSUME NEW f, NEW g, NEW h, Rearranged(f, g), Rearranged(g, h)
  PROVE  Rearranged(f, h)
BY DEF Rearranged

\* At each round the place is nearer the root, or the loop has stopped.
LEMMA UpSorts ==
  ASSUME NEW h \in Heap, Exact(h), NEW n \in DOMAIN h.pq, AlmostUp(h, n, Len(h.pq))
  PROVE  LET g == Up(h, n)
         IN  Rearranged(h, g) /\ Exact(g) /\ Ordered(g, Len(h.pq))
<1> DEFINE L == Len(h.pq)
           Moves(w) == w.at > 1 /\ Less(w.heap, w.at, w.at \div 2)
           State(w) == /\ w \in Walk /\ Rearranged(h, w.heap) /\ Exact(w.heap)
                       /\ w.at \in 1 .. L /\ AlmostUp(w.heap, w.at, L)
           Good == [k \in 0 .. n |-> {w \in Walk : State(w) /\ (Moves(w) => w.at + k <= n)}]
           round == [w \in Walk |-> UpRound(w)]
           s == [heap |-> h, at |-> n, size |-> Len(h.pq)]
<1>1. L \in Nat /\ DOMAIN h.pq = 1 .. L /\ n \in 1 .. L /\ n \in Nat
  BY HeapPlaces
<1>2. s \in Walk /\ State(s)
  BY <1>1, SameArrangement DEF Walk
<1>3. s \in Good[0]
  BY <1>1, <1>2
<1>4. ASSUME NEW w, State(w)
      PROVE  State(UpRound(w)) /\ (Moves(w) => UpRound(w).at < w.at) /\ (~Moves(w) => UpRound(w) = w)
  <2> DEFINE q == w.at \div 2
             g == Swap(w.heap, q, w.at)
             v == UpRound(w)
  <2>1. w \in Walk /\ w.heap \in Heap /\ w.at \in Nat
    BY <1>4 DEF Walk
  <2>2. CASE ~Moves(w)
    BY <1>4, <2>2 DEF UpRound
  <2>3. CASE Moves(w)
    <3>1. v = [w EXCEPT !.heap = g, !.at = q]
      BY <2>3 DEF UpRound
    <3>2. Len(w.heap.pq) = L /\ DOMAIN w.heap.pq = 1 .. L
      BY <1>4, <2>1, HeapPlaces DEF Rearranged
    <3>3. q \in 1 .. L /\ q < w.at /\ q \in Nat
      <4>1. w.at \in Nat /\ w.at > 1 /\ w.at <= L
        BY <1>1, <1>4, <2>3
      <4>2. q \in Nat /\ 1 <= q /\ q < w.at
        BY <4>1, Halves
      <4> HIDE DEF q, L
      <4> QED BY <1>1, <4>1, <4>2
    <3>4. AlmostUp(g, q, L)
      BY <1>4, <2>1, <2>3, <3>2, UpSwaps
    <3>5. Rearranged(w.heap, g) /\ Exact(g)
      BY <1>4, <2>1, <3>2, <3>3, SwapRearranges
    <3>6. Rearranged(h, g) /\ g \in Heap
      BY <1>4, <3>5, RearrangedTwice DEF Rearranged
    <3> HIDE DEF g, q, L
    <3>7. v \in Walk /\ v.heap = g /\ v.at = q
      BY <2>1, <3>1, <3>3, <3>6 DEF Walk
    <3> HIDE DEF v
    <3> QED BY <2>3, <3>3, <3>4, <3>5, <3>6, <3>7 DEF L, v
  <2> QED BY <2>2, <2>3
<1>5. \A k \in 1 .. n : \A w \in Good[k - 1] : round[w] \in Good[k]
  <2> SUFFICES ASSUME NEW k \in 1 .. n, NEW w \in Good[k - 1]  PROVE round[w] \in Good[k]
    OBVIOUS
  <2>1. w \in Walk /\ State(w) /\ (Moves(w) => w.at + (k - 1) <= n) /\ k \in Nat
    OBVIOUS
  <2>2. w.at \in Nat /\ round[w] = UpRound(w)
    BY <2>1 DEF Walk
  <2> DEFINE v == UpRound(w)
  <2>3. State(v) /\ (Moves(w) => v.at < w.at) /\ (~Moves(w) => v = w)
    BY <1>4, <2>1
  <2>4. v \in Walk /\ v.at \in Nat
    BY <2>3 DEF Walk
  <2> HIDE DEF v, State
  <2>5. Moves(v) => v.at + k <= n
    BY <1>1, <2>1, <2>2, <2>3, <2>4
  <2> QED BY <2>2, <2>3, <2>4, <2>5 DEF v
<1>6. PICK w \in Good[n] : w.heap = Up(h, n)
  <2>1. Loop(round, s, n) \in Good[n]
    <3> HIDE DEF round, Good, s
    <3> QED BY <1>1, <1>3, <1>5, LoopRule
  <2> QED BY <2>1 DEF Up
<1>7. State(w) /\ ~Moves(w)
  <2>1. w \in Walk /\ State(w) /\ (Moves(w) => w.at + n <= n)
    BY <1>1, <1>6
  <2>2. w.at \in Nat
    BY <2>1 DEF Walk
  <2> HIDE DEF State
  <2> QED BY <1>1, <2>1, <2>2
<1>8. Ordered(w.heap, L)
  <2> SUFFICES ASSUME NEW k \in 2 .. L  PROVE ~Less(w.heap, k, k \div 2)
    BY DEF Ordered
  <2> QED BY <1>1, <1>7 DEF AlmostUp
<1> QED BY <1>6, <1>7, <1>8

\* The child DownRound looks at.
Child(h, p, size) ==
    IF 2 * p + 1 <= size /\ Less(h, 2 * p + 1, 2 * p) THEN 2 * p + 1 ELSE 2 * p

LEMMA BestChild ==
  ASSUME NEW h \in Heap, NEW size \in Nat, size <= Len(h.pq), NEW p \in 1 .. size, 2 * p <= size
  PROVE  LET c == Child(h, p, size)
         IN  /\ c \in 2 .. size /\ c \div 2 = p /\ c > p
             /\ \A k \in 2 .. size : k \div 2 = p => ~Less(h, k, c)
<1> DEFINE c == Child(h, p, size)
           l == 2 * p
           r == 2 * p + 1
<1>1. p \in Nat /\ l \in Nat /\ l > 1 /\ r \in Nat /\ r > 1 /\ l > p /\ r > p
  OBVIOUS
<1>2. c = l \/ (c = r /\ r <= size)
  BY DEF Child
<1>3. c \in 2 .. size /\ c \div 2 = p /\ c > p
  BY <1>1, <1>2
<1>4. ASSUME NEW k \in 2 .. size, k \div 2 = p  PROVE ~Less(h, k, c)
  <2>1. k = l \/ k = r
    BY <1>1, <1>4, Halves
  <2>2. l \in DOMAIN h.pq /\ (r <= size => r \in DOMAIN h.pq)
    BY <1>1, HeapPlaces
  <2>3. KeyAt(h, l) \in Key /\ (r <= size => KeyAt(h, r) \in Key)
    BY <2>2, LessIsSooner
  <2>4. ~Less(h, l, l) /\ (r <= size => ~Less(h, r, r) /\ (Less(h, r, l) => ~Less(h, l, r)))
    <3> HIDE DEF l, r
    <3>1. Less(h, l, l) <=> Sooner(KeyAt(h, l), KeyAt(h, l))
      BY <2>2, LessIsSooner
    <3>2. ASSUME r <= size
          PROVE  /\ Less(h, r, r) <=> Sooner(KeyAt(h, r), KeyAt(h, r))
                 /\ Less(h, r, l) <=> Sooner(KeyAt(h, r), KeyAt(h, l))
                 /\ Less(h, l, r) <=> Sooner(KeyAt(h, l), KeyAt(h, r))
      BY <2>2, <3>2, LessIsSooner
    <3> QED BY <2>3, <3>1, <3>2, SoonerOrder
  <2>5. k <= size
    OBVIOUS
  <2>6. c = IF r <= size /\ Less(h, r, l) THEN r ELSE l
    BY DEF Child
  <2> HIDE DEF c, l, r
  <2> QED BY <2>1, <2>4, <2>5, <2>6
<1> QED BY <1>3, <1>4

\* One round of Down hands the only item that may be too bad to its best child's place.
LEMMA DownSwaps ==
  ASSUME NEW h \in Heap, Exact(h), NEW size \in Nat, size <= Len(h.pq),
         NEW p \in 1 .. size, NEW c \in 2 .. size, c \div 2 = p, AlmostFix(h, p, size),
         \A k \in 2 .. size : k \div 2 = p => ~Less(h, k, c), Less(h, c, p)
  PROVE  AlmostDown(Swap(h, p, c), c, size)
<1> DEFINE g == Swap(h, p, c)
           L == Len(h.pq)
           key(k) == KeyAt(h, k)
<1>1. L \in Nat /\ DOMAIN h.pq = 1 .. L /\ \A k \in 1 .. size : k \in 1 .. L
  BY HeapPlaces
<1>2. \A k \in 2 .. size : k \div 2 \in 1 .. size /\ k \div 2 < k /\ k \in 1 .. size
  BY Halves
<1>3. p \in 1 .. size /\ c \in 1 .. size /\ p < c
  BY <1>2
<1>4. g \in Heap /\ DOMAIN g.pq = 1 .. L
  <2>1. Rearranged(h, g)
    BY <1>1, <1>3, SwapRearranges
  <2> HIDE DEF g
  <2> QED BY <2>1, HeapPlaces DEF Rearranged
<1>5. \A k \in 1 .. size : KeyAt(g, k) = IF k = p THEN key(c) ELSE IF k = c THEN key(p) ELSE key(k)
  <2>1. p \in DOMAIN h.pq /\ c \in DOMAIN h.pq
    BY <1>1, <1>3
  <2>2. \A k \in DOMAIN h.pq :
           KeyAt(g, k) = IF k = p THEN KeyAt(h, c) ELSE IF k = c THEN KeyAt(h, p) ELSE KeyAt(h, k)
    BY <2>1, SwapKeys
  <2> HIDE DEF g
  <2> QED BY <1>1, <2>2
<1> HIDE DEF g, L
<1>6. \A k \in 1 .. size, n \in 1 .. size : Less(g, k, n) <=> Sooner(KeyAt(g, k), KeyAt(g, n))
  BY <1>1, <1>4, LessIsSooner
<1>7. \A k \in 1 .. size, n \in 1 .. size :
         key(k) \in Key /\ (Less(h, k, n) <=> Sooner(key(k), key(n)))
  BY <1>1, LessIsSooner
<1>8. Sooner(key(c), key(p))
  BY <1>3, <1>7
<1>9. ASSUME NEW k \in 2 .. size, k # p, k \div 2 # p  PROVE ~Sooner(key(k), key(k \div 2))
  BY <1>2, <1>7, <1>9 DEF AlmostFix
<1>10. ASSUME NEW k \in 2 .. size, k \div 2 = p  PROVE ~Sooner(key(k), key(c))
  BY <1>2, <1>3, <1>7, <1>10
<1>11. p > 1 => ~Sooner(key(c), key(p \div 2))
  <2> SUFFICES ASSUME p > 1  PROVE ~Sooner(key(c), key(p \div 2))
    OBVIOUS
  <2>1. ~Less(h, c, p \div 2) /\ p \div 2 \in 1 .. size
    BY <1>2 DEF AlmostFix, Grandparent
  <2> QED BY <1>3, <1>7, <2>1
<1> HIDE DEF key
<1>12. ASSUME NEW k \in 2 .. size, k \div 2 # c  PROVE ~Less(g, k, k \div 2)
  <2>1. k \in 1 .. size /\ k \div 2 \in 1 .. size /\ k \div 2 # k
    BY <1>2
  <2>2. CASE k = p
    <3>1. KeyAt(g, k) = key(c) /\ KeyAt(g, k \div 2) = key(p \div 2) /\ p > 1
      BY <1>3, <1>5, <1>12, <2>1, <2>2
    <3> QED BY <1>6, <1>11, <2>1, <2>2, <3>1
  <2>3. CASE k = c
    <3>1. KeyAt(g, k) = key(p) /\ KeyAt(g, k \div 2) = key(c)
      BY <1>3, <1>5, <2>1, <2>3
    <3> QED BY <1>3, <1>6, <1>7, <1>8, <2>1, <3>1, SoonerOrder
  <2>4. CASE k # p /\ k # c /\ k \div 2 = p
    <3>1. KeyAt(g, k) = key(k) /\ KeyAt(g, k \div 2) = key(c)
      BY <1>3, <1>5, <2>1, <2>4
    <3> QED BY <1>6, <1>10, <2>1, <2>4, <3>1
  <2>5. CASE k # p /\ k # c /\ k \div 2 # p
    <3>1. KeyAt(g, k) = key(k) /\ KeyAt(g, k \div 2) = key(k \div 2)
      BY <1>5, <1>12, <2>1, <2>5
    <3> QED BY <1>6, <1>9, <2>1, <2>5, <3>1
  <2> QED BY <2>2, <2>3, <2>4, <2>5
<1>13. ASSUME NEW k \in 2 .. size, k \div 2 = c  PROVE ~Less(g, k, c \div 2)
  <2>1. k \in 1 .. size /\ k # c /\ k # p /\ k \div 2 # p
    BY <1>2, <1>3, <1>13
  <2>2. KeyAt(g, k) = key(k) /\ KeyAt(g, p) = key(c) /\ ~Sooner(key(k), key(c))
    BY <1>3, <1>5, <1>9, <1>13, <2>1
  <2> QED BY <1>3, <1>6, <2>1, <2>2
<1> QED BY <1>12, <1>13 DEF AlmostDown, Grandparent, g

LEMMA DownStops ==
  ASSUME NEW h \in Heap, NEW size \in Nat, size <= Len(h.pq), NEW p \in 1 .. size,
         ~(2 * p <= size /\ Less(h, Child(h, p, size), p)), AlmostFix(h, p, size)
  PROVE  AlmostUp(h, p, size) /\ (AlmostDown(h, p, size) => Ordered(h, size))
<1>1. ASSUME NEW k \in 2 .. size, k \div 2 = p  PROVE ~Less(h, k, p)
  <2>1. 2 * p <= size
    BY <1>1, Halves
  <2> DEFINE c == Child(h, p, size)
  <2>2. c \in 2 .. size /\ ~Less(h, k, c) /\ ~Less(h, c, p)
    BY <1>1, <2>1, BestChild
  <2> HIDE DEF c
  <2>3. k \in DOMAIN h.pq /\ c \in DOMAIN h.pq /\ p \in DOMAIN h.pq
    BY <2>2, HeapPlaces
  <2>4. /\ KeyAt(h, k) \in Key /\ KeyAt(h, c) \in Key /\ KeyAt(h, p) \in Key
        /\ Less(h, k, c) <=> Sooner(KeyAt(h, k), KeyAt(h, c))
        /\ Less(h, c, p) <=> Sooner(KeyAt(h, c), KeyAt(h, p))
        /\ Less(h, k, p) <=> Sooner(KeyAt(h, k), KeyAt(h, p))
    BY <2>3, LessIsSooner
  <2> QED BY <2>2, <2>4, SoonerOrder
<1> QED BY <1>1 DEF AlmostFix, AlmostUp, AlmostDown, Ordered

\* Down orders the heap, or finds nothing to do and leaves it to Up.
LEMMA DownSorts ==
  ASSUME NEW h \in Heap, Exact(h), NEW size \in Nat, size <= Len(h.pq),
         NEW n \in 1 .. size, AlmostFix(h, n, size)
  PROVE  LET g == Down(h, n, size)
         IN  /\ Rearranged(h, g) /\ Exact(g)
             /\ \A k \in DOMAIN h.pq : k > size => g.pq[k] = h.pq[k]
             /\ Ordered(g, size) \/ (g = h /\ AlmostUp(h, n, size))
<1> DEFINE Best(w) == Child(w.heap, w.at, size)
           Moves(w) == 2 * w.at <= size /\ Less(w.heap, Best(w), w.at)
           Beyond(g) == \A k \in DOMAIN h.pq : k > size => g.pq[k] = h.pq[k]
           State(w) == /\ w \in Walk /\ w.size = size /\ w.at \in 1 .. size
                       /\ Rearranged(h, w.heap) /\ Exact(w.heap) /\ Beyond(w.heap)
                       /\ (w.heap = h /\ w.at = n) \/ AlmostDown(w.heap, w.at, size)
           Good == [k \in 0 .. size |-> {w \in Walk : State(w) /\ (Moves(w) => w.at > k)}]
           round == [w \in Walk |-> DownRound(w)]
           s == [heap |-> h, at |-> n, size |-> size]
<1>1. Len(h.pq) \in Nat /\ DOMAIN h.pq = 1 .. Len(h.pq) /\ n \in Nat
  BY HeapPlaces
<1>2. s \in Walk /\ State(s)
  BY <1>1, SameArrangement DEF Walk
<1>3. s \in Good[0]
  BY <1>1, <1>2
<1>4. ASSUME NEW w, State(w)
      PROVE  /\ w.heap \in Heap /\ size <= Len(w.heap.pq) /\ AlmostFix(w.heap, w.at, size)
             /\ w.at \in Nat
  <2>1. w.heap \in Heap /\ Len(w.heap.pq) = Len(h.pq) /\ w.at \in Nat
    BY <1>4 DEF Rearranged
  <2>2. AlmostDown(w.heap, w.at, size) => AlmostFix(w.heap, w.at, size)
    BY DEF AlmostDown, AlmostFix
  <2> QED BY <1>4, <2>1, <2>2
<1>5. ASSUME NEW w, State(w)
      PROVE  State(DownRound(w)) /\ (Moves(w) => DownRound(w).at > w.at) /\ (~Moves(w) => DownRound(w) = w)
  <2> DEFINE c == Best(w)
             g == Swap(w.heap, w.at, c)
             v == DownRound(w)
  <2>1. w \in Walk /\ w.size = size /\ w.at \in 1 .. size
    BY <1>5
  <2>2. DownRound(w) = IF Moves(w) THEN [w EXCEPT !.heap = g, !.at = c] ELSE w
    BY <2>1 DEF DownRound, Child
  <2>3. CASE ~Moves(w)
    BY <1>5, <2>2, <2>3
  <2>4. CASE Moves(w)
    <3>1. v = [w EXCEPT !.heap = g, !.at = c]
      BY <2>2, <2>4
    <3>2. /\ c \in 2 .. size /\ c \div 2 = w.at /\ c > w.at
          /\ \A k \in 2 .. size : k \div 2 = w.at => ~Less(w.heap, k, c)
      BY <1>4, <1>5, <2>1, <2>4, BestChild
    <3>3. Less(w.heap, c, w.at)
      BY <2>4
    <3> HIDE DEF c
    <3>4. AlmostDown(g, c, size)
      BY <1>4, <1>5, <2>1, <3>2, <3>3, DownSwaps
    <3>5. w.at \in DOMAIN w.heap.pq /\ c \in DOMAIN w.heap.pq /\ DOMAIN w.heap.pq = DOMAIN h.pq
      <4>1. Len(w.heap.pq) = Len(h.pq) /\ DOMAIN w.heap.pq = 1 .. Len(w.heap.pq)
        BY <1>4, <1>5, HeapPlaces DEF Rearranged
      <4> QED BY <1>1, <2>1, <3>2, <4>1
    <3>6. /\ Rearranged(w.heap, g) /\ Exact(g)
          /\ \A k \in DOMAIN h.pq : k # w.at /\ k # c => g.pq[k] = w.heap.pq[k]
      BY <1>4, <1>5, <3>5, SwapRearranges
    <3>7. Rearranged(h, g) /\ g \in Heap
      BY <1>5, <3>6, RearrangedTwice DEF Rearranged
    <3>8. Beyond(g)
      BY <1>1, <1>5, <2>1, <3>2, <3>6
    <3> HIDE DEF g
    <3>9. v \in Walk /\ v.heap = g /\ v.at = c /\ v.size = size /\ c \in 1 .. size
      <4> HIDE DEF v
      <4>1. c \in Nat /\ c \in 1 .. size
        BY <3>2
      <4>2. w \in [heap: Heap, at: Nat, size: Nat]
        BY <2>1 DEF Walk
      <4>3. [w EXCEPT !.heap = g, !.at = c] \in [heap: Heap, at: Nat, size: Nat]
        BY <3>7, <4>1, <4>2
      <4> QED BY <2>1, <3>1, <4>1, <4>2, <4>3 DEF Walk
    <3> HIDE DEF v
    <3> QED BY <2>4, <3>2, <3>4, <3>6, <3>7, <3>8, <3>9 DEF v
  <2> QED BY <2>3, <2>4
<1>6. \A k \in 1 .. size : \A w \in Good[k - 1] : round[w] \in Good[k]
  <2> SUFFICES ASSUME NEW k \in 1 .. size, NEW w \in Good[k - 1]  PROVE round[w] \in Good[k]
    OBVIOUS
  <2>1. w \in Walk /\ State(w) /\ (Moves(w) => w.at > k - 1) /\ k \in Nat
    OBVIOUS
  <2>2. w.at \in Nat /\ round[w] = DownRound(w)
    BY <2>1 DEF Walk
  <2> DEFINE v == DownRound(w)
  <2>3. State(v) /\ (Moves(w) => v.at > w.at) /\ (~Moves(w) => v = w)
    BY <1>5, <2>1
  <2>4. v \in Walk /\ v.at \in Nat
    BY <2>3 DEF Walk
  <2> HIDE DEF v, State
  <2>5. Moves(w) => v.at > k
    BY <2>1, <2>2, <2>3, <2>4
  <2>6. ~Moves(w) => v = w
    BY <2>3
  <2>7. Moves(v) => v.at > k
    <3> HIDE DEF Moves
    <3>1. CASE Moves(w)
      BY <2>5, <3>1
    <3>2. CASE ~Moves(w)
      BY <2>6, <3>2
    <3> QED BY <3>1, <3>2
  <2> QED BY <2>2, <2>3, <2>4, <2>7 DEF v
<1>7. PICK w \in Good[size] : w.heap = Down(h, n, size)
  <2>1. Loop(round, s, size) \in Good[size]
    <3> HIDE DEF round, Good, s
    <3> QED BY <1>3, <1>6, LoopRule
  <2> QED BY <2>1 DEF Down
<1>8. State(w) /\ ~Moves(w)
  <2>1. w \in Walk /\ State(w) /\ (Moves(w) => w.at > size)
    BY <1>7
  <2>2. w.at \in Nat /\ w.at <= size
    BY <2>1
  <2> HIDE DEF State
  <2> QED BY <2>1, <2>2
<1>9. AlmostUp(w.heap, w.at, size) /\ (AlmostDown(w.heap, w.at, size) => Ordered(w.heap, size))
  BY <1>4, <1>8, DownStops
<1> QED BY <1>7, <1>8, <1>9

(***************************************************************************)
(* Root, push, pop and fix                                                 *)
(***************************************************************************)

Arranged(h) == h \in Heap /\ Exact(h) /\ Ordered(h, Len(h.pq))

\* Priorities and numbers of the items but that of i.
SameBut(h, g, i) ==
    \A k \in Instance : k # i =>
        g.item[k].priority = h.item[k].priority /\ g.item[k].seq = h.item[k].seq

\* Nothing in a heap is sooner than its first place.
LEMMA RootFirst ==
  ASSUME NEW h, Arranged(h), NEW n \in DOMAIN h.pq
  PROVE  ~Less(h, n, 1)
<1> SUFFICES ASSUME Less(h, n, 1)  PROVE FALSE
  OBVIOUS
<1> DEFINE S == {m \in DOMAIN h.pq : Less(h, m, 1)}
<1>1. h \in Heap /\ Len(h.pq) \in Nat /\ DOMAIN h.pq = 1 .. Len(h.pq)
  BY HeapPlaces DEF Arranged
<1>2. S \in SUBSET Nat /\ S # {}
  BY <1>1
<1>3. PICK m \in S : \A k \in S : m <= k
  <2> HIDE DEF S
  <2> QED BY <1>2, LeastNumber
<1>4. m \in 1 .. Len(h.pq) /\ Less(h, m, 1) /\ 1 \in DOMAIN h.pq
  BY <1>1
<1>5. \A k \in DOMAIN h.pq :
         KeyAt(h, k) \in Key /\ (Less(h, k, 1) <=> Sooner(KeyAt(h, k), KeyAt(h, 1)))
  BY <1>1, <1>4, LessIsSooner
<1>6. m > 1
  BY <1>1, <1>4, <1>5, SoonerOrder
<1>7. m \div 2 \in DOMAIN h.pq /\ m \div 2 < m /\ m \in 2 .. Len(h.pq)
  BY <1>1, <1>4, <1>6, Halves
<1>8. ~Less(h, m \div 2, 1)
  BY <1>1, <1>3, <1>4, <1>7
<1>9. ~Less(h, m, m \div 2)
  BY <1>7 DEF Arranged, Ordered
<1>10. Less(h, m, m \div 2) <=> Sooner(KeyAt(h, m), KeyAt(h, m \div 2))
  BY <1>1, <1>4, <1>7, LessIsSooner
<1> QED BY <1>1, <1>4, <1>5, <1>7, <1>8, <1>9, <1>10, SoonerOrder

LEMMA KeysDecide ==
  ASSUME NEW h \in Heap, NEW g \in Heap, NEW m, NEW n,
         m \in DOMAIN h.pq, n \in DOMAIN h.pq, m \in DOMAIN g.pq, n \in DOMAIN g.pq,
         KeyAt(g, m) = KeyAt(h, m), KeyAt(g, n) = KeyAt(h, n)
  PROVE  Less(g, m, n) <=> Less(h, m, n)
BY LessIsSooner

\* heap.Push.
LEMMA PushSorts ==
  ASSUME NEW h, Arranged(h), NEW i \in Instance, i \notin Keys(h)
  PROVE  LET g == Push(h, i)
         IN  /\ Arranged(g) /\ Keys(g) = Keys(h) \union {i} /\ g.index = h.index
             /\ Len(g.pq) = Len(h.pq) + 1 /\ SameBut(h, g, None)
             /\ g.item[i].priority = h.item[i].priority /\ g.item[i].seq = h.item[i].seq
<1> DEFINE n == Len(h.pq) + 1
           u == [h EXCEPT !.pq = Append(@, i), !.item[i].pqIdx = n]
           q == Append(h.pq, i)
           a == [h.item[i] EXCEPT !.pqIdx = n]
           t == [h.item EXCEPT ![i] = a]
<1>1. /\ h \in Heap /\ Len(h.pq) \in Nat /\ DOMAIN h.pq = 1 .. Len(h.pq)
      /\ h.pq \in Seq(Instance) /\ h.item \in [Instance -> Item] /\ h.item[i] \in Item
      /\ n \in Nat /\ \A k \in 1 .. Len(h.pq) : h.pq[k] \in Instance /\ h.pq[k] # i
  BY HeapPlaces DEF Arranged, Heap, Keys
<1>2. /\ q \in Seq(Instance) /\ Len(q) = n /\ DOMAIN q = 1 .. n
      /\ \A k \in 1 .. n : q[k] = IF k = n THEN i ELSE h.pq[k]
  BY <1>1
<1>3. a \in Item /\ a.priority = h.item[i].priority /\ a.seq = h.item[i].seq /\ a.pqIdx = n
  BY <1>1 DEF Item
<1>4. t \in [Instance -> Item] /\ t[i] = a /\ \A k \in Instance : k # i => t[k] = h.item[k]
  BY <1>1, <1>3
<1>5. u = [[h EXCEPT !.pq = q] EXCEPT !.item = t]
  BY <1>1 DEF Heap
<1> HIDE DEF q, a, t, u
<1>6. u \in Heap /\ u.pq = q /\ u.item = t /\ u.index = h.index
  BY <1>1, <1>2, <1>4, <1>5 DEF Heap
<1>7. Exact(u)
  BY <1>1, <1>2, <1>3, <1>4, <1>6 DEF Exact, Arranged
<1>8. Keys(u) = Keys(h) \union {i}
  <2>1. ASSUME NEW x \in Keys(u)  PROVE x \in Keys(h) \union {i}
    <3>1. PICK k \in 1 .. n : x = q[k]
      BY <1>2, <1>6 DEF Keys
    <3>2. k # n => k \in 1 .. Len(h.pq)
      BY <1>1
    <3> QED BY <1>1, <1>2, <3>1, <3>2 DEF Keys
  <2>2. ASSUME NEW x \in Keys(h)  PROVE x \in Keys(u)
    <3>1. PICK k \in 1 .. Len(h.pq) : x = h.pq[k]
      BY <1>1 DEF Keys
    <3>2. k \in 1 .. n /\ k # n
      BY <1>1
    <3> QED BY <1>2, <1>6, <3>1, <3>2 DEF Keys
  <2>3. i \in Keys(u)
    <3>1. n \in 1 .. n
      BY <1>1
    <3> QED BY <1>2, <1>6, <3>1 DEF Keys
  <2> QED BY <2>1, <2>2, <2>3
<1>9. AlmostUp(u, n, n)
  <2>1. ASSUME NEW k \in 2 .. n, k # n  PROVE ~Less(u, k, k \div 2)
    <3>1. k \in 2 .. Len(h.pq) /\ k \in 1 .. Len(h.pq) /\ k \in Nat /\ k > 1
      BY <1>1, <2>1
    <3>2. k \div 2 \in 1 .. Len(h.pq)
      BY <1>1, <3>1, Halves
    <3>3. \A m \in 1 .. Len(h.pq) : m \in DOMAIN q /\ KeyAt(u, m) = KeyAt(h, m)
      BY <1>1, <1>2, <1>4, <1>6 DEF KeyAt
    <3>4. ~Less(h, k, k \div 2)
      BY <3>1 DEF Arranged, Ordered
    <3> QED BY <1>1, <1>6, <3>1, <3>2, <3>3, <3>4, KeysDecide
  <2>2. ASSUME NEW k \in 2 .. n  PROVE k \div 2 # n
    <3>1. k \in Nat /\ k > 1 /\ k <= n
      BY <1>1
    <3> QED BY <1>1, <3>1, Halves
  <2> QED BY <2>1, <2>2 DEF AlmostUp, Grandparent
<1> DEFINE g == Up(u, n)
<1>10. Rearranged(u, g) /\ Exact(g) /\ Ordered(g, n)
  <2>1. n \in DOMAIN u.pq /\ Len(u.pq) = n
    BY <1>1, <1>2, <1>6
  <2> QED BY <1>6, <1>7, <1>9, <2>1, UpSorts
<1>11. g = Push(h, i)
  BY DEF Push, u
<1> HIDE DEF g
<1>12. Arranged(g) /\ Keys(g) = Keys(u) /\ g.index = u.index /\ Len(g.pq) = n
  BY <1>2, <1>6, <1>10 DEF Rearranged, Arranged
<1>13. \A k \in Instance : g.item[k].priority = h.item[k].priority /\ g.item[k].seq = h.item[k].seq
  BY <1>3, <1>4, <1>6, <1>10 DEF Rearranged
<1> QED BY <1>6, <1>8, <1>11, <1>12, <1>13 DEF SameBut

LEMMA DownNothing ==
  ASSUME NEW h \in Heap
  PROVE  Down(h, 1, 0) = h
<1> DEFINE round == [w \in Walk |-> DownRound(w)]
           s == [heap |-> h, at |-> 1, size |-> 0]
           Good == [k \in 0 .. 0 |-> {s}]
<1>1. Loop(round, s, 0) \in Good[0]
  <2>1. s \in Good[0] /\ \A k \in 1 .. 0 : \A x \in Good[k - 1] : round[x] \in Good[k]
    OBVIOUS
  <2> HIDE DEF round, s, Good
  <2> QED BY <2>1, LoopRule
<1>2. Loop(round, s, 0) = s
  BY <1>1
<1> QED BY <1>2 DEF Down

\* heap.Pop: the root leaves, the others stay in order.
LEMMA PopSorts ==
  ASSUME NEW h, Arranged(h), h.pq # << >>
  PROVE  LET g == Pop(h)
         IN  /\ Arranged(g) /\ Keys(g) = Keys(h) \ {h.pq[1]} /\ g.index = h.index
             /\ Len(g.pq) = Len(h.pq) - 1 /\ SameBut(h, g, None)
<1> DEFINE n == Len(h.pq)
           u == Swap(h, 1, n)
           d == Down(u, 1, n - 1)
           g == Pop(h)
<1>1. /\ h \in Heap /\ Exact(h) /\ n \in Nat /\ n >= 1 /\ DOMAIN h.pq = 1 .. n
      /\ 1 \in DOMAIN h.pq /\ n \in DOMAIN h.pq /\ n - 1 \in Nat
  BY HeapPlaces DEF Arranged, Heap
<1>0. h \in Heap /\ Exact(h) /\ 1 \in DOMAIN h.pq /\ n \in DOMAIN h.pq
  BY <1>1
<1>2. /\ Rearranged(h, u) /\ Exact(u)
      /\ \A k \in 1 .. n : u.pq[k] = IF k = 1 THEN h.pq[n] ELSE IF k = n THEN h.pq[1] ELSE h.pq[k]
  <2>1. /\ Rearranged(h, u) /\ Exact(u)
        /\ \A k \in DOMAIN h.pq :
              u.pq[k] = IF k = 1 THEN h.pq[n] ELSE IF k = n THEN h.pq[1] ELSE h.pq[k]
    <3> HIDE DEF n
    <3> QED BY <1>0, SwapRearranges
  <2> HIDE DEF u, n
  <2> QED BY <1>1, <2>1
<1>3. u \in Heap /\ Len(u.pq) = n /\ DOMAIN u.pq = 1 .. n
  BY <1>2, HeapPlaces DEF Rearranged
<1>4. u.pq[n] = h.pq[1]
  BY <1>1, <1>2
<1>5. \A k \in 2 .. n - 1 : KeyAt(u, k) = KeyAt(h, k)
  <2> SUFFICES ASSUME NEW k \in 2 .. n - 1  PROVE KeyAt(u, k) = KeyAt(h, k)
    OBVIOUS
  <2>1. k \in DOMAIN h.pq /\ k # 1 /\ k # n
    BY <1>1
  <2>2. KeyAt(Swap(h, 1, n), k) =
           IF k = 1 THEN KeyAt(h, n) ELSE IF k = n THEN KeyAt(h, 1) ELSE KeyAt(h, k)
    <3> HIDE DEF n
    <3>1. k \in DOMAIN h.pq
      BY <2>1
    <3> QED BY <1>0, <3>1, SwapKeys
  <2> HIDE DEF u, n
  <2> QED BY <2>1, <2>2 DEF u
<1> HIDE DEF u
<1>6. AlmostFix(u, 1, n - 1)
  <2>1. ASSUME NEW k \in 2 .. n - 1, k \div 2 # 1  PROVE ~Less(u, k, k \div 2)
    <3>1. k \in Nat /\ k > 1 /\ k \in 2 .. n /\ k \in 1 .. n
      BY <1>1
    <3>2. k \div 2 \in 2 .. n - 1 /\ k \div 2 \in 1 .. n
      BY <1>1, <2>1, <3>1, Halves
    <3>3. ~Less(h, k, k \div 2)
      BY <3>1 DEF Arranged, Ordered
    <3> QED BY <1>1, <1>3, <1>5, <3>1, <3>2, <3>3, KeysDecide
  <2> QED BY <2>1 DEF AlmostFix, Grandparent
<1>7. Rearranged(u, d) /\ Exact(d) /\ Ordered(d, n - 1) /\ d.pq[n] = h.pq[1]
  <2>1. CASE n = 1
    <3>1. d = u
      BY <1>3, <2>1, DownNothing
    <3> QED BY <1>2, <1>3, <1>4, <2>1, <3>1, SameArrangement DEF Ordered
  <2>2. CASE n > 1
    <3>1. 1 \in 1 .. n - 1 /\ n - 1 <= Len(u.pq) /\ n \in DOMAIN u.pq /\ n > n - 1
      BY <1>1, <1>3, <2>2
    <3>2. /\ Rearranged(u, d) /\ Exact(d)
          /\ \A k \in DOMAIN u.pq : k > n - 1 => d.pq[k] = u.pq[k]
          /\ Ordered(d, n - 1) \/ (d = u /\ AlmostUp(u, 1, n - 1))
      BY <1>1, <1>2, <1>3, <1>6, <3>1, DownSorts
    <3>3. AlmostUp(u, 1, n - 1) => Ordered(u, n - 1)
      BY <1>1 DEF AlmostUp, Ordered
    <3> HIDE DEF d, n
    <3> QED BY <1>4, <3>1, <3>2, <3>3
  <2> HIDE DEF d, n
  <2>3. n = 1 \/ n > 1
    BY <1>1
  <2> QED BY <2>1, <2>2, <2>3
<1>8. g = [d EXCEPT !.pq = SubSeq(@, 1, n - 1)]
  BY DEF Pop, u
<1> HIDE DEF d, g
<1>9. Rearranged(h, d) /\ d \in Heap /\ Len(d.pq) = n /\ DOMAIN d.pq = 1 .. n /\ d.pq \in Seq(Instance)
  BY <1>2, <1>3, <1>7, RearrangedTwice, HeapPlaces DEF Rearranged, Heap
<1> DEFINE q == SubSeq(d.pq, 1, n - 1)
<1>10. /\ q \in Seq(Instance) /\ Len(q) = n - 1 /\ DOMAIN q = 1 .. n - 1
       /\ \A k \in 1 .. n - 1 : q[k] = d.pq[k]
  BY <1>1, <1>9
<1> HIDE DEF q
<1>11. g \in Heap /\ g.pq = q /\ g.item = d.item /\ g.index = d.index
  BY <1>8, <1>9, <1>10 DEF Heap, q
<1>12. \A k \in 1 .. n - 1 : k \in 1 .. n /\ g.pq[k] = d.pq[k] /\ KeyAt(g, k) = KeyAt(d, k)
  BY <1>1, <1>10, <1>11 DEF KeyAt
<1>13. Exact(g)
  BY <1>7, <1>9, <1>10, <1>11, <1>12 DEF Exact
<1>14. Ordered(g, n - 1)
  <2> SUFFICES ASSUME NEW k \in 2 .. n - 1  PROVE ~Less(g, k, k \div 2)
    BY DEF Ordered
  <2>1. k \in Nat /\ k > 1 /\ k \in 1 .. n - 1
    BY <1>1
  <2>2. k \div 2 \in 1 .. n - 1
    BY <1>1, <2>1, Halves
  <2>3. ~Less(d, k, k \div 2)
    BY <1>7 DEF Ordered
  <2> QED BY <1>9, <1>10, <1>11, <1>12, <2>1, <2>2, <2>3, KeysDecide
<1>15. Keys(g) = Keys(h) \ {h.pq[1]}
  <2>1. Keys(d) = Keys(h)
    BY <1>9 DEF Rearranged
  <2>2. \A k \in 1 .. n - 1 : d.pq[k] # h.pq[1]
    <3> SUFFICES ASSUME NEW k \in 1 .. n - 1, d.pq[k] = d.pq[n]  PROVE FALSE
      BY <1>7
    <3> QED BY <1>1, <1>7, <1>9, ExactInjective
  <2>3. ASSUME NEW x \in Keys(g)  PROVE x \in Keys(d) \ {h.pq[1]}
    <3>1. PICK k \in 1 .. n - 1 : x = d.pq[k]
      BY <1>10, <1>11, <1>12 DEF Keys
    <3> QED BY <1>9, <1>12, <2>2, <3>1 DEF Keys
  <2>4. ASSUME NEW x \in Keys(d), x # h.pq[1]  PROVE x \in Keys(g)
    <3>1. PICK k \in 1 .. n : x = d.pq[k]
      BY <1>9 DEF Keys
    <3>2. k \in 1 .. n - 1
      BY <1>1, <1>7, <2>4, <3>1
    <3> QED BY <1>10, <1>11, <1>12, <3>1, <3>2 DEF Keys
  <2> QED BY <2>1, <2>3, <2>4
<1>16. SameBut(h, g, None) /\ g.index = h.index
  BY <1>9, <1>11 DEF SameBut, Rearranged
<1> QED BY <1>10, <1>11, <1>13, <1>14, <1>15, <1>16 DEF Arranged, g

\* The order depends on the items in the heap only.
LEMMA SamePlaces ==
  ASSUME NEW h, NEW g, Arranged(h), g \in Heap, g.pq = h.pq,
         \A i \in Keys(h) : g.item[i] = h.item[i]
  PROVE  Arranged(g) /\ Keys(g) = Keys(h)
<1>1. h \in Heap /\ Len(h.pq) \in Nat /\ DOMAIN h.pq = 1 .. Len(h.pq)
  BY HeapPlaces DEF Arranged
<1>2. \A n \in DOMAIN h.pq : g.item[h.pq[n]] = h.item[h.pq[n]]
  BY DEF Keys
<1>3. Exact(g)
  BY <1>2 DEF Arranged, Exact
<1>4. \A n \in DOMAIN h.pq : KeyAt(g, n) = KeyAt(h, n)
  BY <1>2 DEF KeyAt
<1>5. ASSUME NEW k \in 2 .. Len(h.pq)  PROVE ~Less(g, k, k \div 2)
  <2>1. k \in Nat /\ k > 1 /\ k \in DOMAIN h.pq
    BY <1>1
  <2>2. k \div 2 \in DOMAIN h.pq
    BY <1>1, <2>1, Halves
  <2>3. ~Less(h, k, k \div 2)
    BY DEF Arranged, Ordered
  <2> QED BY <1>1, <1>4, <2>1, <2>2, <2>3, KeysDecide
<1> QED BY <1>3, <1>5 DEF Arranged, Ordered, Keys

LEMMA PushItemSorts ==
  ASSUME NEW h, Arranged(h), h.index = Keys(h), NEW i \in Instance, i \notin Keys(h),
         NEW p \in Int, NEW n \in Nat
  PROVE  LET g == PushItem(h, i, p, n)
         IN  /\ Arranged(g) /\ Keys(g) = Keys(h) \union {i} /\ g.index = Keys(g)
             /\ SameBut(h, g, i) /\ g.item[i].priority = p /\ g.item[i].seq = n
<1> DEFINE a == [priority |-> p, seq |-> n, pqIdx |-> 0]
           u == [h EXCEPT !.item[i] = a, !.index = @ \union {i}]
           t == [h.item EXCEPT ![i] = a]
           g == Push(u, i)
<1>1. h \in Heap /\ h.item \in [Instance -> Item]
  BY DEF Arranged, Heap
<1>2. a \in Item /\ a.priority = p /\ a.seq = n
  BY DEF Item
<1> HIDE DEF a
<1>3. t \in [Instance -> Item] /\ t[i] = a /\ \A k \in Instance : k # i => t[k] = h.item[k]
  BY <1>1, <1>2
<1>4. u \in Heap /\ u.pq = h.pq /\ u.item = t /\ u.index = Keys(h) \union {i}
  BY <1>1, <1>3 DEF Heap
<1> HIDE DEF u, t
<1>5. Arranged(u) /\ Keys(u) = Keys(h)
  <2>1. \A k \in Keys(h) : k \in Instance
    BY <1>1, HeapPlaces DEF Keys
  <2>2. \A k \in Keys(h) : u.item[k] = h.item[k]
    BY <1>3, <1>4, <2>1
  <2> QED BY <1>4, <2>2, SamePlaces
<1>6. /\ Arranged(g) /\ Keys(g) = Keys(u) \union {i} /\ g.index = u.index
      /\ SameBut(u, g, None)
      /\ g.item[i].priority = u.item[i].priority /\ g.item[i].seq = u.item[i].seq
  BY <1>5, PushSorts
<1>7. g = PushItem(h, i, p, n)
  BY DEF PushItem, u, a
<1> HIDE DEF g
<1>8. None \notin Instance
  BY QueueAssumptions
<1> QED BY <1>2, <1>3, <1>4, <1>5, <1>6, <1>7, <1>8 DEF SameBut

\* UpdateQueuedPriority with heap.Fix.
LEMMA ReprioritizedSorts ==
  ASSUME NEW h, Arranged(h), h.index = Keys(h), NEW i, NEW p \in Int
  PROVE  LET g == Reprioritized(h, i, p)
         IN  /\ Arranged(g) /\ Keys(g) = Keys(h) /\ g.index = Keys(g)
             /\ SameBut(h, g, i)
             /\ i \in Keys(h) => g.item[i].priority = p /\ g.item[i].seq = h.item[i].seq
             /\ i \notin Keys(h) => g = h
<1>1. h \in Heap /\ Exact(h) /\ Len(h.pq) \in Nat /\ DOMAIN h.pq = 1 .. Len(h.pq)
      /\ h.item \in [Instance -> Item] /\ Keys(h) \subseteq Instance
  BY HeapPlaces DEF Arranged, Heap, Keys
<1>2. CASE i \notin Keys(h) \/ h.item[i].priority = p
  <2>1. Reprioritized(h, i, p) = h
    BY <1>2 DEF Reprioritized
  <2> QED BY <1>2, <2>1 DEF SameBut
<1>3. CASE i \in Keys(h) /\ h.item[i].priority # p
  <2> DEFINE n == h.item[i].pqIdx
             u == [h EXCEPT !.item[i].priority = p]
             a == [h.item[i] EXCEPT !.priority = p]
             t == [h.item EXCEPT ![i] = a]
             L == Len(h.pq)
             d == Down(u, n, L)
             g == Fix(u, n)
  <2>1. i \in Instance /\ n \in DOMAIN h.pq /\ h.pq[n] = i
    BY <1>1, <1>3 DEF Keys, Exact
  <2>2. a \in Item /\ a.priority = p /\ a.seq = h.item[i].seq /\ a.pqIdx = n
    BY <1>1, <2>1 DEF Item
  <2>3. t \in [Instance -> Item] /\ t[i] = a /\ \A k \in Instance : k # i => t[k] = h.item[k]
    BY <1>1, <2>1, <2>2
  <2>4. u = [h EXCEPT !.item = t]
    BY <1>1 DEF Heap
  <2>5. Reprioritized(h, i, p) = g
    BY <1>3 DEF Reprioritized
  <2> HIDE DEF n, u, a, t
  <2>6. u \in Heap /\ u.pq = h.pq /\ u.item = t /\ u.index = h.index
    BY <1>1, <2>3, <2>4 DEF Heap
  <2>7. Exact(u)
    <3> SUFFICES ASSUME NEW k \in DOMAIN h.pq  PROVE t[h.pq[k]].pqIdx = k
      BY <2>6 DEF Exact
    <3>1. h.pq[k] \in Instance /\ h.item[h.pq[k]].pqIdx = k
      BY <1>1, HeapPlaces DEF Exact
    <3> QED BY <2>1, <2>2, <2>3, <3>1 DEF n
  <2>8. \A k \in DOMAIN h.pq : k # n => KeyAt(u, k) = KeyAt(h, k)
    <3> SUFFICES ASSUME NEW k \in DOMAIN h.pq, k # n  PROVE KeyAt(u, k) = KeyAt(h, k)
      OBVIOUS
    <3>1. h.pq[k] \in Instance /\ h.pq[k] # i
      BY <1>1, <2>1, HeapPlaces, ExactInjective
    <3> QED BY <2>3, <2>6, <3>1 DEF KeyAt
  <2>9. AlmostFix(u, n, L)
    <3>1. ASSUME NEW k \in 2 .. L
          PROVE  k \in DOMAIN h.pq /\ k \div 2 \in DOMAIN h.pq /\ ~Less(h, k, k \div 2) /\ k \div 2 # k
      <4>1. k \in Nat /\ k > 1 /\ k \in 1 .. L
        BY <1>1
      <4>2. k \div 2 \in 1 .. L /\ k \div 2 < k
        BY <1>1, <4>1, Halves
      <4>3. ~Less(h, k, k \div 2)
        BY DEF Arranged, Ordered
      <4> QED BY <1>1, <4>1, <4>2, <4>3
    <3> HIDE DEF L
    <3>2. ASSUME NEW k \in 2 .. L, k # n, k \div 2 # n  PROVE ~Less(u, k, k \div 2)
      BY <1>1, <2>6, <2>8, <3>1, <3>2, KeysDecide
    <3>3. ASSUME n > 1, NEW k \in 2 .. L, k \div 2 = n  PROVE ~Less(u, k, n \div 2)
      <4>1. n \in 2 .. L /\ k # n
        BY <1>1, <2>1, <3>1, <3>3 DEF L
      <4> DEFINE m == n \div 2
      <4>2. /\ k \in DOMAIN h.pq /\ n \in DOMAIN h.pq /\ m \in DOMAIN h.pq /\ m # n
            /\ ~Less(h, k, n) /\ ~Less(h, n, m)
        BY <3>1, <3>3, <4>1
      <4> HIDE DEF m
      <4>3. /\ KeyAt(h, k) \in Key /\ KeyAt(h, n) \in Key /\ KeyAt(h, m) \in Key
            /\ Less(h, k, n) <=> Sooner(KeyAt(h, k), KeyAt(h, n))
            /\ Less(h, n, m) <=> Sooner(KeyAt(h, n), KeyAt(h, m))
            /\ Less(h, k, m) <=> Sooner(KeyAt(h, k), KeyAt(h, m))
        BY <1>1, <4>2, LessIsSooner
      <4>4. ~Less(h, k, m)
        BY <4>2, <4>3, SoonerOrder
      <4>5. KeyAt(u, k) = KeyAt(h, k) /\ KeyAt(u, m) = KeyAt(h, m)
        BY <2>8, <4>1, <4>2
      <4>6. ~Less(u, k, m)
        BY <1>1, <2>6, <4>2, <4>4, <4>5, KeysDecide
      <4> QED BY <4>6 DEF m
    <3> QED BY <3>2, <3>3 DEF AlmostFix, Grandparent
  <2>10. /\ Rearranged(u, d) /\ Exact(d)
         /\ Ordered(d, L) \/ (d = u /\ AlmostUp(u, n, L))
    <3>1. L \in Nat /\ L <= Len(u.pq) /\ n \in 1 .. L
      BY <1>1, <2>1, <2>6
    <3> HIDE DEF L
    <3> QED BY <2>6, <2>7, <2>9, <3>1, DownSorts
  <2>11. Rearranged(u, g) /\ Exact(g) /\ Ordered(g, L)
    <3>1. g = IF d = u THEN Up(u, n) ELSE d
      BY <2>6 DEF Fix
    <3>2. CASE d # u
      <4> HIDE DEF d, g
      <4> QED BY <2>10, <3>1, <3>2
    <3>3. CASE d = u
      <4>1. AlmostUp(u, n, L)
        <5>1. Ordered(u, L) => AlmostUp(u, n, L)
          BY <2>9 DEF AlmostFix, AlmostUp, Ordered
        <5> HIDE DEF d
        <5> QED BY <2>10, <3>3, <5>1
      <4>2. n \in DOMAIN u.pq /\ Len(u.pq) = L
        BY <2>1, <2>6
      <4>3. Rearranged(u, Up(u, n)) /\ Exact(Up(u, n)) /\ Ordered(Up(u, n), L)
        <5> HIDE DEF L
        <5> QED BY <2>6, <2>7, <4>1, <4>2, UpSorts
      <4> HIDE DEF d, g
      <4> QED BY <3>1, <3>3, <4>3
    <3> QED BY <3>2, <3>3
  <2> HIDE DEF g
  <2>12. /\ Arranged(g) /\ Keys(g) = Keys(u) /\ g.index = u.index
         /\ \A k \in Instance :
               g.item[k].priority = t[k].priority /\ g.item[k].seq = t[k].seq
    BY <2>6, <2>11 DEF Rearranged, Arranged
  <2>13. Keys(u) = Keys(h)
    BY <2>6 DEF Keys
  <2> QED BY <1>3, <2>1, <2>2, <2>3, <2>5, <2>6, <2>12, <2>13 DEF SameBut
<1> QED BY <1>2, <1>3

(***************************************************************************)
(* The rebuilt queue                                                       *)
(***************************************************************************)

RowType == row \in [Instance -> [status: {"absent", "queued", "active", "ended"}, priority: Int]]

InFront(i) == {k \in Queued : Ahead(k, i)}

LEMMA InFrontCounts ==
  ASSUME RowType, NEW i \in Queued
  PROVE  /\ IsFiniteSet(Queued) /\ Cardinality(Queued) \in Nat
         /\ IsFiniteSet(InFront(i)) /\ Cardinality(InFront(i)) \in Nat
         /\ Cardinality(InFront(i)) < Cardinality(Queued)
<1>1. IsFiniteSet(Queued) /\ Cardinality(Queued) \in Nat
  <2>1. Queued \in SUBSET Instance
    BY DEF Queued
  <2> QED BY <2>1, QueueAssumptions, FS_Subset, FS_CardinalityType
<1>2. InFront(i) \in SUBSET Queued /\ i \notin InFront(i)
  <2>1. row[i].priority \in Int /\ i \in Int
    BY QueueAssumptions DEF RowType, Queued
  <2> QED BY <2>1 DEF InFront, Ahead
<1>3. IsFiniteSet(InFront(i)) /\ Cardinality(InFront(i)) \in Nat
      /\ Cardinality(InFront(i)) <= Cardinality(Queued)
  BY <1>1, <1>2, FS_Subset, FS_CardinalityType
<1>4. Cardinality(InFront(i)) # Cardinality(Queued)
  BY <1>1, <1>2, FS_Subset
<1> QED BY <1>1, <1>3, <1>4

\* Two rows never have the same number of rows in front of them.
LEMMA InFrontDiffer ==
  ASSUME RowType, NEW i \in Queued, NEW k \in Queued,
         Cardinality(InFront(i)) = Cardinality(InFront(k))
  PROVE  i = k
<1>1. \A m \in Queued : row[m].priority \in Int /\ m \in Int
  BY QueueAssumptions DEF RowType, Queued
<1>2. ASSUME NEW x \in Queued, NEW y \in Queued, Ahead(x, y)
      PROVE  Cardinality(InFront(x)) # Cardinality(InFront(y))
  <2>1. InFront(x) \in SUBSET InFront(y)
    BY <1>1, <1>2 DEF InFront, Ahead
  <2>2. x \in InFront(y) /\ x \notin InFront(x)
    BY <1>1, <1>2 DEF InFront, Ahead
  <2>3. IsFiniteSet(InFront(y))
    BY InFrontCounts
  <2> QED BY <2>1, <2>2, <2>3, FS_Subset
<1>3. i = k \/ Ahead(i, k) \/ Ahead(k, i)
  BY <1>1 DEF Ahead
<1> QED BY <1>2, <1>3

\* Every queued row is in the list, once.
LEMMA RecoveryOrderLists ==
  ASSUME RowType
  PROVE  /\ Cardinality(Queued) \in Nat
         /\ \A n \in 1 .. Cardinality(Queued) : RecoveryOrder[n] \in Queued
         /\ \A m, n \in 1 .. Cardinality(Queued) : RecoveryOrder[m] = RecoveryOrder[n] => m = n
         /\ \A i \in Queued : \E n \in 1 .. Cardinality(Queued) : RecoveryOrder[n] = i
<1> DEFINE N == Cardinality(Queued)
           place == [i \in Queued |-> Cardinality(InFront(i)) + 1]
<1>1. IsFiniteSet(Queued) /\ N \in Nat
  <2>1. Queued \in SUBSET Instance
    BY DEF Queued
  <2> QED BY <2>1, QueueAssumptions, FS_Subset, FS_CardinalityType
<1>2. \A i \in Queued : place[i] \in 1 .. N /\ place[i] = Cardinality(InFront(i)) + 1
                        /\ Cardinality(InFront(i)) \in Nat
  BY <1>1, InFrontCounts
<1>3. \A i, k \in Queued : place[i] = place[k] => i = k
  BY <1>2, InFrontDiffer
<1>4. place \in [Queued -> 1 .. N]
  BY <1>2
<1> HIDE DEF place
<1>5. place \in Injection(Queued, 1 .. N)
  BY <1>3, <1>4 DEF Injection, IsInjective
<1>6. IsFiniteSet(1 .. N) /\ Cardinality(1 .. N) = N
  BY <1>1, FS_Interval
<1>7. place \in Surjection(Queued, 1 .. N)
  <2> HIDE DEF N
  <2> QED BY <1>1, <1>5, <1>6, FS_Injection DEF N
<1>8. \A n \in 1 .. N : \E i \in Queued : place[i] = n
  BY <1>7 DEF Surjection
<1>9. ASSUME NEW n \in 1 .. N
      PROVE  RecoveryOrder[n] \in Queued /\ place[RecoveryOrder[n]] = n
  <2>1. PICK i \in Queued : place[i] = n
    BY <1>8
  <2>2. Cardinality(InFront(i)) = n - 1
    BY <1>2, <2>1
  <2>3. RecoveryOrder[n] = CHOOSE k \in Queued : Cardinality(InFront(k)) = n - 1
    BY DEF RecoveryOrder, InFront
  <2>4. RecoveryOrder[n] \in Queued /\ Cardinality(InFront(RecoveryOrder[n])) = n - 1
    BY <2>2, <2>3
  <2> QED BY <1>2, <2>4
<1>10. \A i \in Queued : \E n \in 1 .. N : RecoveryOrder[n] = i
  BY <1>2, <1>3, <1>9
<1> QED BY <1>1, <1>9, <1>10

\* The queue a new process builds.
Rebuilt ==
    Loop([r \in [heap: Heap, done: Nat] |-> RecoverRound(r)],
         [heap |-> EmptyHeap, done |-> 0], Cardinality(Queued)).heap

LEMMA EmptyHeapArranged == Arranged(EmptyHeap) /\ Keys(EmptyHeap) = {} /\ EmptyHeap.index = {}
<1>1. EmptyHeap \in Heap
  BY DEF EmptyHeap, Heap, Item
<1>2. EmptyHeap.pq = << >> /\ EmptyHeap.index = {}
  BY DEF EmptyHeap
<1> QED BY <1>1, <1>2 DEF Arranged, Exact, Ordered, Keys

\* After n rounds the first n rows of the list are queued, with the numbers 1 to n.
LEMMA RebuildSorts ==
  ASSUME RowType
  PROVE  /\ Arranged(Rebuilt) /\ Keys(Rebuilt) = Queued /\ Rebuilt.index = Queued
         /\ \A n \in 1 .. Cardinality(Queued) : Rebuilt.item[RecoveryOrder[n]].seq = n
<1> DEFINE N == Cardinality(Queued)
           R == RecoveryOrder
           State(r, k) ==
               /\ r.done = k /\ Arranged(r.heap) /\ r.heap.index = Keys(r.heap)
               /\ Keys(r.heap) = {R[n] : n \in 1 .. k}
               /\ \A n \in 1 .. k : r.heap.item[R[n]].seq = n
           Pass == [heap: Heap, done: Nat]
           Good == [k \in 0 .. N |-> {r \in Pass : State(r, k)}]
           round == [r \in Pass |-> RecoverRound(r)]
           s == [heap |-> EmptyHeap, done |-> 0]
<1>1. /\ N \in Nat /\ \A n \in 1 .. N : R[n] \in Queued /\ R[n] \in Instance
      /\ \A m, n \in 1 .. N : R[m] = R[n] => m = n
      /\ \A i \in Queued : \E n \in 1 .. N : R[n] = i
  BY RecoveryOrderLists DEF Queued
<1>2. s \in Good[0]
  <2>1. s \in Pass
    BY EmptyHeapArranged DEF Arranged
  <2>2. State(s, 0)
    <3>1. {R[n] : n \in 1 .. 0} = {}
      OBVIOUS
    <3> HIDE DEF R
    <3> QED BY <3>1, EmptyHeapArranged
  <2>3. 0 \in 0 .. N
    BY <1>1
  <2> HIDE DEF State, Pass, N, s
  <2> QED BY <2>1, <2>2, <2>3
<1>3. \A k \in 1 .. N : \A r \in Good[k - 1] : round[r] \in Good[k]
  <2> SUFFICES ASSUME NEW k \in 1 .. N, NEW r \in Good[k - 1]  PROVE round[r] \in Good[k]
    OBVIOUS
  <2> DEFINE i == R[k]
             p == row[i].priority
             g == PushItem(r.heap, i, p, k)
             v == [heap |-> g, done |-> k]
  <2>0. k \in Nat /\ k - 1 \in Nat /\ (k - 1) + 1 = k /\ k \in 0 .. N /\ k - 1 \in 0 .. N
    BY <1>1
  <2>1. /\ r \in Pass /\ State(r, k - 1)
        /\ k \in Nat /\ k - 1 \in Nat /\ (k - 1) + 1 = k /\ k \in 0 .. N
    <3> HIDE DEF State, Pass, N
    <3> QED BY <2>0
  <2> HIDE DEF R
  <2>2. round[r] = v
    BY <2>1 DEF RecoverRound, R
  <2>3. i \in Instance /\ p \in Int /\ i \notin Keys(r.heap)
    <3>1. i \in Instance /\ p \in Int
      BY <1>1 DEF RowType
    <3>2. \A n \in 1 .. k - 1 : n \in 1 .. N /\ n # k
      BY <1>1
    <3> QED BY <1>1, <2>1, <3>1, <3>2
  <2>4. /\ Arranged(g) /\ Keys(g) = Keys(r.heap) \union {i} /\ g.index = Keys(g)
        /\ SameBut(r.heap, g, i) /\ g.item[i].seq = k
    <3>1. Arranged(r.heap) /\ r.heap.index = Keys(r.heap)
      BY <2>1
    <3> DEFINE h == r.heap
    <3> HIDE DEF i, p, h, N
    <3>2. Arranged(h) /\ h.index = Keys(h) /\ i \notin Keys(h)
      BY <2>3, <3>1 DEF h
    <3>3. /\ Arranged(PushItem(h, i, p, k)) /\ Keys(PushItem(h, i, p, k)) = Keys(h) \union {i}
          /\ PushItem(h, i, p, k).index = Keys(PushItem(h, i, p, k))
          /\ SameBut(h, PushItem(h, i, p, k), i) /\ PushItem(h, i, p, k).item[i].seq = k
      BY <2>0, <2>3, <3>2, PushItemSorts
    <3> QED BY <3>3 DEF h
  <2>5. g \in Heap
    BY <2>4 DEF Arranged
  <2>6. {R[n] : n \in 1 .. k} = {R[n] : n \in 1 .. k - 1} \union {R[k]}
    <3>1. \A n : n \in 1 .. k <=> n \in 1 .. k - 1 \/ n = k
      BY <2>1
    <3> QED BY <3>1
  <2> HIDE DEF g
  <2>7. Keys(g) = {R[n] : n \in 1 .. k}
    BY <2>1, <2>4, <2>6
  <2>8. ASSUME NEW n \in 1 .. k  PROVE g.item[R[n]].seq = n
    <3>1. CASE n = k
      BY <2>4, <3>1
    <3>2. CASE n # k
      <4>1. n \in 1 .. k - 1 /\ n \in 1 .. N
        BY <1>1, <2>1, <3>2
      <4>2. R[n] \in Instance /\ R[n] # i /\ r.heap.item[R[n]].seq = n
        BY <1>1, <2>1, <3>2, <4>1
      <4> QED BY <2>4, <4>2 DEF SameBut
    <3> QED BY <3>1, <3>2
  <2>9. v \in Pass /\ State(v, k)
    BY <2>1, <2>4, <2>5, <2>7, <2>8
  <2> HIDE DEF v, State, Pass, N
  <2> QED BY <2>1, <2>2, <2>9
<1>4. PICK r \in Good[N] : r.heap = Rebuilt
  <2>1. Loop(round, s, N) \in Good[N]
    <3> HIDE DEF round, Good, s, N
    <3> QED BY <1>1, <1>2, <1>3, LoopRule
  <2> QED BY <2>1 DEF Rebuilt
<1>5. State(r, N)
  BY <1>1
<1>6. Keys(Rebuilt) = Queued
  <2> HIDE DEF R
  <2> QED BY <1>1, <1>4, <1>5
<1> QED BY <1>4, <1>5, <1>6

(***************************************************************************)
(* The invariant                                                           *)
(***************************************************************************)

HeapInv == Arranged(heap) /\ heap.index = Keys(heap)

Waiting(i) == i \in Keys(heap) \/ disp.cur = i

\* The numbers of the items, of the one in hand too, are different.
Numbered ==
    /\ \A i \in Instance : Waiting(i) => heap.item[i].seq <= pqSeq
    /\ \A i, k \in Instance : Waiting(i) /\ Waiting(k) /\ i # k => heap.item[i].seq # heap.item[k].seq

OnTimer(i) == timer[i] # None
InQueue(i) == i \in Keys(heap)
InHand(i) == disp.cur = i
AtWork(i) == task[i] # "none"

\* Where a row is, and what its status says of it.
Carried ==
    /\ disp.cur \in Instance <=> disp.pc \in {"acquire", "push"}
    /\ \A i \in Instance :
          /\ OnTimer(i) => ~InQueue(i) /\ ~InHand(i) /\ ~AtWork(i)
          /\ InQueue(i) => ~InHand(i) /\ ~AtWork(i)
          /\ InHand(i) => ~AtWork(i)
          /\ row[i].status \in {"absent", "active"} =>
                ~OnTimer(i) /\ ~InQueue(i) /\ ~InHand(i) /\ ~AtWork(i)
          /\ row[i].status = "queued" =>
                OnTimer(i) \/ InQueue(i) \/ InHand(i) \/ AtWork(i)
          /\ i \in held => row[i].status = "active"

QueueInv == TypeOK /\ HeapInv /\ Numbered /\ Carried /\ SlotsHeld /\ NoLostWakeup

LEMMA KeysType == HeapInv => Keys(heap) \subseteq Instance /\ heap \in Heap
BY HeapPlaces DEF HeapInv, Arranged, Keys

\* What the steps that touch the heap do to it.
LEMMA PushPendingMoves ==
  ASSUME TypeOK, HeapInv, Carried, NEW i \in Instance, PushPending(i)
  PROVE  /\ HeapInv' /\ Keys(heap') = Keys(heap) \union {i} /\ SameBut(heap, heap', i)
         /\ heap'.item[i].priority = timer[i] /\ heap'.item[i].seq = pqSeq + 1
         /\ i \notin Keys(heap) /\ pqSeq' = pqSeq + 1 /\ pqSeq' \in Nat
<1>1. i \notin Keys(heap) /\ timer[i] \in Int /\ pqSeq + 1 \in Nat
  BY DEF Carried, OnTimer, InQueue, PushPending, TypeOK
<1>2. heap' = PushItem(heap, i, timer[i], pqSeq + 1) /\ pqSeq' = pqSeq + 1
  BY DEF PushPending
<1>3. Arranged(heap) /\ heap.index = Keys(heap)
  BY DEF HeapInv
<1>4. /\ Arranged(heap') /\ Keys(heap') = Keys(heap) \union {i} /\ heap'.index = Keys(heap')
      /\ SameBut(heap, heap', i) /\ heap'.item[i].priority = timer[i]
      /\ heap'.item[i].seq = pqSeq + 1
  BY <1>1, <1>2, <1>3, PushItemSorts
<1> QED BY <1>1, <1>2, <1>4 DEF HeapInv

LEMMA PopPendingMoves ==
  ASSUME TypeOK, HeapInv, Carried, PopPending
  PROVE  /\ HeapInv' /\ SameBut(heap, heap', None)
         /\ heap.pq # << >> /\ disp.pc = "loop"
         /\ disp'.cur = heap.pq[1] /\ disp'.pc = "acquire" /\ disp'.cur \in Keys(heap)
         /\ Keys(heap') = Keys(heap) \ {disp'.cur}
<1> DEFINE i == heap.pq[1]
           g == Pop(heap)
<1>1. Arranged(heap) /\ heap.index = Keys(heap) /\ heap \in Heap /\ heap.pq # << >>
  BY DEF HeapInv, Arranged, PopPending
<1>2. /\ Arranged(g) /\ Keys(g) = Keys(heap) \ {i} /\ g.index = heap.index
      /\ SameBut(heap, g, None)
  BY <1>1, PopSorts
<1>3. heap' = [g EXCEPT !.index = @ \ {i}] /\ disp' = [pc |-> "acquire", cur |-> i] /\ disp.pc = "loop"
  BY DEF PopPending
<1>4. i \in Keys(heap) /\ Keys(heap) \subseteq Instance
  <2>1. Len(heap.pq) \in Nat /\ DOMAIN heap.pq = 1 .. Len(heap.pq) /\ Len(heap.pq) # 0
    BY <1>1 DEF Heap
  <2>2. 1 \in DOMAIN heap.pq
    BY <2>1
  <2> QED BY <2>2, KeysType DEF Keys
<1> HIDE DEF g, i
<1>5. g \in Heap /\ Keys(g) = Keys(heap) \ {i}
  BY <1>2 DEF Arranged
<1>6. heap' \in Heap /\ heap'.pq = g.pq /\ heap'.item = g.item /\ heap'.index = Keys(g)
  BY <1>1, <1>2, <1>3, <1>5 DEF Heap
<1>7. Arranged(heap') /\ Keys(heap') = Keys(g)
  BY <1>2, <1>6, SamePlaces
<1>8. SameBut(heap, heap', None)
  BY <1>2, <1>6 DEF SameBut
<1> QED BY <1>1, <1>3, <1>4, <1>5, <1>6, <1>7, <1>8 DEF HeapInv, i

LEMMA RePushMoves ==
  ASSUME TypeOK, HeapInv, Carried, RePush
  PROVE  /\ HeapInv' /\ Keys(heap') = Keys(heap) \union {disp.cur} /\ SameBut(heap, heap', None)
         /\ disp.cur \in Instance /\ disp.cur \notin Keys(heap)
<1> DEFINE i == disp.cur
           h == [heap EXCEPT !.index = @ \union {i}]
<1>1. disp.pc = "push" /\ i \in Instance /\ i \notin Keys(heap)
  BY DEF RePush, Carried, InHand, InQueue
<1>2. Arranged(heap) /\ heap.index = Keys(heap) /\ heap \in Heap /\ Keys(heap) \subseteq Instance
  BY KeysType DEF HeapInv
<1>3. heap' = Push(h, i)
  BY DEF RePush
<1> HIDE DEF i
<1>4. h \in Heap /\ h.pq = heap.pq /\ h.item = heap.item /\ h.index = Keys(heap) \union {i}
  BY <1>1, <1>2 DEF Heap
<1> HIDE DEF h
<1>5. Arranged(h) /\ Keys(h) = Keys(heap)
  BY <1>2, <1>4, SamePlaces
<1>6. /\ Arranged(heap') /\ Keys(heap') = Keys(h) \union {i} /\ heap'.index = h.index
      /\ SameBut(h, heap', None)
      /\ heap'.item[i].priority = h.item[i].priority /\ heap'.item[i].seq = h.item[i].seq
  BY <1>1, <1>3, <1>5, PushSorts
<1>7. SameBut(heap, heap', None)
  BY <1>4, <1>6 DEF SameBut
<1> QED BY <1>1, <1>4, <1>5, <1>6, <1>7 DEF HeapInv, i

\* An item that is not in the heap changes.
LEMMA OutsideMoves ==
  ASSUME HeapInv, NEW i \in Instance, i \notin Keys(heap), NEW a \in Item,
         heap' = [heap EXCEPT !.item[i] = a]
  PROVE  /\ HeapInv' /\ Keys(heap') = Keys(heap) /\ SameBut(heap, heap', i)
         /\ heap'.item[i] = a
<1>1. Arranged(heap) /\ heap.index = Keys(heap) /\ heap \in Heap /\ Keys(heap) \subseteq Instance
      /\ heap.item \in [Instance -> Item]
  BY KeysType DEF HeapInv, Heap
<1> DEFINE t == [heap.item EXCEPT ![i] = a]
<1>2. t \in [Instance -> Item] /\ t[i] = a /\ \A k \in Instance : k # i => t[k] = heap.item[k]
  BY <1>1
<1>3. heap' = [heap EXCEPT !.item = t]
  BY <1>1 DEF Heap
<1> HIDE DEF t
<1>4. heap' \in Heap /\ heap'.pq = heap.pq /\ heap'.item = t /\ heap'.index = heap.index
  BY <1>1, <1>2, <1>3 DEF Heap
<1>5. \A k \in Keys(heap) : heap'.item[k] = heap.item[k]
  BY <1>1, <1>2, <1>4
<1>6. PICK g : g = heap'
  OBVIOUS
<1>7. Arranged(heap) /\ g \in Heap /\ g.pq = heap.pq /\ \A k \in Keys(heap) : g.item[k] = heap.item[k]
  BY <1>1, <1>4, <1>5, <1>6
<1>8. Arranged(g) /\ Keys(g) = Keys(heap)
  BY <1>7, SamePlaces
<1> QED BY <1>1, <1>2, <1>4, <1>6, <1>8 DEF HeapInv, SameBut

LEMMA ForgetMoves ==
  ASSUME HeapInv, NEW i \in Instance, i \notin Keys(heap), heap' = Forget(heap, i)
  PROVE  HeapInv' /\ Keys(heap') = Keys(heap) /\ SameBut(heap, heap', i)
<1>1. EmptyHeap.item[i] \in Item
  BY DEF EmptyHeap, Item
<1>2. heap' = [heap EXCEPT !.item[i] = EmptyHeap.item[i]]
  BY DEF Forget
<1> QED BY <1>1, <1>2, OutsideMoves

LEMMA RefreshMoves ==
  ASSUME TypeOK, HeapInv, Carried, Refresh
  PROVE  /\ HeapInv' /\ Keys(heap') = Keys(heap) /\ SameBut(heap, heap', disp.cur)
         /\ disp.cur \in Instance /\ disp.cur \notin Keys(heap)
         /\ disp'.cur # None => disp'.cur = disp.cur /\ heap'.item[disp.cur].seq = heap.item[disp.cur].seq
<1> DEFINE i == disp.cur
<1>1. disp.pc = "acquire" /\ i \in Instance /\ i \notin Keys(heap)
  BY DEF Refresh, Carried, InHand, InQueue
<1>2. CASE row[i].status = "ended"
  <2>1. heap' = Forget(heap, i) /\ disp'.cur = None
    BY <1>2 DEF Refresh
  <2> HIDE DEF i
  <2>2. HeapInv' /\ Keys(heap') = Keys(heap) /\ SameBut(heap, heap', i)
    BY <1>1, <2>1, ForgetMoves
  <2> QED BY <1>1, <2>1, <2>2 DEF i
<1>3. CASE row[i].status # "ended"
  <2> DEFINE a == [heap.item[i] EXCEPT !.priority = row[i].priority]
  <2>1. heap' = [heap EXCEPT !.item[i].priority = row[i].priority] /\ disp' = [disp EXCEPT !.pc = "push"]
    BY <1>3 DEF Refresh
  <2>2. heap.item[i] \in Item /\ row[i].priority \in Int /\ disp'.cur = i
    BY <1>1, <2>1, HeapPlaces DEF TypeOK
  <2>3. a \in Item /\ a.seq = heap.item[i].seq
    BY <2>2 DEF Item
  <2>4. heap' = [heap EXCEPT !.item[i] = a]
    BY <2>1
  <2> HIDE DEF i, a
  <2>5. HeapInv' /\ Keys(heap') = Keys(heap) /\ SameBut(heap, heap', i) /\ heap'.item[i] = a
    BY <1>1, <2>3, <2>4, OutsideMoves
  <2> QED BY <1>1, <2>2, <2>3, <2>5 DEF i
<1> QED BY <1>2, <1>3

LEMMA TryAcquireMoves ==
  ASSUME TypeOK, HeapInv, Carried, TryAcquire
  PROVE  /\ HeapInv' /\ Keys(heap') = Keys(heap) /\ SameBut(heap, heap', disp.cur)
         /\ disp.cur \in Instance /\ disp.cur \notin Keys(heap)
<1> DEFINE i == disp.cur
<1>1. disp.pc = "acquire" /\ i \in Instance /\ i \notin Keys(heap) /\ heap' = Forget(heap, i)
  BY DEF TryAcquire, Carried, InHand, InQueue
<1> HIDE DEF i
<1> QED BY <1>1, ForgetMoves DEF i

LEMMA UpdateQueuedPriorityMoves ==
  ASSUME TypeOK, HeapInv, NEW c \in Caller, UpdateQueuedPriority(c)
  PROVE  /\ HeapInv' /\ Keys(heap') = Keys(heap) /\ SameBut(heap, heap', call[c].ins)
         /\ call[c].ins \in Keys(heap) => heap'.item[call[c].ins].seq = heap.item[call[c].ins].seq
         /\ call[c].ins \notin Keys(heap) => heap' = heap
<1> DEFINE i == call[c].ins
           p == call[c].priority
<1>1. p \in Int /\ heap' = Reprioritized(heap, i, p)
  BY DEF TypeOK, UpdateQueuedPriority
<1>2. Arranged(heap) /\ heap.index = Keys(heap)
  BY DEF HeapInv
<1> HIDE DEF i, p
<1>3. /\ Arranged(heap') /\ Keys(heap') = Keys(heap) /\ heap'.index = Keys(heap')
      /\ SameBut(heap, heap', i)
      /\ i \in Keys(heap) => heap'.item[i].priority = p /\ heap'.item[i].seq = heap.item[i].seq
      /\ i \notin Keys(heap) => heap' = heap
  BY <1>1, <1>2, ReprioritizedSorts
<1> QED BY <1>3 DEF HeapInv, i

LEMMA RestartMoves ==
  ASSUME TypeOK, Restart
  PROVE  /\ HeapInv' /\ Keys(heap') = Queued
         /\ pqSeq' = Cardinality(Queued) /\ pqSeq' \in Nat /\ RowType
         /\ \A n \in 1 .. Cardinality(Queued) : heap'.item[RecoveryOrder[n]].seq = n
<1>1. RowType
  BY DEF TypeOK, RowType
<1>2. heap' = Rebuilt /\ pqSeq' = Cardinality(Queued)
  BY DEF Restart, Rebuilt
<1> QED BY <1>1, <1>2, RebuildSorts, RecoveryOrderLists DEF HeapInv

LEMMA NextHeapInv == TypeOK /\ HeapInv /\ Carried /\ [Next]_vars => HeapInv'
<1> SUFFICES ASSUME TypeOK, HeapInv, Carried, [Next]_vars  PROVE HeapInv'
  OBVIOUS
<1>1. CASE \E i \in Instance : PushPending(i)
  BY <1>1, PushPendingMoves
<1>2. CASE PopPending
  BY <1>2, PopPendingMoves
<1>3. CASE RePush
  BY <1>3, RePushMoves
<1>4. CASE Refresh
  BY <1>4, RefreshMoves
<1>5. CASE TryAcquire
  BY <1>5, TryAcquireMoves
<1>6. CASE \E c \in Caller : UpdateQueuedPriority(c)
  BY <1>6, UpdateQueuedPriorityMoves
<1>7. CASE Restart
  BY <1>7, RestartMoves
<1>8. CASE heap' = heap
  BY <1>8 DEF HeapInv
<1> QED BY <1>1, <1>2, <1>3, <1>4, <1>5, <1>6, <1>7, <1>8
        DEF Next, Pusher, Task, Dispatcher, vars, SubmitManual, NotifyWake, SleepWhenEmpty,
            WakeUp, Rest, DispatchToWorker, DispatchNoWorker, RequeueAfterNoWorker, EndRow,
            UpdatePriority

\* What TypeOK says but for the heap, whose type is part of HeapInv.
Plain ==
    /\ RowType
    /\ pqSeq \in Nat
    /\ timer \in [Instance -> Int \union {None}]
    /\ notifying \subseteq Instance
    /\ wake \in BOOLEAN
    /\ disp \in [pc: {"loop", "asleep", "acquire", "push", "rest"}, cur: Instance \union {None}]
    /\ task \in [Instance -> {"none", "dispatch", "requeue"}]
    /\ slots \in [Job -> Nat] /\ \A j \in Job : slots[j] <= MaxConcurrency[j]
    /\ held \subseteq Instance
    /\ call \in [Caller -> [pc: {"todo", "heap", "done"}, ins: Instance \union {None}, priority: Int]]
    /\ misses \in Nat /\ restarts \in Nat /\ misses + restarts <= MaxMishaps

LEMMA TypesArePlain == TypeOK <=> heap \in Heap /\ Plain
BY DEF TypeOK, Plain, RowType

LEMMA ReleaseTypes ==
  ASSUME Plain, NEW j \in Job, Release(j)
  PROVE  /\ slots' \in [Job -> Nat] /\ \A k \in Job : slots'[k] <= MaxConcurrency[k]
         /\ wake' \in BOOLEAN
         /\ slots'[j] = IF slots[j] <= 1 THEN 0 ELSE slots[j] - 1
         /\ \A k \in Job : k # j => slots'[k] = slots[k]
<1>1. slots \in [Job -> Nat] /\ \A k \in Job : slots[k] <= MaxConcurrency[k] /\ MaxConcurrency[k] \in Nat
  BY QueueAssumptions DEF Plain
<1>2. slots' = [slots EXCEPT ![j] = IF @ <= 1 THEN 0 ELSE @ - 1] /\ wake' = TRUE
  BY DEF Release
<1> QED BY <1>1, <1>2

LEMMA ReleaseHeldTypes ==
  ASSUME Plain, NEW i \in Instance, ReleaseHeld(i)
  PROVE  /\ slots' \in [Job -> Nat] /\ \A k \in Job : slots'[k] <= MaxConcurrency[k]
         /\ wake' \in BOOLEAN /\ held' = held \ {i}
         /\ i \notin held => slots' = slots
         /\ i \in held => Release(JobOf[i])
<1>1. JobOf[i] \in Job
  BY QueueAssumptions
<1>2. CASE i \in held
  BY <1>1, <1>2, ReleaseTypes DEF ReleaseHeld
<1>3. CASE i \notin held
  BY <1>3 DEF ReleaseHeld, Plain
<1> QED BY <1>2, <1>3

LEMMA NextTypes == TypeOK /\ HeapInv /\ Carried /\ [Next]_vars => TypeOK'
<1> SUFFICES ASSUME TypeOK, HeapInv, Carried, [Next]_vars  PROVE TypeOK'
  OBVIOUS
<1>1. Plain /\ JobOf \in [Instance -> Job] /\ MaxConcurrency \in [Job -> Nat \ {0}]
      /\ Priority \subseteq Int /\ Submitted \subseteq Int /\ MaxMishaps \in Nat
  BY TypesArePlain, QueueAssumptions
<1>2. Plain'
  <2>1. ASSUME NEW i \in Instance, NEW p \in Submitted, SubmitManual(i, p)  PROVE Plain'
    BY <1>1, <2>1 DEF SubmitManual, Plain, RowType
  <2>2. ASSUME NEW i \in Instance, PushPending(i)  PROVE Plain'
    <3>1. pqSeq' \in Nat
      BY <2>2, PushPendingMoves
    <3> QED BY <1>1, <2>2, <3>1 DEF PushPending, Plain, RowType
  <2>3. ASSUME NEW i \in Instance, NotifyWake(i)  PROVE Plain'
    BY <1>1, <2>3 DEF NotifyWake, Plain, RowType
  <2>4. CASE SleepWhenEmpty
    BY <1>1, <2>4 DEF SleepWhenEmpty, Plain, RowType
  <2>5. CASE WakeUp
    BY <1>1, <2>5 DEF WakeUp, Plain, RowType
  <2>6. CASE PopPending
    <3>1. disp'.cur \in Instance
      BY <2>6, PopPendingMoves, KeysType
    <3>2. disp' = [pc |-> "acquire", cur |-> disp'.cur]
      BY <2>6 DEF PopPending
    <3>3. disp' \in [pc: {"loop", "asleep", "acquire", "push", "rest"}, cur: Instance \union {None}]
      BY <3>1, <3>2
    <3> QED BY <1>1, <2>6, <3>3 DEF PopPending, Plain, RowType
  <2>7. CASE TryAcquire
    <3> DEFINE j == JobOf[disp.cur]
    <3>1. disp.cur \in Instance /\ j \in Job
      BY <1>1, <2>7, TryAcquireMoves
    <3>2. slots[j] < MaxConcurrency[j] /\ slots' = [slots EXCEPT ![j] = @ + 1]
      BY <2>7 DEF TryAcquire
    <3> HIDE DEF j
    <3>3. slots' \in [Job -> Nat] /\ \A k \in Job : slots'[k] <= MaxConcurrency[k]
      BY <1>1, <3>1, <3>2 DEF Plain
    <3>4. task' \in [Instance -> {"none", "dispatch", "requeue"}]
      BY <1>1, <2>7, <3>1 DEF TryAcquire, Plain
    <3> QED BY <1>1, <2>7, <3>3, <3>4 DEF TryAcquire, Plain, RowType
  <2>8. CASE Refresh
    BY <1>1, <2>8 DEF Refresh, Plain, RowType
  <2>9. CASE RePush
    BY <1>1, <2>9 DEF RePush, Plain, RowType
  <2>10. CASE Rest
    BY <1>1, <2>10 DEF Rest, Plain, RowType
  <2>11. ASSUME NEW i \in Instance, DispatchToWorker(i)  PROVE Plain'
    <3>1. slots' \in [Job -> Nat] /\ (\A k \in Job : slots'[k] <= MaxConcurrency[k]) /\ wake' \in BOOLEAN
      <4>1. CASE row[i].status = "ended"
        BY <1>1, <2>11, <4>1, ReleaseTypes DEF DispatchToWorker
      <4>2. CASE row[i].status # "ended"
        BY <1>1, <2>11, <4>2 DEF DispatchToWorker, Plain
      <4> QED BY <4>1, <4>2
    <3>2. RowType' /\ held' \subseteq Instance
      <4>1. CASE row[i].status = "ended"
        BY <1>1, <2>11, <4>1 DEF DispatchToWorker, Plain, RowType
      <4>2. CASE row[i].status # "ended"
        <5>1. row' = [row EXCEPT ![i].status = "active"] /\ held' = held \union {i}
          BY <2>11, <4>2 DEF DispatchToWorker
        <5> QED BY <1>1, <5>1 DEF Plain, RowType
      <4> QED BY <4>1, <4>2
    <3>3. task' \in [Instance -> {"none", "dispatch", "requeue"}]
      BY <1>1, <2>11 DEF DispatchToWorker, Plain
    <3> QED BY <1>1, <2>11, <3>1, <3>2, <3>3 DEF DispatchToWorker, Plain
  <2>12. ASSUME NEW i \in Instance, DispatchNoWorker(i)  PROVE Plain'
    <3>1. slots' \in [Job -> Nat] /\ (\A k \in Job : slots'[k] <= MaxConcurrency[k]) /\ wake' \in BOOLEAN
      BY <1>1, <2>12, ReleaseTypes DEF DispatchNoWorker
    <3>2. misses' \in Nat /\ misses' + restarts <= MaxMishaps
      BY <1>1, <2>12 DEF DispatchNoWorker, Plain
    <3>3. task' \in [Instance -> {"none", "dispatch", "requeue"}]
      BY <1>1, <2>12 DEF DispatchNoWorker, Plain
    <3> QED BY <1>1, <2>12, <3>1, <3>2, <3>3 DEF DispatchNoWorker, Plain, RowType
  <2>13. ASSUME NEW i \in Instance, RequeueAfterNoWorker(i)  PROVE Plain'
    BY <1>1, <2>13 DEF RequeueAfterNoWorker, Plain, RowType
  <2>14. ASSUME NEW i \in Instance, EndRow(i)  PROVE Plain'
    <3>1. /\ slots' \in [Job -> Nat] /\ \A k \in Job : slots'[k] <= MaxConcurrency[k]
          /\ wake' \in BOOLEAN /\ held' = held \ {i}
      BY <1>1, <2>14, ReleaseHeldTypes DEF EndRow
    <3>2. RowType'
      BY <1>1, <2>14 DEF EndRow, Plain, RowType
    <3> QED BY <1>1, <2>14, <3>1, <3>2 DEF EndRow, Plain
  <2>15. ASSUME NEW c \in Caller, NEW i \in Instance, NEW p \in Priority, UpdatePriority(c, i, p)
         PROVE  Plain'
    <3>1. RowType'
      BY <1>1, <2>15 DEF UpdatePriority, Plain, RowType
    <3>2. call' \in [Caller -> [pc: {"todo", "heap", "done"}, ins: Instance \union {None}, priority: Int]]
      BY <1>1, <2>15 DEF UpdatePriority, Plain
    <3> QED BY <1>1, <2>15, <3>1, <3>2 DEF UpdatePriority, Plain
  <2>16. ASSUME NEW c \in Caller, UpdateQueuedPriority(c)  PROVE Plain'
    BY <1>1, <2>16 DEF UpdateQueuedPriority, Plain, RowType
  <2>17. CASE Restart
    <3>1. pqSeq' \in Nat
      BY <2>17, RestartMoves
    <3>2. call' \in [Caller -> [pc: {"todo", "heap", "done"}, ins: Instance \union {None}, priority: Int]]
      BY <1>1, <2>17 DEF Restart, Plain
    <3>3. slots' \in [Job -> Nat] /\ \A k \in Job : slots'[k] <= MaxConcurrency[k]
      BY <1>1, <2>17 DEF Restart
    <3>4. restarts' \in Nat /\ misses' = misses /\ misses' + restarts' <= MaxMishaps
      BY <1>1, <2>17 DEF Restart, Plain
    <3>5. /\ timer' \in [Instance -> Int \union {None}] /\ notifying' = {} /\ wake' \in BOOLEAN
          /\ disp' \in [pc: {"loop", "asleep", "acquire", "push", "rest"}, cur: Instance \union {None}]
          /\ task' \in [Instance -> {"none", "dispatch", "requeue"}]
          /\ held' = {} /\ row' = row
      BY <2>17 DEF Restart
    <3> QED BY <1>1, <3>1, <3>2, <3>3, <3>4, <3>5 DEF Plain, RowType
  <2>18. CASE UNCHANGED vars
    BY <1>1, <2>18 DEF vars, Plain, RowType
  <2> QED BY <2>1, <2>2, <2>3, <2>4, <2>5, <2>6, <2>7, <2>8, <2>9, <2>10, <2>11, <2>12, <2>13,
             <2>14, <2>15, <2>16, <2>17, <2>18 DEF Next, Pusher, Task, Dispatcher
<1>3. heap' \in Heap
  BY NextHeapInv DEF HeapInv, Arranged
<1>4. TypeOK' <=> heap' \in Heap /\ Plain'
  BY DEF TypeOK, Plain, RowType
<1> QED BY <1>2, <1>3, <1>4

LEMMA NextCarried == TypeOK /\ HeapInv /\ Carried /\ [Next]_vars => Carried'
<1> SUFFICES ASSUME TypeOK, HeapInv, Carried, [Next]_vars  PROVE Carried'
  OBVIOUS
<1> USE DEF InQueue, InHand, OnTimer, AtWork
<1>1. Plain /\ None \notin Instance /\ Priority \subseteq Int /\ Submitted \subseteq Int
      /\ None \notin Submitted /\ None \notin Int
  BY TypesArePlain, QueueAssumptions
<1>2. ASSUME NEW i \in Instance, NEW p \in Submitted, SubmitManual(i, p)  PROVE Carried'
  <2>1. /\ row' = [row EXCEPT ![i] = [status |-> "queued", priority |-> p]] /\ row[i].status = "absent"
        /\ timer' = [timer EXCEPT ![i] = p] /\ p # None
        /\ heap' = heap /\ disp' = disp /\ task' = task /\ held' = held
    BY <1>1, <1>2 DEF SubmitManual
  <2> QED BY <1>1, <2>1 DEF Carried, Plain, RowType
<1>3. ASSUME NEW i \in Instance, PushPending(i)  PROVE Carried'
  <2>1. /\ timer' = [timer EXCEPT ![i] = None] /\ timer[i] # None
        /\ row' = row /\ disp' = disp /\ task' = task /\ held' = held
        /\ Keys(heap') = Keys(heap) \union {i}
    BY <1>3, PushPendingMoves DEF PushPending
  <2> QED BY <1>1, <2>1 DEF Carried, Plain
<1>4. CASE SleepWhenEmpty \/ WakeUp \/ Rest
  <2>1. /\ row' = row /\ heap' = heap /\ timer' = timer /\ task' = task /\ held' = held
        /\ disp.pc \notin {"acquire", "push"} /\ disp'.pc \notin {"acquire", "push"}
        /\ disp'.cur = disp.cur
    BY <1>1, <1>4 DEF SleepWhenEmpty, WakeUp, Rest, Plain
  <2> QED BY <2>1 DEF Carried
<1>5. CASE PopPending
  <2>1. /\ row' = row /\ timer' = timer /\ task' = task /\ held' = held
        /\ disp.pc = "loop" /\ disp'.pc = "acquire" /\ disp'.cur \in Keys(heap)
        /\ Keys(heap') = Keys(heap) \ {disp'.cur} /\ disp'.cur \in Instance
    BY <1>5, PopPendingMoves, KeysType DEF PopPending
  <2>2. disp.cur \notin Instance
    BY <2>1 DEF Carried
  <2> QED BY <2>1, <2>2 DEF Carried
<1>6. CASE TryAcquire
  <2>1. /\ row' = row /\ timer' = timer /\ held' = held /\ Keys(heap') = Keys(heap)
        /\ task' = [task EXCEPT ![disp.cur] = "dispatch"] /\ disp.cur \in Instance
        /\ disp' = [pc |-> "loop", cur |-> None]
    BY <1>6, TryAcquireMoves DEF TryAcquire
  <2> QED BY <1>1, <2>1 DEF Carried, Plain
<1>7. CASE Refresh
  <2>1. /\ row' = row /\ timer' = timer /\ held' = held /\ task' = task /\ Keys(heap') = Keys(heap)
        /\ disp.cur \in Instance
    BY <1>7, RefreshMoves DEF Refresh
  <2>2. \/ row[disp.cur].status = "ended" /\ disp' = [pc |-> "rest", cur |-> None]
        \/ disp'.pc = "push" /\ disp'.cur = disp.cur
    BY <1>1, <1>7 DEF Refresh, Plain
  <2> QED BY <1>1, <2>1, <2>2 DEF Carried
<1>8. CASE RePush
  <2>1. /\ row' = row /\ timer' = timer /\ held' = held /\ task' = task
        /\ Keys(heap') = Keys(heap) \union {disp.cur} /\ disp.cur \in Instance
        /\ disp' = [pc |-> "rest", cur |-> None]
    BY <1>8, RePushMoves DEF RePush
  <2> QED BY <1>1, <2>1 DEF Carried
<1>9. ASSUME NEW i \in Instance, DispatchToWorker(i)  PROVE Carried'
  <2>1. /\ task[i] = "dispatch" /\ task' = [task EXCEPT ![i] = "none"]
        /\ heap' = heap /\ timer' = timer /\ disp' = disp
    BY <1>9 DEF DispatchToWorker
  <2>2. CASE row[i].status = "ended"
    <3>1. row' = row /\ held' = held
      BY <1>9, <2>2 DEF DispatchToWorker
    <3> QED BY <1>1, <2>1, <2>2, <3>1 DEF Carried, Plain
  <2>3. CASE row[i].status # "ended"
    <3>1. row' = [row EXCEPT ![i].status = "active"] /\ held' = held \union {i}
      BY <1>9, <2>3 DEF DispatchToWorker
    <3>2. /\ row'[i].status = "active" /\ task'[i] = "none"
          /\ \A k \in Instance : k # i => row'[k] = row[k] /\ task'[k] = task[k]
      BY <1>1, <2>1, <3>1 DEF Plain, RowType
    <3> QED BY <2>1, <3>1, <3>2 DEF Carried
  <2> QED BY <2>2, <2>3
<1>10. ASSUME NEW i \in Instance, DispatchNoWorker(i) \/ RequeueAfterNoWorker(i)  PROVE Carried'
  <2>1. row' = row /\ heap' = heap /\ disp' = disp /\ held' = held
    BY <1>10 DEF DispatchNoWorker, RequeueAfterNoWorker
  <2>2. CASE DispatchNoWorker(i)
    <3>1. task[i] = "dispatch" /\ task' = [task EXCEPT ![i] = "requeue"] /\ timer' = timer
      BY <2>2 DEF DispatchNoWorker
    <3> QED BY <1>1, <2>1, <3>1 DEF Carried, Plain
  <2>3. CASE RequeueAfterNoWorker(i)
    <3>1. /\ task[i] = "requeue" /\ task' = [task EXCEPT ![i] = "none"]
          /\ row[i].status = "ended" => timer' = timer
          /\ row[i].status # "ended" => timer' = [timer EXCEPT ![i] = row[i].priority]
          /\ row[i].priority \in Int
      BY <1>1, <2>3 DEF RequeueAfterNoWorker, Plain, RowType
    <3>2. CASE row[i].status = "ended"
      BY <1>1, <2>1, <3>1, <3>2 DEF Carried, Plain
    <3>3. CASE row[i].status # "ended"
      <4>1. row[i].status = "queued"
        BY <1>1, <3>1, <3>3 DEF Carried, Plain, RowType
      <4>2. timer' = [timer EXCEPT ![i] = row[i].priority] /\ row[i].priority # None
        BY <1>1, <3>1, <3>3
      <4>3. /\ timer'[i] # None /\ task'[i] = "none"
            /\ \A k \in Instance : k # i => timer'[k] = timer[k] /\ task'[k] = task[k]
        BY <1>1, <3>1, <4>2 DEF Plain
      <4> QED BY <2>1, <3>1, <4>1, <4>3 DEF Carried
    <3> QED BY <3>2, <3>3
  <2> QED BY <1>10, <2>2, <2>3
<1>11. ASSUME NEW i \in Instance, EndRow(i)  PROVE Carried'
  <2>1. /\ heap' = heap /\ timer' = timer /\ disp' = disp /\ task' = task
        /\ row' = [row EXCEPT ![i].status = "ended"] /\ held' = held \ {i}
    BY <1>11 DEF EndRow, ReleaseHeld
  <2>2. row'[i].status = "ended" /\ \A k \in Instance : k # i => row'[k] = row[k]
    BY <1>1, <2>1 DEF Plain, RowType
  <2> QED BY <2>1, <2>2 DEF Carried
<1>12. ASSUME NEW c \in Caller, NEW i \in Instance, NEW p \in Priority, UpdatePriority(c, i, p)
       PROVE  Carried'
  <2>1. /\ heap' = heap /\ timer' = timer /\ disp' = disp /\ task' = task /\ held' = held
        /\ row' = [row EXCEPT ![i].priority = p]
    BY <1>12 DEF UpdatePriority
  <2>2. \A k \in Instance : row'[k].status = row[k].status
    BY <1>1, <2>1 DEF Plain, RowType
  <2> QED BY <2>1, <2>2 DEF Carried
<1>13. ASSUME NEW c \in Caller, UpdateQueuedPriority(c)  PROVE Carried'
  <2>1. /\ Keys(heap') = Keys(heap)
        /\ row' = row /\ timer' = timer /\ disp' = disp /\ task' = task /\ held' = held
    BY <1>13, UpdateQueuedPriorityMoves DEF UpdateQueuedPriority
  <2> QED BY <2>1 DEF Carried
<1>14. CASE Restart
  <2>1. /\ Keys(heap') = Queued /\ row' = row /\ held' = {}
        /\ timer' = [i \in Instance |-> None] /\ task' = [i \in Instance |-> "none"]
        /\ disp' = [pc |-> "loop", cur |-> None]
    BY <1>14, RestartMoves DEF Restart
  <2> QED BY <1>1, <2>1 DEF Carried, Queued
<1>15. CASE UNCHANGED <<row, heap, timer, disp, task, held>>
  BY <1>15 DEF Carried
<1>16. \A i \in Instance : NotifyWake(i) => UNCHANGED <<row, heap, timer, disp, task, held>>
  BY DEF NotifyWake
<1>17. UNCHANGED vars => UNCHANGED <<row, heap, timer, disp, task, held>>
  BY DEF vars
<1> QED BY <1>2, <1>3, <1>4, <1>5, <1>6, <1>7, <1>8, <1>9, <1>10, <1>11, <1>12, <1>13, <1>14,
           <1>15, <1>16, <1>17 DEF Next, Pusher, Task, Dispatcher

\* Steps that give no new number.
LEMMA NumbersKept ==
  ASSUME Numbered, pqSeq' = pqSeq,
         \A i \in Instance : Waiting(i)' => Waiting(i) /\ heap'.item[i].seq = heap.item[i].seq
  PROVE  Numbered'
BY DEF Numbered

LEMMA NextNumbered ==
  TypeOK /\ HeapInv /\ Numbered /\ Carried /\ [Next]_vars => Numbered'
<1> SUFFICES ASSUME TypeOK, HeapInv, Numbered, Carried, [Next]_vars  PROVE Numbered'
  OBVIOUS
<1>1. None \notin Instance /\ Keys(heap) \subseteq Instance /\ pqSeq \in Nat
      /\ \A i \in Instance : heap.item[i].seq \in Nat
  BY KeysType, HeapPlaces, QueueAssumptions DEF TypeOK, Item
<1>2. ASSUME NEW i \in Instance, PushPending(i)  PROVE Numbered'
  <2>1. /\ Keys(heap') = Keys(heap) \union {i} /\ pqSeq' = pqSeq + 1 /\ disp' = disp
        /\ heap'.item[i].seq = pqSeq + 1
    BY <1>2, PushPendingMoves DEF PushPending
  <2>2. \A k \in Instance : k # i => heap'.item[k].seq = heap.item[k].seq
    BY <1>2, PushPendingMoves DEF SameBut
  <2>3. \A k \in Instance : k # i => Waiting(k)' = Waiting(k)
    BY <2>1 DEF Waiting
  <2>4. \A k \in Instance : k # i /\ Waiting(k) => heap.item[k].seq <= pqSeq
    BY DEF Numbered
  <2>5. \A k, m \in Instance : k # i /\ m # i /\ k # m /\ Waiting(k) /\ Waiting(m) =>
           heap.item[k].seq # heap.item[m].seq
    BY DEF Numbered
  <2>6. ASSUME NEW k \in Instance, Waiting(k)'  PROVE heap'.item[k].seq <= pqSeq'
    BY <1>1, <2>1, <2>2, <2>3, <2>4, <2>6
  <2>7. ASSUME NEW k \in Instance, NEW m \in Instance, Waiting(k)', Waiting(m)', k # m
        PROVE  heap'.item[k].seq # heap'.item[m].seq
    <3>1. CASE k # i /\ m # i
      BY <2>2, <2>3, <2>5, <2>7, <3>1
    <3>2. CASE k = i
      <4>1. heap'.item[m].seq <= pqSeq /\ heap'.item[m].seq \in Nat
        BY <1>1, <2>2, <2>3, <2>4, <2>7, <3>2
      <4> QED BY <1>1, <2>1, <3>2, <4>1
    <3>3. CASE m = i
      <4>1. heap'.item[k].seq <= pqSeq /\ heap'.item[k].seq \in Nat
        BY <1>1, <2>2, <2>3, <2>4, <2>7, <3>3
      <4> QED BY <1>1, <2>1, <3>3, <4>1
    <3> QED BY <3>1, <3>2, <3>3
  <2> QED BY <2>6, <2>7 DEF Numbered
<1>3. CASE PopPending
  <2>1. /\ disp'.cur \in Keys(heap) /\ Keys(heap') = Keys(heap) \ {disp'.cur}
        /\ SameBut(heap, heap', None) /\ pqSeq' = pqSeq
    BY <1>3, PopPendingMoves DEF PopPending
  <2>2. \A i \in Instance : Waiting(i)' => Waiting(i) /\ heap'.item[i].seq = heap.item[i].seq
    BY <1>1, <2>1 DEF Waiting, SameBut
  <2> QED BY <2>1, <2>2, NumbersKept
<1>4. CASE TryAcquire
  <2>1. /\ disp.cur \notin Keys(heap) /\ disp'.cur = None /\ Keys(heap') = Keys(heap)
        /\ SameBut(heap, heap', disp.cur) /\ pqSeq' = pqSeq
    BY <1>4, TryAcquireMoves DEF TryAcquire
  <2>2. \A i \in Instance : Waiting(i)' => Waiting(i) /\ heap'.item[i].seq = heap.item[i].seq
    BY <1>1, <2>1 DEF Waiting, SameBut
  <2> QED BY <2>1, <2>2, NumbersKept
<1>5. CASE Refresh
  <2>1. /\ disp.cur \notin Keys(heap) /\ Keys(heap') = Keys(heap)
        /\ SameBut(heap, heap', disp.cur) /\ pqSeq' = pqSeq
        /\ disp'.cur # None => disp'.cur = disp.cur /\ heap'.item[disp.cur].seq = heap.item[disp.cur].seq
    BY <1>5, RefreshMoves DEF Refresh
  <2>2. \A i \in Instance : Waiting(i)' => Waiting(i) /\ heap'.item[i].seq = heap.item[i].seq
    BY <1>1, <2>1 DEF Waiting, SameBut
  <2> QED BY <2>1, <2>2, NumbersKept
<1>6. CASE RePush
  <2>1. /\ disp'.cur = None /\ Keys(heap') = Keys(heap) \union {disp.cur}
        /\ SameBut(heap, heap', None) /\ pqSeq' = pqSeq
    BY <1>6, RePushMoves DEF RePush
  <2>2. \A i \in Instance : Waiting(i)' => Waiting(i) /\ heap'.item[i].seq = heap.item[i].seq
    BY <1>1, <2>1 DEF Waiting, SameBut
  <2> QED BY <2>1, <2>2, NumbersKept
<1>7. ASSUME NEW c \in Caller, UpdateQueuedPriority(c)  PROVE Numbered'
  <2> DEFINE x == call[c].ins
  <2>1. /\ disp' = disp /\ Keys(heap') = Keys(heap) /\ SameBut(heap, heap', x) /\ pqSeq' = pqSeq
        /\ x \in Keys(heap) => heap'.item[x].seq = heap.item[x].seq
        /\ x \notin Keys(heap) => heap' = heap
    BY <1>7, UpdateQueuedPriorityMoves DEF UpdateQueuedPriority
  <2> HIDE DEF x
  <2>2. \A i \in Instance : heap'.item[i].seq = heap.item[i].seq
    BY <2>1 DEF SameBut
  <2>3. \A i \in Instance : Waiting(i)' => Waiting(i) /\ heap'.item[i].seq = heap.item[i].seq
    BY <2>1, <2>2 DEF Waiting
  <2> QED BY <2>1, <2>3, NumbersKept
<1>8. CASE Restart
  <2> DEFINE N == Cardinality(Queued)
  <2>1. /\ Keys(heap') = Queued /\ disp'.cur = None /\ pqSeq' = N /\ N \in Nat /\ RowType
        /\ \A n \in 1 .. N : heap'.item[RecoveryOrder[n]].seq = n
    BY <1>8, RestartMoves DEF Restart
  <2>2. \A i \in Queued : \E n \in 1 .. N : RecoveryOrder[n] = i
    BY <2>1, RecoveryOrderLists
  <2> HIDE DEF N
  <2>3. \A i \in Instance : Waiting(i)' => i \in Queued
    BY <1>1, <2>1 DEF Waiting
  <2>4. ASSUME NEW i \in Queued
        PROVE  heap'.item[i].seq \in 1 .. N /\ RecoveryOrder[heap'.item[i].seq] = i
    BY <2>1, <2>2
  <2>5. ASSUME NEW i \in Queued  PROVE heap'.item[i].seq <= N
    BY <2>1, <2>4
  <2>6. ASSUME NEW i \in Queued, NEW k \in Queued, i # k  PROVE heap'.item[i].seq # heap'.item[k].seq
    BY <2>4, <2>6
  <2> QED BY <2>1, <2>3, <2>5, <2>6 DEF Numbered
<1>9. CASE heap' = heap /\ pqSeq' = pqSeq /\ disp'.cur = disp.cur
  BY <1>9, NumbersKept DEF Waiting
<1>10. SleepWhenEmpty \/ WakeUp \/ Rest => heap' = heap /\ pqSeq' = pqSeq /\ disp'.cur = disp.cur
  BY DEF SleepWhenEmpty, WakeUp, Rest, TypeOK
<1>11. ASSUME NEW i \in Instance,
              (\E p \in Submitted : SubmitManual(i, p)) \/ NotifyWake(i) \/ Task(i) \/ EndRow(i)
       PROVE  heap' = heap /\ pqSeq' = pqSeq /\ disp'.cur = disp.cur
  BY <1>11 DEF SubmitManual, NotifyWake, Task, DispatchToWorker, DispatchNoWorker,
               RequeueAfterNoWorker, EndRow
<1>12. \A c \in Caller, i \in Instance, p \in Priority :
          UpdatePriority(c, i, p) => heap' = heap /\ pqSeq' = pqSeq /\ disp'.cur = disp.cur
  BY DEF UpdatePriority
<1>13. UNCHANGED vars => heap' = heap /\ pqSeq' = pqSeq /\ disp'.cur = disp.cur
  BY DEF vars
<1> QED BY <1>2, <1>3, <1>4, <1>5, <1>6, <1>7, <1>8, <1>9, <1>10, <1>11, <1>12, <1>13
        DEF Next, Pusher, Dispatcher

(***************************************************************************)
(* Slots                                                                   *)
(***************************************************************************)

Holds(i) == i \in held \/ task[i] = "dispatch"

Holders(j) == {i \in Instance : JobOf[i] = j /\ Holds(i)}

LEMMA HoldersCount == SlotsHeld <=> \A j \in Job : slots[j] = Cardinality(Holders(j))
BY DEF SlotsHeld, Holders, Holds

LEMMA HoldersFinite ==
  \A j : IsFiniteSet(Holders(j)) /\ Cardinality(Holders(j)) \in Nat
<1> TAKE j
<1>1. Holders(j) \in SUBSET Instance
  BY DEF Holders
<1> QED BY <1>1, QueueAssumptions, FS_Subset, FS_CardinalityType

LEMMA SlotsKept ==
  ASSUME SlotsHeld, slots' = slots, \A i \in Instance : Holds(i)' <=> Holds(i)
  PROVE  SlotsHeld'
<1>1. \A j \in Job : Holders(j)' = Holders(j)
  BY DEF Holders
<1>2. SlotsHeld' <=> \A j \in Job : slots'[j] = Cardinality(Holders(j)')
  BY DEF SlotsHeld, Holders, Holds
<1> QED BY <1>1, <1>2, HoldersCount

LEMMA SlotTaken ==
  ASSUME SlotsHeld, Plain, NEW x \in Instance, ~Holds(x),
         slots' = [slots EXCEPT ![JobOf[x]] = @ + 1],
         \A i \in Instance : Holds(i)' <=> Holds(i) \/ i = x
  PROVE  SlotsHeld'
<1> DEFINE j == JobOf[x]
<1>1. j \in Job /\ slots \in [Job -> Nat]
  BY QueueAssumptions DEF Plain
<1>2. Holders(j)' = Holders(j) \union {x} /\ x \notin Holders(j)
      /\ \A k \in Job : k # j => Holders(k)' = Holders(k)
  BY DEF Holders
<1>3. Cardinality(Holders(j) \union {x}) = Cardinality(Holders(j)) + 1
  BY <1>2, HoldersFinite, FS_AddElement
<1>4. SlotsHeld' <=> \A k \in Job : slots'[k] = Cardinality(Holders(k)')
  BY DEF SlotsHeld, Holders, Holds
<1> HIDE DEF j
<1>5. slots'[j] = slots[j] + 1 /\ \A k \in Job : k # j => slots'[k] = slots[k]
  BY <1>1 DEF j
<1> QED BY <1>1, <1>2, <1>3, <1>4, <1>5, HoldersCount

LEMMA SlotFreed ==
  ASSUME SlotsHeld, Plain, NEW x \in Instance, Holds(x), Release(JobOf[x]),
         \A i \in Instance : Holds(i)' <=> Holds(i) /\ i # x
  PROVE  SlotsHeld'
<1> DEFINE j == JobOf[x]
<1>1. j \in Job /\ slots \in [Job -> Nat]
  BY QueueAssumptions DEF Plain
<1>2. Holders(j)' = Holders(j) \ {x} /\ x \in Holders(j)
      /\ \A k \in Job : k # j => Holders(k)' = Holders(k)
  BY DEF Holders
<1>3. Cardinality(Holders(j) \ {x}) = Cardinality(Holders(j)) - 1
  BY <1>2, HoldersFinite, FS_RemoveElement
<1>4. SlotsHeld' <=> \A k \in Job : slots'[k] = Cardinality(Holders(k)')
  BY DEF SlotsHeld, Holders, Holds
<1> HIDE DEF j
<1>5. /\ slots'[j] = IF slots[j] <= 1 THEN 0 ELSE slots[j] - 1
      /\ \A k \in Job : k # j => slots'[k] = slots[k]
  BY <1>1, ReleaseTypes DEF j
<1>6. Cardinality(Holders(j)) # 0
  BY <1>2, HoldersFinite, FS_EmptySet
<1>7. slots[j] = Cardinality(Holders(j)) /\ Cardinality(Holders(j)) \in Nat
  BY <1>1, HoldersCount, HoldersFinite
<1>8. slots'[j] = slots[j] - 1
  BY <1>5, <1>6, <1>7
<1> QED BY <1>1, <1>2, <1>3, <1>4, <1>5, <1>7, <1>8, HoldersCount

LEMMA NextSlotsHeld ==
  TypeOK /\ HeapInv /\ Carried /\ SlotsHeld /\ [Next]_vars => SlotsHeld'
<1> SUFFICES ASSUME TypeOK, HeapInv, Carried, SlotsHeld, [Next]_vars  PROVE SlotsHeld'
  OBVIOUS
<1>1. Plain
  BY TypesArePlain
<1>2. CASE TryAcquire
  <2> DEFINE x == disp.cur
  <2>1. /\ x \in Instance /\ slots' = [slots EXCEPT ![JobOf[x]] = @ + 1]
        /\ task' = [task EXCEPT ![x] = "dispatch"] /\ held' = held
    BY <1>2, TryAcquireMoves DEF TryAcquire
  <2>2. row[x].status # "active" /\ task[x] = "none" /\ x \notin held
    BY <2>1 DEF Carried, InHand, AtWork
  <2> HIDE DEF x
  <2>3. ~Holds(x) /\ \A i \in Instance : Holds(i)' <=> Holds(i) \/ i = x
    BY <1>1, <2>1, <2>2 DEF Holds, Plain
  <2> QED BY <1>1, <2>1, <2>3, SlotTaken
<1>3. ASSUME NEW i \in Instance, DispatchToWorker(i)  PROVE SlotsHeld'
  <2>1. task[i] = "dispatch" /\ task' = [task EXCEPT ![i] = "none"] /\ i \notin held /\ Holds(i)
    BY <1>3 DEF DispatchToWorker, Carried, AtWork, Holds
  <2>2. CASE row[i].status = "ended"
    <3>1. Release(JobOf[i]) /\ held' = held
      BY <1>3, <2>2 DEF DispatchToWorker
    <3>2. \A k \in Instance : Holds(k)' <=> Holds(k) /\ k # i
      BY <1>1, <2>1, <3>1 DEF Holds, Plain
    <3> QED BY <1>1, <2>1, <3>1, <3>2, SlotFreed
  <2>3. CASE row[i].status # "ended"
    <3>1. slots' = slots /\ held' = held \union {i}
      BY <1>3, <2>3 DEF DispatchToWorker
    <3>2. \A k \in Instance : Holds(k)' <=> Holds(k)
      BY <1>1, <2>1, <3>1 DEF Holds, Plain
    <3> QED BY <3>1, <3>2, SlotsKept
  <2> QED BY <2>2, <2>3
<1>4. ASSUME NEW i \in Instance, DispatchNoWorker(i)  PROVE SlotsHeld'
  <2>1. /\ task[i] = "dispatch" /\ task' = [task EXCEPT ![i] = "requeue"] /\ Holds(i)
        /\ i \notin held /\ held' = held /\ Release(JobOf[i])
    BY <1>4 DEF DispatchNoWorker, Carried, AtWork, Holds
  <2>2. \A k \in Instance : Holds(k)' <=> Holds(k) /\ k # i
    BY <1>1, <2>1 DEF Holds, Plain
  <2> QED BY <1>1, <2>1, <2>2, SlotFreed
<1>5. ASSUME NEW i \in Instance, RequeueAfterNoWorker(i)  PROVE SlotsHeld'
  <2>1. /\ task[i] = "requeue" /\ task' = [task EXCEPT ![i] = "none"]
        /\ held' = held /\ slots' = slots
    BY <1>5 DEF RequeueAfterNoWorker
  <2>2. \A k \in Instance : Holds(k)' <=> Holds(k)
    BY <1>1, <2>1 DEF Holds, Plain
  <2> QED BY <2>1, <2>2, SlotsKept
<1>6. ASSUME NEW i \in Instance, EndRow(i)  PROVE SlotsHeld'
  <2>1. task' = task /\ held' = held \ {i}
    BY <1>6 DEF EndRow, ReleaseHeld
  <2>2. CASE i \in held
    <3>1. Release(JobOf[i]) /\ Holds(i)
      BY <1>6, <2>2 DEF EndRow, ReleaseHeld, Holds
    <3>2. task[i] # "dispatch"
      BY <2>2 DEF Carried, AtWork
    <3>3. \A k \in Instance : Holds(k)' <=> Holds(k) /\ k # i
      BY <2>1, <3>2 DEF Holds
    <3> QED BY <1>1, <3>1, <3>3, SlotFreed
  <2>3. CASE i \notin held
    <3>1. slots' = slots
      BY <1>6, <2>3 DEF EndRow, ReleaseHeld
    <3>2. \A k \in Instance : Holds(k)' <=> Holds(k)
      BY <2>1, <2>3 DEF Holds
    <3> QED BY <3>1, <3>2, SlotsKept
  <2> QED BY <2>2, <2>3
<1>7. CASE Restart
  <2>1. slots' = [j \in Job |-> 0] /\ held' = {} /\ task' = [i \in Instance |-> "none"]
    BY <1>7 DEF Restart
  <2>2. \A j \in Job : Holders(j)' = {}
    BY <2>1 DEF Holders, Holds
  <2>3. SlotsHeld' <=> \A k \in Job : slots'[k] = Cardinality(Holders(k)')
    BY DEF SlotsHeld, Holders, Holds
  <2> QED BY <2>1, <2>2, <2>3, FS_EmptySet
<1>8. CASE slots' = slots /\ held' = held /\ task' = task
  BY <1>8, SlotsKept DEF Holds
<1>9. ASSUME NEW i \in Instance,
             (\E p \in Submitted : SubmitManual(i, p)) \/ PushPending(i) \/ NotifyWake(i)
      PROVE  slots' = slots /\ held' = held /\ task' = task
  BY <1>9 DEF SubmitManual, PushPending, NotifyWake
<1>10. SleepWhenEmpty \/ WakeUp \/ PopPending \/ Refresh \/ RePush \/ Rest =>
          slots' = slots /\ held' = held /\ task' = task
  BY DEF SleepWhenEmpty, WakeUp, PopPending, Refresh, RePush, Rest
<1>11. \A c \in Caller : UpdateQueuedPriority(c) \/ (\E i \in Instance, p \in Priority : UpdatePriority(c, i, p))
          => slots' = slots /\ held' = held /\ task' = task
  BY DEF UpdatePriority, UpdateQueuedPriority
<1>12. UNCHANGED vars => slots' = slots /\ held' = held /\ task' = task
  BY DEF vars
<1> QED BY <1>2, <1>3, <1>4, <1>5, <1>6, <1>7, <1>8, <1>9, <1>10, <1>11, <1>12
        DEF Next, Pusher, Task, Dispatcher

(***************************************************************************)
(* The sleeping dispatcher                                                 *)
(***************************************************************************)

LEMMA EmptyKeys ==
  ASSUME NEW h \in Heap
  PROVE  h.pq = << >> <=> Keys(h) = {}
<1>1. Len(h.pq) \in Nat /\ DOMAIN h.pq = 1 .. Len(h.pq) /\ h.pq \in Seq(Instance)
  BY DEF Heap
<1>2. Len(h.pq) = 0 <=> h.pq = << >>
  BY <1>1
<1>3. Len(h.pq) = 0 <=> Keys(h) = {}
  <2> DEFINE L == Len(h.pq)
  <2> HIDE DEF L
  <2>1. L \in Nat /\ DOMAIN h.pq = 1 .. L
    BY <1>1 DEF L
  <2>2. L # 0 => 1 \in DOMAIN h.pq
    BY <2>1
  <2>3. L = 0 => DOMAIN h.pq = {}
    BY <2>1
  <2>4. DOMAIN h.pq = {} <=> Keys(h) = {}
    BY DEF Keys
  <2> QED BY <2>2, <2>3, <2>4 DEF L
<1> QED BY <1>2, <1>3

LEMMA NextNoLostWakeup ==
  TypeOK /\ HeapInv /\ Carried /\ NoLostWakeup /\ [Next]_vars => NoLostWakeup'
<1> SUFFICES ASSUME TypeOK, HeapInv, Carried, NoLostWakeup, [Next]_vars  PROVE NoLostWakeup'
  OBVIOUS
<1>1. \A i \in Instance : PushPending(i) => NoLostWakeup'
  BY DEF PushPending, NoLostWakeup
<1>2. \A i \in Instance : NotifyWake(i) => NoLostWakeup'
  BY DEF NotifyWake, NoLostWakeup
<1>3. SleepWhenEmpty => NoLostWakeup'
  BY DEF SleepWhenEmpty, NoLostWakeup
<1>4. WakeUp \/ PopPending \/ TryAcquire \/ Refresh \/ RePush \/ Rest \/ Restart => disp'.pc # "asleep"
  <2>1. disp \in [pc: {"loop", "asleep", "acquire", "push", "rest"}, cur: Instance \union {None}]
    BY DEF TypeOK
  <2>2. [disp EXCEPT !.pc = "push"].pc = "push" /\ [disp EXCEPT !.pc = "loop"].pc = "loop"
    BY <2>1
  <2>3. Refresh => disp'.pc = "rest" \/ disp'.pc = "push"
    <3>1. Refresh => disp' = [pc |-> "rest", cur |-> None] \/ disp' = [disp EXCEPT !.pc = "push"]
      BY DEF Refresh
    <3>2. disp' = [pc |-> "rest", cur |-> None] => disp'.pc = "rest"
      OBVIOUS
    <3>3. disp' = [disp EXCEPT !.pc = "push"] => disp'.pc = "push"
      BY <2>2
    <3> QED BY <3>1, <3>2, <3>3
  <2>4. WakeUp \/ Rest => disp'.pc = "loop"
    BY <2>2 DEF WakeUp, Rest
  <2>5. PopPending => disp'.pc = "acquire"
    BY DEF PopPending
  <2>6. TryAcquire \/ Restart => disp'.pc = "loop"
    BY DEF TryAcquire, Restart
  <2>7. RePush => disp'.pc = "rest"
    BY DEF RePush
  <2> QED BY <2>3, <2>4, <2>5, <2>6, <2>7
<1>5. ASSUME NEW c \in Caller, UpdateQueuedPriority(c)  PROVE NoLostWakeup'
  <2>1. Keys(heap') = Keys(heap) /\ disp' = disp /\ wake' = wake /\ notifying' = notifying
        /\ heap \in Heap /\ heap' \in Heap
    BY <1>5, UpdateQueuedPriorityMoves DEF UpdateQueuedPriority, HeapInv, Arranged
  <2>2. heap'.pq = << >> <=> heap.pq = << >>
    BY <2>1, EmptyKeys
  <2> QED BY <2>1, <2>2 DEF NoLostWakeup
<1>6. CASE heap' = heap /\ disp' = disp /\ notifying' = notifying /\ (wake' = TRUE \/ wake' = wake)
  BY <1>6 DEF NoLostWakeup
<1>7. ASSUME NEW i \in Instance,
             (\E p \in Submitted : SubmitManual(i, p)) \/ Task(i) \/ EndRow(i)
      PROVE  heap' = heap /\ disp' = disp /\ notifying' = notifying /\ (wake' = TRUE \/ wake' = wake)
  BY <1>7 DEF SubmitManual, Task, DispatchToWorker, DispatchNoWorker, RequeueAfterNoWorker, EndRow,
              Release, ReleaseHeld
<1>8. \A c \in Caller, i \in Instance, p \in Priority : UpdatePriority(c, i, p) =>
         heap' = heap /\ disp' = disp /\ notifying' = notifying /\ wake' = wake
  BY DEF UpdatePriority
<1>9. UNCHANGED vars => heap' = heap /\ disp' = disp /\ notifying' = notifying /\ wake' = wake
  BY DEF vars
<1>10. disp'.pc # "asleep" => NoLostWakeup'
  BY DEF NoLostWakeup
<1> QED BY <1>1, <1>2, <1>3, <1>4, <1>5, <1>6, <1>7, <1>8, <1>9, <1>10
        DEF Next, Pusher, Dispatcher

(***************************************************************************)
(* The theorems                                                            *)
(***************************************************************************)

LEMMA InitQueueInv == Init => QueueInv
<1> SUFFICES ASSUME Init  PROVE QueueInv
  OBVIOUS
<1>1. None \notin Instance /\ None \notin Int /\ MaxConcurrency \in [Job -> Nat \ {0}] /\ MaxMishaps \in Nat
  BY QueueAssumptions
<1>2. heap = EmptyHeap /\ Keys(heap) = {} /\ HeapInv /\ heap \in Heap
  BY EmptyHeapArranged DEF Init, HeapInv, Arranged
<1>3. TypeOK
  <2>1. RowType
    BY DEF Init, RowType
  <2>2. slots \in [Job -> Nat] /\ \A j \in Job : slots[j] <= MaxConcurrency[j]
    BY <1>1 DEF Init
  <2>3. misses \in Nat /\ restarts \in Nat /\ misses + restarts <= MaxMishaps
    BY <1>1 DEF Init
  <2>4. call \in [Caller -> [pc: {"todo", "heap", "done"}, ins: Instance \union {None}, priority: Int]]
    BY DEF Init
  <2>5. /\ pqSeq \in Nat /\ timer \in [Instance -> Int \union {None}] /\ notifying \subseteq Instance
        /\ wake \in BOOLEAN /\ held \subseteq Instance
        /\ disp \in [pc: {"loop", "asleep", "acquire", "push", "rest"}, cur: Instance \union {None}]
        /\ task \in [Instance -> {"none", "dispatch", "requeue"}]
    BY DEF Init
  <2>6. Plain
    BY <2>1, <2>2, <2>3, <2>4, <2>5 DEF Plain
  <2> QED BY <1>2, <2>6, TypesArePlain
<1>4. Carried
  BY <1>1, <1>2 DEF Init, Carried, OnTimer, InQueue, InHand, AtWork
<1>5. Numbered
  BY <1>1, <1>2 DEF Init, Numbered, Waiting
<1>6. SlotsHeld
  <2>1. \A j \in Job : Holders(j) = {}
    BY DEF Holders, Holds, Init
  <2>2. \A j \in Job : slots[j] = 0
    BY DEF Init
  <2> QED BY <2>1, <2>2, HoldersCount, FS_EmptySet
<1>7. NoLostWakeup
  BY DEF Init, NoLostWakeup
<1> QED BY <1>2, <1>3, <1>4, <1>5, <1>6, <1>7 DEF QueueInv

LEMMA QueueInvariant == Spec => []QueueInv
<1>1. QueueInv /\ [Next]_vars => QueueInv'
  BY NextTypes, NextHeapInv, NextNumbered, NextCarried, NextSlotsHeld, NextNoLostWakeup DEF QueueInv
<1> QED BY <1>1, InitQueueInv, PTL DEF Spec

\* Every variable keeps its type and no job has more slots taken than its
\* max_concurrency, whatever TryAcquire, Release and a restart do.
THEOREM QueueTypeCorrect == Spec => []TypeOK
<1>1. QueueInv => TypeOK
  BY DEF QueueInv
<1> QED BY <1>1, QueueInvariant, PTL

\* pqIndex knows exactly the rows in pq and every item knows its place, after
\* any pushes, pops, refused items, new priorities and rebuilds.
THEOREM QueueIndexExact == Spec => []IndexExact
<1>1. QueueInv => IndexExact
  BY DEF QueueInv, HeapInv, Arranged, Exact, IndexExact, InHeap, Keys
<1> QED BY <1>1, QueueInvariant, PTL

\* A queued row is in one place of the process: in a delayed push, in pq, in
\* the hands of the dispatcher or with its goroutine.
THEOREM QueueOneCarrier == Spec => []OneCarrier
<1>1. QueueInv => OneCarrier
  <2> SUFFICES ASSUME Carried, NEW i \in Instance
               PROVE  Cardinality(Carriers(i)) <= 1 /\ (row[i].status = "queued" => Carriers(i) # {})
    BY DEF QueueInv, OneCarrier
  <2>1. InHeap = Keys(heap)
    BY DEF InHeap, Keys
  <2>2. Carriers(i) = {} \/ \E x : Carriers(i) = {x}
    <3>1. CASE OnTimer(i)
      <4>1. Carriers(i) = {"timer"}
        BY <2>1, <3>1 DEF Carried, Carriers, OnTimer, InQueue, InHand, AtWork
      <4> QED BY <4>1
    <3>2. CASE InQueue(i)
      <4>1. Carriers(i) = {"heap"}
        BY <2>1, <3>2 DEF Carried, Carriers, OnTimer, InQueue, InHand, AtWork
      <4> QED BY <4>1
    <3>3. CASE InHand(i)
      <4>1. Carriers(i) = {"dispatcher"}
        BY <2>1, <3>3 DEF Carried, Carriers, OnTimer, InQueue, InHand, AtWork
      <4> QED BY <4>1
    <3>4. CASE ~OnTimer(i) /\ ~InQueue(i) /\ ~InHand(i)
      <4>1. Carriers(i) = {} \/ Carriers(i) = {"task"}
        BY <2>1, <3>4 DEF Carriers, OnTimer, InQueue, InHand
      <4> QED BY <4>1
    <3> QED BY <3>1, <3>2, <3>3, <3>4
  <2>3. Cardinality(Carriers(i)) = 0 \/ Cardinality(Carriers(i)) = 1
    BY <2>2, FS_EmptySet, FS_Singleton
  <2>4. row[i].status = "queued" => Carriers(i) # {}
    BY <2>1 DEF Carried, Carriers, OnTimer, InQueue, InHand, AtWork
  <2> QED BY <2>3, <2>4
<1> QED BY <1>1, QueueInvariant, PTL

\* The dispatcher never sleeps beside a full queue without a token in wake or
\* a notifyWake still to come.
THEOREM QueueWakes == Spec => []NoLostWakeup
<1>1. QueueInv => NoLostWakeup
  BY DEF QueueInv
<1> QED BY <1>1, QueueInvariant, PTL

\* The slots of a job are exactly those of its rows with a goroutine or a
\* worker: none is lost and none is returned twice.
THEOREM QueueSlotsHeld == Spec => []SlotsHeld
<1>1. QueueInv => SlotsHeld
  BY DEF QueueInv
<1> QED BY <1>1, QueueInvariant, PTL

(***************************************************************************)
(* The abstract queue                                                      *)
(***************************************************************************)

Entry(h, i) == [key |-> i, priority |-> h.item[i].priority, seq |-> h.item[i].seq]

Entries(h) == {Entry(h, i) : i \in Keys(h)}

LEMMA EntriesDistinct == \A h : PQ!Distinct(Entries(h))
BY DEF PQ!Distinct, Entries, Entry

LEMMA EntryKeys == \A h, g, i, k : Entry(h, i) = Entry(g, k) => i = k
<1>1. \A h, i : Entry(h, i).key = i
  BY DEF Entry
<1> QED BY <1>1

LEMMA PutMaps ==
  ASSUME NEW i, i \notin Keys(heap), Keys(heap') = Keys(heap) \union {i}, restarts' = restarts,
         \A k \in Keys(heap) : Entry(heap', k) = Entry(heap, k)
  PROVE  PQ!Put
<1>1. Entry(heap', i) \in Entries(heap') /\ Entries(heap') = Entries(heap) \union {Entry(heap', i)}
  BY DEF Entries
<1>2. Entry(heap', i) \notin Entries(heap)
  BY DEF Entries, Entry
<1>3. PQ!Distinct(Entries(heap'))
  BY EntriesDistinct
<1> QED BY <1>1, <1>2, <1>3 DEF PQ!Put, Entries, Entry, InHeap, Keys

LEMMA EntriesKept ==
  ASSUME NEW h, NEW g, NEW i \in Instance, SameBut(h, g, i) \/ SameBut(h, g, None)
  PROVE  \A k \in Instance : k # i => Entry(g, k) = Entry(h, k)
BY QueueAssumptions DEF SameBut, Entry

LEMMA QueueStep == QueueInv /\ [Next]_vars => PQ!Next \/ UNCHANGED <<Entries(heap), restarts>>
<1> SUFFICES ASSUME QueueInv, [Next]_vars
             PROVE  PQ!Next \/ UNCHANGED <<Entries(heap), restarts>>
  OBVIOUS
<1>1. /\ TypeOK /\ HeapInv /\ Carried /\ Keys(heap) \subseteq Instance /\ None \notin Instance
      /\ heap \in Heap
  BY KeysType, QueueAssumptions DEF QueueInv
<1>2. ASSUME NEW i \in Instance, PushPending(i)  PROVE PQ!Put
  <2>1. /\ Keys(heap') = Keys(heap) \union {i} /\ i \notin Keys(heap) /\ SameBut(heap, heap', i)
        /\ restarts' = restarts
    BY <1>1, <1>2, PushPendingMoves DEF PushPending
  <2>2. \A k \in Keys(heap) : Entry(heap', k) = Entry(heap, k)
    BY <1>1, <2>1 DEF SameBut, Entry
  <2> QED BY <2>1, <2>2, PutMaps
<1>3. CASE PopPending
  <2>1. /\ SameBut(heap, heap', None) /\ heap.pq # << >> /\ disp'.cur = heap.pq[1]
        /\ disp'.cur \in Keys(heap) /\ Keys(heap') = Keys(heap) \ {disp'.cur}
        /\ restarts' = restarts
    BY <1>1, <1>3, PopPendingMoves DEF PopPending
  <2>2. PICK i \in Instance : i = heap.pq[1] /\ i \in Keys(heap) /\ Keys(heap') = Keys(heap) \ {i}
    BY <1>1, <2>1
  <2> DEFINE e == Entry(heap, i)
  <2>3. \A k \in Keys(heap) : Entry(heap', k) = Entry(heap, k)
    BY <1>1, <2>1 DEF SameBut, Entry
  <2>4. e \in Entries(heap) /\ Entries(heap') = Entries(heap) \ {e}
    BY <2>2, <2>3, EntryKeys DEF Entries
  <2>5. ASSUME NEW k \in Keys(heap), k # i  PROVE PQ!Before(e, Entry(heap, k))
    <3>1. PICK n \in DOMAIN heap.pq : k = heap.pq[n]
      BY DEF Keys
    <3>2. 1 \in DOMAIN heap.pq
      <4>1. Len(heap.pq) \in Nat /\ DOMAIN heap.pq = 1 .. Len(heap.pq)
        BY <1>1, HeapPlaces
      <4> QED BY <3>1, <4>1
    <3>3. ~Sooner(KeyAt(heap, n), KeyAt(heap, 1)) /\ KeyAt(heap, n) \in Key /\ KeyAt(heap, 1) \in Key
      BY <1>1, <3>2, RootFirst, LessIsSooner DEF HeapInv
    <3>4. KeyAt(heap, n).seq # KeyAt(heap, 1).seq
      BY <1>1, <2>2, <2>5, <3>1 DEF QueueInv, Numbered, Waiting, KeyAt
    <3>5. Sooner(KeyAt(heap, 1), KeyAt(heap, n))
      BY <3>3, <3>4, SoonerOrder
    <3> QED BY <2>2, <3>1, <3>3, <3>5 DEF Sooner, Key, KeyAt, Entry, PQ!Before
  <2>6. \A x \in Entries(heap) \ {e} : PQ!Before(e, x)
    BY <2>5 DEF Entries
  <2>7. PQ!Take
    <3> HIDE DEF e
    <3> QED BY <2>1, <2>4, <2>6 DEF PQ!Take, Entries, Entry, InHeap, Keys
  <2> QED BY <2>7 DEF PQ!Next
<1>4. CASE RePush
  <2>1. /\ Keys(heap') = Keys(heap) \union {disp.cur} /\ disp.cur \notin Keys(heap)
        /\ SameBut(heap, heap', None) /\ restarts' = restarts
    BY <1>1, <1>4, RePushMoves DEF RePush
  <2>2. \A k \in Keys(heap) : Entry(heap', k) = Entry(heap, k)
    BY <1>1, <2>1 DEF SameBut, Entry
  <2>3. PQ!Put
    BY <2>1, <2>2, PutMaps
  <2> QED BY <2>3 DEF PQ!Next
<1>5. CASE TryAcquire \/ Refresh
  <2>1. /\ Keys(heap') = Keys(heap) /\ disp.cur \notin Keys(heap)
        /\ SameBut(heap, heap', disp.cur) /\ restarts' = restarts
    BY <1>1, <1>5, TryAcquireMoves, RefreshMoves DEF TryAcquire, Refresh
  <2>2. \A k \in Keys(heap) : Entry(heap', k) = Entry(heap, k)
    BY <1>1, <2>1 DEF SameBut, Entry
  <2> QED BY <2>1, <2>2 DEF Entries
<1>6. ASSUME NEW c \in Caller, UpdateQueuedPriority(c)
      PROVE  PQ!Next \/ UNCHANGED <<Entries(heap), restarts>>
  <2> DEFINE x == call[c].ins
  <2>1. /\ Keys(heap') = Keys(heap) /\ SameBut(heap, heap', x) /\ restarts' = restarts
        /\ x \in Keys(heap) => heap'.item[x].seq = heap.item[x].seq
        /\ x \notin Keys(heap) => heap' = heap
    BY <1>1, <1>6, UpdateQueuedPriorityMoves DEF UpdateQueuedPriority
  <2> HIDE DEF x
  <2>2. CASE x \notin Keys(heap)
    BY <2>1, <2>2
  <2>3. CASE x \in Keys(heap)
    <3>1. PICK i \in Instance : i = x
      BY <1>1, <2>3
    <3>2. \A k \in Keys(heap) : k # i => Entry(heap', k) = Entry(heap, k)
      BY <1>1, <2>1, <3>1 DEF SameBut, Entry
    <3> DEFINE e == Entry(heap, i)
               f == Entry(heap', i)
    <3>3. /\ e \in Entries(heap) /\ f \in Entries(heap')
          /\ Entries(heap') = (Entries(heap) \ {e}) \union {f}
      BY <2>1, <2>3, <3>1, <3>2, EntryKeys DEF Entries
    <3>4. f.key = e.key /\ f.seq = e.seq
      BY <2>1, <2>3, <3>1 DEF Entry
    <3>5. PQ!Adjust
      <4> HIDE DEF e, f
      <4> QED BY <2>1, <3>3, <3>4 DEF PQ!Adjust, Entries, Entry, InHeap, Keys
    <3> QED BY <3>5 DEF PQ!Next
  <2> QED BY <2>2, <2>3
<1>7. CASE Restart
  <2>1. restarts' = restarts + 1
    BY <1>7 DEF Restart
  <2>2. PQ!Distinct(Entries(heap'))
    BY EntriesDistinct
  <2>3. PQ!Rebuild
    BY <2>1, <2>2 DEF PQ!Rebuild, PQ!Distinct, Entries, Entry, InHeap, Keys
  <2> QED BY <2>3 DEF PQ!Next
<1>8. CASE heap' = heap /\ restarts' = restarts
  BY <1>8
<1>9. ASSUME NEW i \in Instance,
             (\E p \in Submitted : SubmitManual(i, p)) \/ NotifyWake(i) \/ Task(i) \/ EndRow(i)
      PROVE  heap' = heap /\ restarts' = restarts
  BY <1>9 DEF SubmitManual, NotifyWake, Task, DispatchToWorker, DispatchNoWorker,
              RequeueAfterNoWorker, EndRow
<1>10. SleepWhenEmpty \/ WakeUp \/ Rest => heap' = heap /\ restarts' = restarts
  BY DEF SleepWhenEmpty, WakeUp, Rest
<1>11. \A c \in Caller, i \in Instance, p \in Priority :
          UpdatePriority(c, i, p) => heap' = heap /\ restarts' = restarts
  BY DEF UpdatePriority
<1>12. UNCHANGED vars => heap' = heap /\ restarts' = restarts
  BY DEF vars
<1>13. PQ!Put => PQ!Next
  BY DEF PQ!Next
<1> QED BY <1>2, <1>3, <1>4, <1>5, <1>6, <1>7, <1>8, <1>9, <1>10, <1>11, <1>12, <1>13
        DEF Next, Pusher, Dispatcher

\* container/heap with its index, as the scheduler uses it, is a priority
\* queue: what is popped is the best of what is queued, pushes and new
\* priorities keep the order, and only a restart builds it anew.
THEOREM QueueImplemented == Spec => ImplementsPriorityQueue
<1>1. Init => PQ!Init
  <2> SUFFICES ASSUME Init  PROVE PQ!Init
    OBVIOUS
  <2>1. Keys(heap) = {} /\ restarts = 0
    BY EmptyHeapArranged DEF Init
  <2>2. InHeap = {}
    BY <2>1 DEF InHeap, Keys
  <2> QED BY <2>1, <2>2 DEF PQ!Init
<1>2. QueueInv /\ [Next]_vars =>
         [PQ!Next]_<<{[key |-> i, priority |-> heap.item[i].priority, seq |-> heap.item[i].seq] : i \in InHeap},
                     restarts>>
  BY QueueStep DEF Entries, Entry, InHeap, Keys
<1> QED BY <1>1, <1>2, QueueInvariant, PTL DEF Spec, ImplementsPriorityQueue, PQ!Spec
=============================================================================
