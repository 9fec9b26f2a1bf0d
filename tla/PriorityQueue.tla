---------------------------- MODULE PriorityQueue ----------------------------
(***************************************************************************)
(* What the manual queue promises (docs/design.md: priority descending,    *)
(* first in first out among equals): whoever takes an entry gets the best  *)
(* one.  How the entries are kept in order is not said here; ManualQueue   *)
(* implements it with the binary heap of container/heap and an index.      *)
(***************************************************************************)
EXTENDS Integers

VARIABLES
    waiting,    \* the entries in the queue, records [key, priority, seq]
    life        \* how often the process has been started

\* x is served before y.
Before(x, y) ==
    \/ x.priority > y.priority
    \/ x.priority = y.priority /\ x.seq < y.seq

Distinct(es) == \A x, y \in es : x.key = y.key => x = y

Init == waiting = {} /\ life = 0

Put ==
    /\ \E e \in waiting' : waiting' = waiting \union {e} /\ e \notin waiting
    /\ Distinct(waiting')
    /\ UNCHANGED life

Take ==
    /\ \E e \in waiting :
          /\ \A x \in waiting \ {e} : Before(e, x)
          /\ waiting' = waiting \ {e}
    /\ UNCHANGED life

\* A new priority moves the entry; among equals it keeps its place.
Adjust ==
    /\ \E e \in waiting, f \in waiting' :
          /\ f.key = e.key /\ f.seq = e.seq
          /\ waiting' = (waiting \ {e}) \union {f}
    /\ UNCHANGED life

\* The queue is memory: a new process builds it anew.
Rebuild ==
    /\ Distinct(waiting')
    /\ life' = life + 1

Next == Put \/ Take \/ Adjust \/ Rebuild

Spec == Init /\ [][Next]_<<waiting, life>>

=============================================================================
