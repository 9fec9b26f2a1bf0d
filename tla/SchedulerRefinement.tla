------------------------- MODULE SchedulerRefinement -------------------------
(***************************************************************************)
(* Scheduler, without crashes and failing database calls, implements       *)
(* RunLifecycle.  A run's life is read off the status of its row, so the   *)
(* statement is about what the database shows and not about the slots.     *)
(***************************************************************************)
EXTENDS Scheduler

LifeOf(i) ==
  CASE ~Exists(i)    -> "absent"
    [] IsTerminal(i) -> "ended"
    [] IsActive(i)   -> "running"
    [] OTHER         -> "waiting"

Abstract == INSTANCE RunLifecycle WITH
  Run    <- Instance,
  Cap    <- [j \in Job |-> SlotCap(j)],
  Budget <- RetryCount,
  life   <- [i \in Instance |-> LifeOf(i)],
  owner  <- [i \in Instance |-> ins[i].job],
  chain  <- [i \in Instance |-> IF Exists(i) THEN RootOf(i) ELSE None]

\* Every behaviour of the dispatch core is one of RunLifecycle: rows start within the
\* limit, end once, and are retried one at a time within the budget, whatever the order
\* of dispatches, reports, stops, reaper and pump.
ImplementsRunLifecycle == Abstract!Spec
=============================================================================
