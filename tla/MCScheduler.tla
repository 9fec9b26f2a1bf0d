----------------------------- MODULE MCScheduler -----------------------------
(***************************************************************************)
(* Values of the function constants of Scheduler for the TLC runs.         *)
(***************************************************************************)
EXTENDS SchedulerRefinement
CONSTANTS w1, w2, j1, j2

OneSlot  == [j \in Job |-> 1]
TwoSlots == [j \in Job |-> 2]

NoRetry    == [j \in Job |-> 0]
OneRetry   == [j \in Job |-> 1]
TwoRetries == [j \in Job |-> 2]

AnyWorker == [j \in Job |-> Worker]
=============================================================================
