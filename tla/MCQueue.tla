------------------------------- MODULE MCQueue -------------------------------
(* Three rows of two jobs with one slot each. *)
EXTENDS ManualQueue, TLC

CONSTANTS j1, j2

TwoJobs == (1 :> j1) @@ (2 :> j1) @@ (3 :> j2)
OneSlot == [j \in Job |-> 1]
=============================================================================
