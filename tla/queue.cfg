\* Three rows of two jobs, one change of priority, and a missing worker or a restart.
SPECIFICATION FairSpec
CONSTANTS
  None = None
  j1 = j1
  j2 = j2
  Instance = {1, 2, 3}
  Job = {j1, j2}
  Caller = {c1}
  Stoppable = {2}
  JobOf <- TwoJobs
  MaxConcurrency <- OneSlot
  Priority = {0, 2}
  Submitted = {1}
  MaxMishaps = 1
INVARIANTS
  TypeOK IndexExact OneCarrier NoLostWakeup SlotsHeld
PROPERTIES
  ImplementsPriorityQueue QueueDrains
CHECK_DEADLOCK FALSE
