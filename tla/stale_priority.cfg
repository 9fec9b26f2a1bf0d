\* A row triggered with a delay, and a priority set before the delay is over.
SPECIFICATION Spec
CONSTANTS
  None = None
  j1 = j1
  j2 = j2
  Instance = {1, 2, 3}
  Job = {j1, j2}
  Caller = {c1}
  Stoppable = {}
  JobOf <- TwoJobs
  MaxConcurrency <- OneSlot
  Priority = {1}
  Submitted = {0}
  MaxMishaps = 0
INVARIANTS
  NoStalePriority
CHECK_DEADLOCK FALSE
