\* A worker hands a manual row back.
SPECIFICATION Spec
CONSTANTS
  None = None
  w1 = w1
  w2 = w2
  j1 = j1
  j2 = j2
  Instance = {1, 2}
  Job = {j1}
  Worker = {w1}
  AutoJob = {}
  HasTimeout = {j1}
  HttpWorker = {}
  MaxConcurrency <- OneSlot
  RetryCount <- OneRetry
  Matches <- AnyWorker
  Reports = {"queued"}
  StopStatuses = {"stopped"}
  DbFaults = FALSE
  Warmup = FALSE
  MaxTriggers = 1
  MaxCrashes = 0
  MaxExpiries = 0
  MaxCalls = 0
INVARIANTS
  NothingStranded
CHECK_DEADLOCK FALSE
