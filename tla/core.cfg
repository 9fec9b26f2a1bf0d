\* Two rows of one job compete for its single slot; manual triggers, one retry, no failure.
SPECIFICATION Spec
CONSTANTS
  None = None
  w1 = w1
  w2 = w2
  j1 = j1
  j2 = j2
  Instance = {1, 2}
  Job = {j1}
  Worker = {w1}
  AutoJob = {}
  HasTimeout = {}
  HttpWorker = {}
  MaxConcurrency <- OneSlot
  RetryCount <- OneRetry
  Matches <- AnyWorker
  Reports = {"running", "queued", "success"}
  StopStatuses = {"stopped"}
  DbFaults = FALSE
  Warmup = FALSE
  MaxTriggers = 2
  MaxCrashes = 0
  MaxExpiries = 0
  MaxCalls = 1
INVARIANTS
  SlotAccounting InFlightBound InflightExact RetryNeverLost
PROPERTIES
  ImplementsRunLifecycle
CHECK_DEADLOCK FALSE
