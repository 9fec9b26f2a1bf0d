\* A crash at any step and the recovery; one chain, one id more than it may use.
SPECIFICATION Spec
CONSTANTS
  None = None
  w1 = w1
  w2 = w2
  j1 = j1
  j2 = j2
  Instance = {1, 2, 3}
  Job = {j1}
  Worker = {w1, w2}
  AutoJob = {}
  HasTimeout = {j1}
  HttpWorker = {w1}
  MaxConcurrency <- OneSlot
  RetryCount <- OneRetry
  Matches <- AnyWorker
  Reports = {"running", "success", "failed"}
  StopStatuses = {"canceled"}
  DbFaults = FALSE
  Warmup = TRUE
  MaxTriggers = 1
  MaxCrashes = 1
  MaxExpiries = 0
  MaxCalls = 1
INVARIANTS
  NoLeakedSlot RetryChain OneLiveAttempt NoRedelivery NothingStranded
PROPERTIES
  TerminalStable
CHECK_DEADLOCK FALSE
