\* Any database call may fail and the worker may expire; a scheduled or manual run, its retry
\* and one Stop or Retry call.
SPECIFICATION Spec
CONSTANTS
  None = None
  w1 = w1
  w2 = w2
  j1 = j1
  j2 = j2
  Instance = {1, 2}
  Job = {j1}
  Worker = {w1}
  AutoJob = {j1}
  HasTimeout = {}
  HttpWorker = {w1}
  MaxConcurrency <- TwoSlots
  RetryCount <- OneRetry
  Matches <- AnyWorker
  Reports = {"success"}
  StopStatuses = {"stopped"}
  DbFaults = TRUE
  Warmup = FALSE
  MaxTriggers = 1
  MaxCrashes = 0
  MaxExpiries = 1
  MaxCalls = 1
INVARIANTS
  TypeOK SlotAccounting NoLeakedSlot InflightNoOvercount
CHECK_DEADLOCK FALSE
