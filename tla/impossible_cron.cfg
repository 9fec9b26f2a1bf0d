\* One job whose cron expression names no instant.
SPECIFICATION Spec
CONSTANTS
  Bad = Bad
  None = None
  JobId = {1}
  Source = {}
  Address = {}
  Fingerprint <- NoServer
  Caller = {}
  Expression <- Expressions
  Requests <- Impossible
  Edits <- Edited
  Offers <- Offered
  MaxConcurrency <- AtMostTwo
  RetryCount <- OneRetry
  MaxTime = 1
  MaxMishaps = 0
INVARIANTS
  OncePerDue
CHECK_DEADLOCK FALSE
