\* Two jobs, one source, two requests, three instants, and a crash or a failing claim or create.
SPECIFICATION FairSpec
CONSTANTS
  Bad = Bad
  None = None
  JobId = {1, 2}
  Source = {s1}
  Address = {a1, a2}
  Fingerprint <- OneServer
  Caller = {c1, c2}
  Expression <- Expressions
  Requests <- Created
  Edits <- Edited
  Offers <- Offered
  MaxConcurrency <- AtMostTwo
  RetryCount <- OneRetry
  MaxTime = 2
  MaxMishaps = 1
INVARIANTS
  TypeOK EnabledIsScheduled OncePerDue SourceOnce SlotHeld
PROPERTIES
  ClaimInForce PartialUpdate DueIsTaken
CHECK_DEADLOCK FALSE
