\* Two events, two attempts, a crash and two failing database calls.
SPECIFICATION FairSpec
CONSTANTS
  None = None
  Event = {e1, e2}
  MaxAttempts = 2
  Retention = TRUE
  MaxFaults = 2
  MaxCrashes = 1
INVARIANTS
  TypeOK SendsBounded GivenUpLate
PROPERTIES
  FinalStays EventsEnd
CHECK_DEADLOCK FALSE
