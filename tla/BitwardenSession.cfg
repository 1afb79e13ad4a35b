SPECIFICATION FairSpec
CONSTANTS
  Callers = {f1, f2}
  Attempts = 3
  MaxFetches = 3
  MaxFaults = 1
  MaxRevokes = 3
INVARIANTS
  OneDataDir
  FailsForCause
PROPERTIES
  FetchesReturn
CHECK_DEADLOCK FALSE
