SPECIFICATION Spec
CONSTANTS
  Streams <- Pipes
  PTY = FALSE
  Redacts = TRUE
  MaxChunks <- MostlyStdout
  MaxMade = 3
  Threshold = 1
  Limit = 2
INVARIANTS
  InOrder
  Complete
  LeavesNothing
  LimitEnforced
  BytesAccounted
