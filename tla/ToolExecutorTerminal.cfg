SPECIFICATION FairSpec
CONSTANTS
  Streams <- OneStream
  PTY = TRUE
  Redacts = TRUE
  MaxChunks <- ThreeChunks
  Threshold = 0
  Limit = 2
  MaxMade = 3
INVARIANTS
  BytesAccounted
PROPERTIES
  RunEnds
