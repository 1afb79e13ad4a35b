SPECIFICATION FairSpec
CONSTANTS
  Chunks = 2
  Signals = 1
  Resizes = 1
  ChanCap = 2
  UpCap = 2
  DownCap = 1
  PipeCap = 1
  MayCrash = TRUE
INVARIANTS
  StdinFaithful
  OutputBeforeExit
  SizeFollows
PROPERTIES
  SessionEnds
