SPECIFICATION FairSpec
CONSTANTS
  Modes = {TRUE, FALSE}
  Validity = 2
  RotationBuffer = 1
  Installs <- Pairs4
  MaxTime = 3
  MaxDowns = 2
  MaxWrites = 3
  NoFile = NoFile
  Torn = Torn
INVARIANTS
  InUseIsOnDisk
PROPERTIES
  StartsAgain
  StopReturns
