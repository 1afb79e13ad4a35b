SPECIFICATION FairSpec
CONSTANTS
  Callers = {c1, c2}
  Keys = {k1}
  TTLs <- MCTTLs
  Lifetimes <- MCLifetimes
  Margin = 1
  MaxTime = 1
  MaxSetTTL = 2
  NoExpiry = NoExpiry
  NoEntry = NoEntry
  NoCred = NoCred
  None = None
INVARIANTS
  DisabledHoldsNoStatic
  RefreshWithinBounds
  RefreshedOnce
  SweeperFollowsTTL
PROPERTIES
  ServedValid
  CallsReturn
  ExpiredIsSwept
