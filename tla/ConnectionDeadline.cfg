SPECIFICATION Spec
CONSTANTS
  MaxLife = 2
  HeaderTimeout = 1
  MessageTimeout = 1
  WriteTimeout = 1
  MaxTime = 4
  Never = Never
INVARIANT WithinLifetime
CHECK_DEADLOCK FALSE
