SPECIFICATION Spec
CONSTANTS
  Handlers = {h1, h2}
  Requests = {r1, r2}
  Messages = {m1, m2}
  Drift = 1
  MinTTL = 2
  DefaultTTL = 4
  ConfigTTLs <- MCConfigTTLs
  ConfigMax <- MCConfigMax
  Timestamps <- MCTimestamps
  MaxDelay = 1
  MaxTime = 5
  MaxEpoch = 2
  Absent = Absent
SYMMETRY Symmetry
INVARIANTS
  AtMostOnce
  WithinCapacity
PROPERTIES
  ImplementsAdmitOnce
