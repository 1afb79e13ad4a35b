SPECIFICATION CallSpec
CONSTANTS
  Words = {"x", "y"}
  Invalid = Invalid
  Overlap = 2
  MinSecret = 2
  Redacted = "R"
  Symbols = {"a", "b"}
  Marks = {"R"}
  MaxChunk = 3
  MaxOutput = 6
  Tools <- MCTools
  Args <- MCArgs
  Values <- MCValues
  Rules <- MCRules
INVARIANTS
  PolicyEnforced
  StreamedAsWhole
  NoMatchSent
CHECK_DEADLOCK FALSE
