SPECIFICATION FairSpec
CONSTANTS
  Files <- MCFiles
  BootFiles <- MCBootFiles
  Handlers = {h1}
  MaxConns = 1
  MaxWrites = 2
  MaxHups = 1
  MaxCalls = 2
  MayFail = {"proxy", "audit", "stop", "watch"}
  NoFile = NoFile
  NoProxy = NoProxy
INVARIANTS
  InForce
  ShutdownStopsProxy
PROPERTIES
  CallsAudited
  FileWins
  ShutdownEnds
  ClientsAnswered
