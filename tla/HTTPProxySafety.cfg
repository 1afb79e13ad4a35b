SPECIFICATION Spec
CONSTANTS
  Conns = {k1}
  Hosts = {"a", "b"}
  Paths = {"p", "q"}
  Configs <- AllConfigs
  MaxVer = 4
  MaxInst = 2
  NoReq = NoReq
INVARIANTS
  OneListener
PROPERTIES
  InjectsForClients
  SnapshotsInOrder
  InjectsByPolicy
