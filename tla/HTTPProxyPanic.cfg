SPECIFICATION Spec
CONSTANTS
  Conns = {k1}
  Hosts = {"a", "b"}
  Paths = {"p", "q"}
  Configs <- AllConfigs
  MaxVer = 3
  MaxInst = 2
  NoReq = NoReq
INVARIANT SurvivesReload
