CONSTANTS
  LoopCount = 2
  DataChunks = 2
  Clients = {a, b}
  Server = srv
  Micron = TRUE
  LaneSup = FALSE
  RdIrqs = 1
  FaultKinds = {"flag"}
  MaxFaults = 1
  Cmds = {"ERASE", "WRITE"}
  MaxLen = 1
SPECIFICATION FairSpec
PROPERTIES EveryOperationEnds
CHECK_DEADLOCK FALSE
