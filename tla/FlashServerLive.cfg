CONSTANTS
  LoopCount = 2
  DataChunks = 2
  Clients = {a, b}
  Server = srv
  Micron = TRUE
  LaneSup = FALSE
  RdIrqs = 2
  FaultKinds = {"flag", "rdstop"}
  MaxFaults = 1
  Cmds = {"ERASE", "READ", "DEINIT"}
  MaxLen = 1
SPECIFICATION FairSpec
PROPERTIES EveryMessageIsAnswered
CHECK_DEADLOCK FALSE
