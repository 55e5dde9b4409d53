CONSTANTS
  Micron = FALSE
  LaneSup = TRUE
  LoopCount = 2
  DataChunks = 2
  RdIrqs = 1
  FaultKinds = {"wren", "rdstart", "rdstop"}
  MaxFaults = 1
  Clients = {a, b}
  Server = srv
  Cmds = {"ERASE", "WRITE", "READ", "COMPARE"}
  MaxLen = 2
SPECIFICATION Spec
INVARIANTS TypeOK NoCommandIsIgnored NoLostWakeup BusyForAMessage
PROPERTIES SuccessMeansDone XferEndsWhenDone
CHECK_DEADLOCK FALSE
