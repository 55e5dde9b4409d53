CONSTANTS
  a = a
  x = x
  y = y
  Clients = {c1, c2}
  Images = {a}
  NoImage = none
  Vals = {x, y}
  Cap = 2
  ImgSize = 2
  Requests <- MixedRequests
  Slots = 2
  Others = 0
  FaultKinds = {"READ", "WRITE", "ERASE"}
  MaxFaults = 1
SPECIFICATION Spec
SYMMETRY ClientSymmetry
CHECK_DEADLOCK FALSE
INVARIANTS TypeOK NoSlotLeak BufferIsOwned
PROPERTIES WriteOkMeansStored LoadReturnsStored
