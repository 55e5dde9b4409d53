CONSTANTS
  a = a
  x = x
  y = y
  Clients = {c1, c2}
  Images = {a}
  NoImage = none
  Vals = {x, y}
  Cap = 2
  ImgSize = 2
  Requests <- MixedRequests
  Slots = 2
  Others = 1
  FaultKinds = {"READ"}
  MaxFaults = 1
SPECIFICATION Spec
CHECK_DEADLOCK FALSE
PROPERTIES LoadReturnsStored
