CONSTANTS
  a = a
  x = x
  y = y
  Clients = {c1, c2}
  Images = {a}
  NoImage = none
  Vals = {x}
  Cap = 1
  ImgSize = 1
  Requests <- FewRequests
  Slots = 2
  Others = 1
  FaultKinds = {"READ", "WRITE"}
  MaxFaults = 1
SPECIFICATION FairSpec
CHECK_DEADLOCK FALSE
PROPERTIES EveryRequestIsAnswered
