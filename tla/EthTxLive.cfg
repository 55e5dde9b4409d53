CONSTANTS
  Clients = {c1}
  N = 2
  WaitQSize = 1
  FifoDepth = 1
  Seqs = {1,2}
  Sends = {}
SPECIFICATION FairSpec
PROPERTIES EverySendSettles
CHECK_DEADLOCK FALSE
