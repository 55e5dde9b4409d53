CONSTANTS
  Clients = {c1, c2}
  N = 2
  WaitQSize = 1
  FifoDepth = 1
  Seqs = {1, 2}
  Sends = {"plain", "free"}
SPECIFICATION Spec
INVARIANTS TypeOK RingConsistent HeldByOne NoSilentLeak ConfirmedOnce StampIsOfThePacket
CHECK_DEADLOCK FALSE
