\* Three preemption levels push, the middle one pops.
CONSTANTS
  x = x
  y = y
  N = 4
  NCtx = 3
  Consumer = 2
  Item = {x, y}
  Data <- MCData
  MaxCnt = 2
  Overwrite = FALSE
SPECIFICATION Spec
INVARIANTS TypeOK LockCount PopSeesNoPush ReservationsDisjoint
PROPERTIES PushTakesAllThatFits Fifo
