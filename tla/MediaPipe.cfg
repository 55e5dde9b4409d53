\* The pipeline of the qualification test, with its priorities and with any.
CONSTANTS
  Depth = 2
  MaxTx <- MCMaxTx
  Plans <- MCPlans
SPECIFICATION Spec
INVARIANTS TypeOK HandlesFollowTheRing CompletedInOrder StatesAgree NothingLost
CHECK_DEADLOCK FALSE
