CONSTANTS
  n1 = n1
  n2 = n2
  n3 = n3
  Node <- MCNode
  SqrtStake <- EqualStake
  Validator <- MCNode
  MaxSlot = 2
  MaxSkew = 1
  Leaders <- MCLeaders
  Committee <- MCCommittee
  Priority <- MCPriority
  PendingMax = 8
  Window = 16
  MayCrash = {}
SPECIFICATION SyncSpec
INVARIANT
  SealedInSlot
PROPERTY EventuallyFinal
CHECK_DEADLOCK FALSE
