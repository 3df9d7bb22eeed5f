\* Three equal nodes; the committees of the two slots overlap in n2.
CONSTANTS
  n1 = n1
  n2 = n2
  n3 = n3
  Node <- MCNode
  SqrtStake <- EqualStake
  Validator <- MCNode
  MaxSlot = 2
  MaxSkew = 1
  Leaders <- OneEach
  Committee <- Overlapping
  Priority <- MCPriority
  PendingMax = 8
  Window = 16
  MayCrash = {}
SPECIFICATION Spec
INVARIANT Agreement
CHECK_DEADLOCK FALSE
