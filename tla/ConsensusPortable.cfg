\* Weights 3, 2, 2; the second committee is n2 and n3.
CONSTANTS
  n1 = n1
  n2 = n2
  n3 = n3
  Node <- MCNode
  SqrtStake <- UnequalStake
  Validator <- MCNode
  MaxSlot = 2
  MaxSkew = 1
  Leaders <- SameLeader
  Committee <- Shrinking
  Priority <- MCPriority
  PendingMax = 8
  Window = 1
  MayCrash = {}
SPECIFICATION Spec
INVARIANT CertificatesPortable
CHECK_DEADLOCK FALSE
