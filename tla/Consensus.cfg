\* Three slots, both nodes lead slot 1, n2 is a quorum of its own and may stop in slot 2 and
\* restart, one table entry: evictions, moved votes, forks, lost locks, catching up.
CONSTANTS
  n1 = n1
  n2 = n2
  Node <- MCNode
  SqrtStake <- UnequalStake
  Validator <- MCNode
  MaxSlot = 3
  MaxSkew = 1
  Leaders <- TwoFirst
  Committee <- MCCommittee
  Priority <- MCPriority
  PendingMax = 1
  Window = 1
  MayCrash <- HeavyStops
SPECIFICATION Spec
INVARIANTS
  TypeOK
  PendingExtendsTip
  SignersGenuine
  LockIsLowestVote
  
  Accountability
  ChainCertified
PROPERTIES
  AppendOnly
  FSpec
CHECK_DEADLOCK FALSE
