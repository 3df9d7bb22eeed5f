SPECIFICATION PSpec
CONSTANTS
  a = a
  b = b
  NoNode = NoNode
  Remote <- MCRemote
  Seeds <- MCSeeds
  Referral <- MCReferral
  SeedCount = 1
  MaxPeers = 2
  Callers <- MCCallers
  MaxConns = 2
INVARIANTS
  PTypeOK
  
  GivenUpJoined
  
CHECK_DEADLOCK FALSE
PROPERTIES
  SlotRecovers
  StopReturns
