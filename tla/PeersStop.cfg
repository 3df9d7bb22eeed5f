SPECIFICATION PSpec
CONSTANTS
  a = a
  b = b
  NoNode = NoNode
  Remote <- MCRemote
  Seeds <- MCSeeds
  Referral <- MCReferral
  SeedCount = 1
  MaxPeers = 2
  Callers <- MCCallers
  MaxConns = 3
INVARIANT StopJoinsAll
CHECK_DEADLOCK FALSE
