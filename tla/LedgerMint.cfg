SPECIFICATION LSpec
CONSTANTS
  u1 = u1
  u2 = u2
  v1 = v1
  v2 = v2
  pool = pool
  name1 = name1
  Addr <- MCAddr
  Pool = pool
  Name = {name1}
  Tx <- MCTx
  Equivocators = {v1}
  Genesis <- AllBonded
  Candidates <- MCCandidates
  Gas <- MCGas
  NewAccountGas = 1
  NameFee = 1
  MinStake = 4
  MinBaseFee = 1
  GasLimit = 64
  UnbondDelay = 2
  YearSlots = 4
  EarlyEmission = 8
  LateEmission = 4
  Word = 65536
  MaxSlot = 3
CHECK_DEADLOCK FALSE
INVARIANT NoMint
