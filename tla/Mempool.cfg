SPECIFICATION MSpec
CONSTANTS
  u1 = u1
  u2 = u2
  v1 = v1
  v2 = v2
  pool1 = pool1
  name1 = name1
  Addr <- MCAddr
  Pool = pool1
  Name = {name1}
  Tx <- MCTx
  Equivocators = {}
  Genesis <- MCGenesis
  Candidates <- MCCandidates
  Gas <- MCGas
  NewAccountGas = 1
  NameFee = 1
  MinStake = 4
  MinBaseFee = 1
  GasLimit = 64
  UnbondDelay = 2
  YearSlots = 4
  EarlyEmission = 4
  LateEmission = 4
  Word = 65536
  MaxSlot = 3
  Me = v1
  Capacity = 2
  SnapshotMax = 2
CHECK_DEADLOCK FALSE
INVARIANTS
  PoolOrdered
  NothingCommitted
  OneTxPerSender
PROPERTY DropsJustified
