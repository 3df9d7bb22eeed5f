\* One stop is enough.
CONSTANTS
  p1 = p1
  p2 = p2
  o1 = o1
  o2 = o2
  SlotOf <- MCSlotOf
  EpochSlots = 2
  MaxEpoch = 2
  PeerBlock <- MCPeerBlock
  OwnBlock <- MCOwnBlock
  MaxHeight = 3
  MaxFaults = 4
SPECIFICATION ESpec
INVARIANTS
  AtomicCommit
CHECK_DEADLOCK FALSE
