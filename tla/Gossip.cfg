SPECIFICATION GSpec
CONSTANTS
  n1 = n1
  n2 = n2
  n3 = n3
  m1 = m1
  m2 = m2
  NoMsg = NoMsg
  Node <- MCNode
  Link <- MCLink
  Msg <- MCMsg
  Origin <- MCOrigin
  RingCap = 4
  QueueMax = 1
  MaxBreaks = 1
INVARIANTS
  GTypeOK
  
  
CHECK_DEADLOCK FALSE
PROPERTIES
  Quiesces
  Spreads
