SPECIFICATION FairSpec
CONSTANTS
  l1 = l1
  l2 = l2
  l3 = l3
  l4 = l4
  None = None
  Links <- FourLinks
  MaxReconnectAttempts = 2
  MaxSignIns = 3
  MaxFaults = 4
CHECK_DEADLOCK FALSE
INVARIANTS
  TypeOK
  NeverStranded
  SocketsBounded
  OneSocket
  IndInv
PROPERTIES
  Reconnects
