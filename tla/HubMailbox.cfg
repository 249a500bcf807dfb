SPECIFICATION Spec
CONSTANTS
  alice = alice
  bob = bob
  a1 = a1
  a2 = a2
  a3 = a3
  b1 = b1
  None = None
  Users <- TwoUsers
  Conns <- TwoConns
  Owner <- OwnedByTwo
  SendCap = 1
  MaxMessages = 1
  SenderFound <- EitherWay
  Inputs = {"chat", "error", "read", "rest"}
  Faults = {"kill", "insert"}
INVARIANTS
  TypeOK
  IndInv
PROPERTIES
  ImplementsMailbox
