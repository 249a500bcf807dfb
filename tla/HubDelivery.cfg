SPECIFICATION Spec
CONSTANTS
  alice = alice
  bob = bob
  a1 = a1
  a2 = a2
  a3 = a3
  b1 = b1
  None = None
  Users <- TwoUsers
  Conns <- TwoConns
  Owner <- OwnedByTwo
  SendCap = 2
  MaxMessages = 2
  SenderFound <- AsMeant
  Inputs = {"chat"}
  Faults = {"kill", "insert"}
SYMMETRY ChangedRoles
INVARIANTS
  PushedIsStored
  SentOnce
  LiveOrder
  OldestFirst
  StoredIsAnswered
  DeliveryInv
PROPERTIES
  NothingAfterClose
