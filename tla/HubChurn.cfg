SPECIFICATION Spec
CONSTANTS
  alice = alice
  bob = bob
  a1 = a1
  a2 = a2
  a3 = a3
  b1 = b1
  None = None
  Users <- OneUser
  Conns <- ThreeConns
  Owner <- OwnedByOne
  SendCap = 1
  MaxMessages = 0
  SenderFound <- AsMeant
  Inputs = {"typing"}
  Faults = {"kill", "stop", "drop", "redis", "database"}
SYMMETRY Symmetry
INVARIANTS
  MapsAgree
  RegisteredOpen
  OpenUntilRemoved
  RegisteredLives
  UnreachableIsEvicted
  PresenceMirrored
  IndInv
