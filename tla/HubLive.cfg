SPECIFICATION FairSpec
CONSTANTS
  alice = alice
  bob = bob
  a1 = a1
  a2 = a2
  a3 = a3
  b1 = b1
  None = None
  Users <- OneUser
  Conns <- TwoAlike
  Owner <- OwnedByOne2
  SendCap = 2
  MaxMessages = 0
  SenderFound <- AsMeant
  Inputs = {"pong", "typing", "rest"}
  Faults = {"drop", "database"}
PROPERTIES
  DroppedIsReleased
  WriterFollows
  QueueIsServed
