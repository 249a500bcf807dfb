SPECIFICATION Spec
CONSTANTS
  alice = alice
  bob = bob
  r1 = r1
  r2 = r2
  r3 = r3
  f1 = f1
  f2 = f2
  None = None
  Users <- TwoUsers
  Ids <- OneFile
  Reqs <- ThreeReqs
  ChunkSize = 2
  Sizes = {1}
  MaxCount = 2
  MaxAnnounced = 2
  Faults = {}
CHECK_DEADLOCK FALSE
INVARIANTS
  RecipientCanDownload
