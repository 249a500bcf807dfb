SPECIFICATION FairSpec
CONSTANTS
  Names = {ann, bob}
  Reqs = {r1, r2}
  MaxFaults = 1
  None = None
INVARIANTS
  TypeOK
  GrantedOnce
  IndInv
PROPERTIES
  LateCreatesNothing
  ImplementsDirectory
  Settles
