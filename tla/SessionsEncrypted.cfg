SPECIFICATION Spec
CONSTANTS
  Names = {ann, bob}
  Reqs = {r1}
  MaxFaults = 0
  None = None
INVARIANT Encrypted
