CONSTANTS
  Req = {r1, r2, r3}
  MaxFiles = 2
  MaxLinks = 1
  None = None
  MaxFaults = 1
SPECIFICATION Spec
SYMMETRY Alike
CHECK_DEADLOCK FALSE
INVARIANTS NothingMissing NothingLeft
