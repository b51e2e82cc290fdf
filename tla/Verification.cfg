CONSTANTS
  u1 = u1
  u2 = u2
  d1 = d1
  d2 = d2
  r1 = r1
  r2 = r2
  None = None
  User = {u1, u2}
  Doc = {d1, d2}
  Request = {r1, r2}
  MaxTime = 3
SPECIFICATION Spec
SYMMETRY Symmetry
INVARIANTS ApprovedIdentityUnique PendingAgrees GateSound NobodyStuck
PROPERTIES ReviewsFinal
CHECK_DEADLOCK FALSE
