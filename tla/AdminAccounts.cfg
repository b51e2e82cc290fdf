CONSTANTS
  a1 = a1
  a2 = a2
  s1 = s1
  s2 = s2
  b1 = b1
  b2 = b2
  r1 = r1
  r2 = r2
  None = None
  Admin = {a1, a2}
  Seeded = a1
  Session = {s1, s2}
  Batch = {b1, b2}
  MaxKey = 2
  MaxAttempts = 1
  MfaRequired = FALSE
  Request = {r1, r2}
  Offers <- Groups
SPECIFICATION Spec
SYMMETRY Symmetry
INVARIANTS CodesOnce MfaProven
PROPERTIES SuspensionHolds
CHECK_DEADLOCK FALSE
