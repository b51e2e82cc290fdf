CONSTANTS
  t1 = t1
  t2 = t2
  t3 = t3
  k1 = k1
  r1 = r1
  r2 = r2
  None = None
  Token = {t1, t2}
  ResetToken = {k1}
  Request = {r1, r2}
  PoolSize = 3
  MaxPassword = 1
SPECIFICATION Spec
SYMMETRY Symmetry
INVARIANT ResetEndsSessions
CHECK_DEADLOCK FALSE
