CONSTANTS
  u1 = u1
  u2 = u2
  p1 = p1
  p2 = p2
  m1 = m1
  s1 = s1
  i1 = i1
  r1 = r1
  r2 = r2
  None = None
  User = {u1, u2}
  Phone = {p1, p2}
  Mail = {m1}
  Subject = {s1}
  MailOf <- OneAddress
  Ip = {i1}
  Request = {r1, r2}
  MaxCode = 2
  MaxAttempts = 1
  MaxFailures = 2
  MaxLapses = 1
  Offers <- Groups
SPECIFICATION Spec
SYMMETRY Symmetry
INVARIANTS AccountsBacked OneOwner GuessesBounded
CHECK_DEADLOCK FALSE
