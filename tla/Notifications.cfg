CONSTANTS
  n1 = n1
  n2 = n2
  s1 = s1
  s2 = s2
  None = None
  Note = {n1, n2}
  Suspension = {n2}
  Stream = {s1, s2}
  MaxAttempts = 2
  MaxStalls = 1
  MaxFaults = 1
SPECIFICATION FairSpec
INVARIANTS SubscribedExactly JobFollowsCommit
PROPERTIES CutOff Heard DeliveriesEnd
CHECK_DEADLOCK FALSE
