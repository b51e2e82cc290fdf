CONSTANTS
  j1 = j1
  j2 = j2
  l1 = l1
  l2 = l2
  s1 = s1
  r1 = r1
  r2 = r2
  None = None
  Jeweller = {j1, j2}
  Seller = {s1}
  Listing = {l1}
  SellerOf <- OneSeller
  Attempt = {1, 2}
  Request = {r1, r2}
  Blockable = {}
  MaxPayments = 1
  MaxEdits = 1
SPECIFICATION Spec
SYMMETRY Symmetry
INVARIANTS TypeOK OneWinner DealLedger OnePendingBid
PROPERTIES DecisionsFinal TermsFrozen ImplementsSale
CHECK_DEADLOCK FALSE
