CONSTANTS
  None = None
  Page = {"AdminUsers", "SubAdmins", "AuditLogs", "SecurityAlerts", "AdminCommissions", "KycList", "BusinessList", "KycDetail", "BusinessDetail", "AdminDashboard", "Deals", "Commissions", "Listings", "ListingDetail", "SellerDashboard", "JewellerDashboard", "Marketplace", "Bids", "Matched"}
  Row = {1, 2, 3}
  Stamp <- MCStamp
  Spot <- MCSpot
  Tick = 2
  Radius = 2
  PageSize = 1
  MaxCalls = 2
  MaxIncidents = 2
SPECIFICATION Spec
CHECK_DEADLOCK FALSE
INVARIANTS Coherent Seamless OwnActionShown Spinning
PROPERTY ActsOnShown
