CONSTANTS
  None = None
  Page = {"Bids"}
  Row = {1, 2, 3}
  Stamp <- MCStamp
  Spot <- MCSpot
  Tick = 2
  Radius = 2
  PageSize = 1
  MaxCalls = 2
  MaxIncidents = 2
SPECIFICATION LiveSpec
CHECK_DEADLOCK FALSE

PROPERTY BidsShown
