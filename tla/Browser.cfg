CONSTANTS
  t1 = t1
  t2 = t2
  NoTab = NoTab
  Tab = {t1, t2}
  MaxId = 11
  MaxCalls = 2
  MaxIncidents = 1
SPECIFICATION BrowserSpec
SYMMETRY Symmetry
INVARIANTS CookieLive RefreshScheduled LoadingAwaits
PROPERTY StaysOut
