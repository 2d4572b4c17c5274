SPECIFICATION DocFairSpec
CONSTANTS
  Handlers = {h1}
  Files = {f1}
  Expiries = {1}
  Week = 1
  Month = 2
  MaxOverlaps = 1
  LastDay = 1
  MaxVersions = 2
  MaxRequests = 2
  CrashesAllowed = TRUE
PROPERTIES DecisionShown
CHECK_DEADLOCK FALSE
