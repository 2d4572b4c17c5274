SPECIFICATION MCSpec
CONSTANTS
  Handlers = {h1, h2}
  MaxOverlaps = 1
  CrashesAllowed = TRUE
  Files = {f1}
  Expiries = {1}
  Week = 1
  Month = 2
  LastDay = 1
  MaxVersions = 2
  MaxRequests = 2
  Amounts = {1, 2}
  Limits = {1, 2}
  QuoteIds = {1}
  MaxOrders = 2
INVARIANTS VersionsDense ApprovedWasSigned CurrentIsLatest ApprovedIsShown OneOpenRequest DebtWithinLimit DebtIsOrders QuoteConvertedOnce OutboundPerOrder
SYMMETRY Symmetry
CHECK_DEADLOCK FALSE
