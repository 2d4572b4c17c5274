SPECIFICATION MCSpec
CONSTANTS
  Handlers = {h1, h2}
  MaxOverlaps = 1
  CrashesAllowed = TRUE
  SessionLimit = 2
  MaxAttempts = 2
  LockTime = 1
  LastMinute = 1
  MaxTokens = 3
  MaxResets = 2
  MaxPasswords = 2
  Proposals = {q1}
  Codes = {a, b}
  Parts = {a, b}
  Requests = {a, b}
  People = {a, b}
  CostIds = {a, b}
  Amounts = {1, 2}
  OrderIds = {p1}
  Lines = {a, b}
  Ordered <- TwoEach
  Shipments = {a, b}
  MaxWaybills = 2
INVARIANTS SessionsBounded TokensOnce FailuresCounted ResetEndsSessions ProjectsEndorsed WorkItemFollows DoneMeansAllDone OverspendPerOverlap NotesCoverReceipts WaybillKeepsOrders
PROPERTIES LockHolds
SYMMETRY Symmetry
CHECK_DEADLOCK FALSE
