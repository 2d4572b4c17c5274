SPECIFICATION MCSpec
CONSTANTS
  Handlers = {h1, h2}
  MaxOverlaps = 1
  CrashesAllowed = TRUE
  Templates = {tpl}
  LastDay = 3
  Due <- EveryDay
  Batch = 2
  Attempts = 2
  Staffed = FALSE
  Tasks = {a, b, c}
  Durations = {1, 2}
  Lags <- LeadsAndLags
  MaxLinks = 3
  PlanIds = {a, b, c}
  Texts = {x, y}
  NodeIds = {a, b, c}
  Budgets = {1, 2}
INVARIANTS NothingSkipped LinksMakeSense ScheduleFits BaselineIsLatest NothingLiveBelowArchived
PROPERTIES PlanLife
SYMMETRY Symmetry
CHECK_DEADLOCK FALSE
