SPECIFICATION CronSpec
CONSTANTS
  Handlers = {h1}
  MaxOverlaps = 0
  CrashesAllowed = FALSE
  Templates = {tpl}
  LastDay = 3
  Due <- EveryDay
  Batch = 3
  Attempts = 2
  Staffed = TRUE
PROPERTIES DueIsGenerated
CHECK_DEADLOCK FALSE
