SPECIFICATION Spec
CONSTANTS
  ann = ann
  bob = bob
  root = root
  NoLimit = NoLimit
  NoRow = NoRow
  NoUser = NoUser
  Users <- MCUsers
  SuperAdmins <- MCSuperAdmins
  Requests = {q1}
  ConfigRows <- BothRows
  Configs <- BothConfigs
  Handlers = {h1}
  Amounts = {0}
  Rules <- NoRules
  CrashesAllowed = FALSE
PROPERTIES RejectionFinal
CHECK_DEADLOCK FALSE
