SPECIFICATION FairSpec
CONSTANTS
  ann = ann
  bob = bob
  root = root
  NoLimit = NoLimit
  NoRow = NoRow
  NoUser = NoUser
  Users <- MCUsers
  SuperAdmins <- MCSuperAdmins
  Requests = {q1}
  ConfigRows <- ChainRows
  Configs <- ChainConfigs
  Handlers = {h1}
  Amounts = {0, 1, 2, 3}
  Rules <- Tiers
  CrashesAllowed = FALSE
INVARIANTS ApprovedMeansSigned NotStranded
PROPERTIES KeepsPromise EveryRequestDecided
CHECK_DEADLOCK FALSE
