SPECIFICATION SyncFairSpec
CONSTANTS
  u = u  v = v  w = w  child = child  orphan = orphan
  Workouts = {u, v, w}
  Accounts <- MCAccounts
  PageSize = 1
  Procs = {child, orphan}
  FaultChoices <- MCFaultChoices
  MaxDisturbances = 2
INVARIANTS LossHasACause 
PROPERTIES Drains
