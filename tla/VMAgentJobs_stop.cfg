SPECIFICATION FairSpec
CONSTANTS
  j1 = j1
  a1 = a1
  a2 = a2
  r1 = r1
  r2 = r2
  None = None
  Jobs = {j1}
  Agents = {a1}
  Replicas = {r1}
  DBMayFail = FALSE
  MaxTries = 2
  MaxLosses = 0
  MaxCrashes = 0
CHECK_DEADLOCK FALSE
PROPERTY StoppedStops
