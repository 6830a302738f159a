SPECIFICATION CtlFairSpec
CONSTANTS
  j1 = j1
  a1 = a1
  a2 = a2
  r1 = r1
  r2 = r2
  None = None
  Jobs = {j1}
  Agents = {a1, a2}
  Replicas = {r1, r2}
  DBMayFail = TRUE
  MaxTries = 2
  MaxLosses = 1
  MaxCrashes = 1
CHECK_DEADLOCK FALSE
INVARIANTS TypeOK VerdictReported NotOffered
PROPERTIES OncePerAgent JobSettles
