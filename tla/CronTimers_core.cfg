SPECIFICATION FairSpec
CONSTANTS
  c1 = c1
  c2 = c2
  w = w
  t = t
  Crons = {c1, c2}
  Workflows = {w}
  Tests = {t}
  Owner <- WorkflowAndTest
  Revs = {r1, r2, r3}
  BadRevs = {r3}
  None = None
  Requests = {q1}
  MaxRequests = 3
  MaxCrashes = 1
  MaxFailures = 1
  MaxKept = 1
  SlowRestart = TRUE
INVARIANT TypeOK
INVARIANT Synced
INVARIANT RestartRestores
PROPERTY QueueDrains
CHECK_DEADLOCK FALSE
