SPECIFICATION FairSpec
CONSTANTS
  wa = wa
  wb = wb
  r1 = r1
  r2 = r2
  h1 = h1
  h2 = h2
  c1 = c1
  c2 = c2
  c3 = c3
  None = None
  Tasks <- TwoTasks
  Workflows = {wa, wb}
  WorkflowOf <- TwoWorkflows
  TypeOf <- TestTypes
  LimitOf <- LimitOneZero
  WorkflowConcurrency = 1
  Replicas = {r1}
  Handlers = {h1}
  HostOf <- HostOnFirst
  Ctls = {c1}
  Outcomes = {"passed", "cancelled", "skipped", "running"}
  SideAcks = TRUE
  LockMayExpire = FALSE
  MayDelete = TRUE
  MaxCancels = 0
  MaxResubmits = 0
  MaxTouches = 0
  MaxCrashes = 0
CHECK_DEADLOCK FALSE
PROPERTIES WaitingSettles DeletedDrains
