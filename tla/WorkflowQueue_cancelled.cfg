SPECIFICATION Spec
CONSTANTS
  wa = wa
  wb = wb
  r1 = r1
  r2 = r2
  h1 = h1
  h2 = h2
  c1 = c1
  c2 = c2
  c3 = c3
  None = None
  Tasks <- TwoTasks
  Workflows = {wa, wb}
  WorkflowOf <- TwoWorkflows
  TypeOf <- TestTypes
  LimitOf <- LimitOneZero
  WorkflowConcurrency = 1
  Replicas = {r1}
  Handlers = {h1}
  HostOf <- HostOnFirst
  Ctls = {c1, c2}
  Outcomes = {"passed", "cancelled", "skipped", "running"}
  SideAcks = FALSE
  LockMayExpire = FALSE
  MayDelete = FALSE
  MaxCancels = 1
  MaxResubmits = 0
  MaxTouches = 0
  MaxCrashes = 0
SYMMETRY CtlSymmetry
PROPERTY CancelledIsFinal
