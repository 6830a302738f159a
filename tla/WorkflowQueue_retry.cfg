SPECIFICATION Spec
CONSTANTS
  wa = wa
  wb = wb
  r1 = r1
  r2 = r2
  h1 = h1
  h2 = h2
  c1 = c1
  c2 = c2
  c3 = c3
  None = None
  Tasks <- TwoTasks
  Workflows = {wa, wb}
  WorkflowOf <- TwoWorkflows
  TypeOf <- TestTypes
  LimitOf <- LimitOneZero
  WorkflowConcurrency = 1
  Replicas = {r1}
  Handlers = {h1}
  HostOf <- HostOnFirst
  Ctls = {c1, c2, c3}
  Outcomes = {"failed", "cancelled", "pause", "running"}
  SideAcks = FALSE
  LockMayExpire = FALSE
  MayDelete = FALSE
  MaxCancels = 0
  MaxResubmits = 2
  MaxTouches = 1
  MaxCrashes = 0
CHECK_DEADLOCK FALSE
SYMMETRY CtlSymmetry
INVARIANTS SlotBound NoOrphanEntry
