SPECIFICATION Spec
CONSTANTS
  h1 = h1
  None = None
  Jobs = {1, 2}
  TextJobs = {2}
  EditedJobs = {1}
  Handlers = {h1}
  ApprovalEnabled = TRUE
  Events = {}
  Scheduled = FALSE
  Windowed = FALSE
  FirstClock = 2
  Requested <- Usual
  MaxStarts = 2
  MaxVersion = 1
  MaxReturns = 2
  MaxFailures = 0
CHECK_DEADLOCK FALSE
PROPERTY DoneRemembered
