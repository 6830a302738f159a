SPECIFICATION FairSpec
CONSTANTS
  h1 = h1
  None = None
  Jobs = {1, 2}
  TextJobs = {2}
  EditedJobs = {1}
  Handlers = {h1}
  ApprovalEnabled = TRUE
  Events = {"finish_planning", "start_execute", "all_job_done"}
  Scheduled = TRUE
  Windowed = TRUE
  FirstClock = 2
  Requested <- Usual
  MaxStarts = 2
  MaxVersion = 2
  MaxReturns = 1
  MaxFailures = 1
CHECK_DEADLOCK FALSE
INVARIANTS TypeOK NothingBeforeApproval DoneMeansPassed
PROPERTIES Implements PlanSettles
