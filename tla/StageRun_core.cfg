SPECIFICATION FairSpec
CONSTANTS
  g1 = g1
  g2 = g2
  None = None
  Jobs <- FourJobs
  NumStages = 2
  StageOf <- Pairs
  GroupOf <- PairGroups
  Groups = {g1, g2}
  Parallel = {1}
  ManualStages = {1, 2}
  Policy <- AllPolicies
  MaximumRetry <- OneRetry
  Conditional = {3}
  SkipRun = {4}
  BuildConcurrency = 2
  Outcomes = {"prepare", "passed", "timeout", "cancelled", "unstable"}
  MaxDecisions = 1
  MaxRuns = 4
CHECK_DEADLOCK FALSE
INVARIANTS TypeOK StageOrder SerialOrder PassedMeansDone GroupsReported
PROPERTIES DoneStays CancelWins RunComesToEnd
