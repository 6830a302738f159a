SPECIFICATION FairSpec
CONSTANTS
  u1 = u1
  u2 = u2
  u3 = u3
  h1 = h1
  h2 = h2
  None = None
  Approvers = {u1, u2}
  Admins = {u3}
  NeededApprovers = 2
  Requests = {h1, h2}
  KeyMayExpire = TRUE
  MaxRuns = 2
CHECK_DEADLOCK FALSE
INVARIANTS TypeOK DecisionsKept
PROPERTIES OutcomeIsDecided ApprovalEnds
