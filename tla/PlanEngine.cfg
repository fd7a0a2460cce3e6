SPECIFICATION FairSpec
CONSTANTS
  tool = tool
  direct = direct
  res = res
  None = None
  PlanSession = PlanSession
  Executors <- PairExecutors
  Tools <- OneTool
  Approvers <- PairApprovers
  Resources <- OneResource
  Existing = {TRUE, FALSE}
  Attaching = {TRUE, FALSE}
  MaxUpdates = 2
  MaxForeign = 1
INVARIANTS ExecutedPlanIsRecorded CommittedFreesLock 
PROPERTY ExecutingEnds
CHECK_DEADLOCK FALSE
