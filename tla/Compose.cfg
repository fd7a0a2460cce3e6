CONSTANTS
  db = db
  api = api
  migrate = migrate
  web = web
  None = None
  Services <- Stack
  Deps <- StackDeps
  Hooks <- StackHooks
  Resources <- StackResources
  Files <- StackFiles
  MaxOps = 2
  MaxFaults = 1
SPECIFICATION FairSpec
INVARIANTS StackServes SparedIsKept SetAsideIsKept RollbackKeepsOrder
PROPERTIES DeployEnds
CHECK_DEADLOCK FALSE
