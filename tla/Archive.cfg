CONSTANTS
  web = web
  db = db
  api = api
  a = a
  b = b
  None = None
  Deployables <- TwoDeployables
  Primary = web
  Children <- OneStack
  Stateful <- OneResource
  Clients <- TwoClients
  MaxOps = 4
  MaxFaults = 2
  MaxCrashes = 1
  Overlap = FALSE
SYMMETRY Symmetric
SPECIFICATION Spec
INVARIANTS RowsMatchRuntime RoundTrip
PROPERTIES OnlyItsOwnArchive
CHECK_DEADLOCK FALSE
