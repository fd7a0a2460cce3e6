SPECIFICATION LockSpec
CONSTANTS
  archive = archive
  redeploy = redeploy
  background = background
  NoSession = NoSession
  Projects <- MCProjects
  Callers <- MCCallers
  Route <- MCRoute
  Scoped <- MCScoped
  Sessionless <- MCSessionless
  TTL = 1
  MaxClock = 3
INVARIANTS LeaseExclusion
PROPERTIES RefusalJustified LeavesNothing ImplementsLeaseLock
CHECK_DEADLOCK FALSE
