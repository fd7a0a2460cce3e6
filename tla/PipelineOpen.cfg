SPECIFICATION FairSpec
CONSTANTS
  s1 = s1
  r1 = r1
  r2 = r2
  b1 = b1
  h1 = h1
  None = None
  InitialStatuses <- AnyStatus
  Ops <- OpenOps
  Kind <- OpenKind
  ManagedTraefik = TRUE
  MaxCancels = 1
  MaxVanish = 0
  MaxCrashes = 1
INVARIANTS OneTerminalEvent
PROPERTIES NothingSticks EventuallyHonest
CHECK_DEADLOCK FALSE
