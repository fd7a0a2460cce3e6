SPECIFICATION Spec
CONSTANTS
  s1 = s1
  r1 = r1
  r2 = r2
  b1 = b1
  h1 = h1
  None = None
  InitialStatuses <- AnyStatus
  Ops <- LockedOps
  Kind <- LockedKind
  ManagedTraefik = FALSE
  MaxCancels = 1
  MaxVanish = 1
  MaxCrashes = 1
SYMMETRY LockedSymmetry
INVARIANTS SuccessIsServed FailedRedeployKeepsService SettledIsClean
CHECK_DEADLOCK FALSE
