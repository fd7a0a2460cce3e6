CONSTANTS
  j1 = j1
  j2 = j2
  j3 = j3
  j4 = j4
  Jobs <- FourJobs
  Hung <- OneHung
  Stale = 2
  None = None
SPECIFICATION FairSpec
INVARIANTS FairExclusion WaitersHaveAServer
PROPERTIES WaitersAreServed
CHECK_DEADLOCK FALSE
