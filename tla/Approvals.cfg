CONSTANTS
  batch = batch
  archive = archive
  s0 = s0
  s1 = s1
  s2 = s2
  w1 = w1
  w2 = w2
  m1 = m1
  Runs <- BothRuns
  Services <- StackServices
  Roots <- RootsOf
  Named <- NamedOf
  Batch <- OnlyBatch
  WebOnly <- OnlyArchive
  Reviewers <- TwoReviewers
  Agents <- OneAgent
  MaxChanges = 1
  MaxFaults = 1
  MaxCrashes = 1
  None = None
SPECIFICATION StackSpec
SYMMETRY Symmetric
INVARIANTS ActedOnce RejectedUntouched BatchIsHonest RestartSettles RunningIsExecuted
CHECK_DEADLOCK FALSE
