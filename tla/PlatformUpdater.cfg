SPECIFICATION FairSpec
CONSTANTS
    MaxOps = 2
    MaxDeaths = 1
    Pollers = {start, ui}
    Starter = start
    Overlap = FALSE
INVARIANTS OneRunner RollbackRestores CompletedIsInstalled FailedIsTrue
CHECK_DEADLOCK FALSE
PROPERTY UpdateSettles
