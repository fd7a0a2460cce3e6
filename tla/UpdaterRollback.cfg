SPECIFICATION Spec
CONSTANTS
    MaxOps = 1
    MaxDeaths = 0
    Pollers = {start}
    Starter = start
    Overlap = FALSE
PROPERTY HardFailureIsReal
CHECK_DEADLOCK FALSE
