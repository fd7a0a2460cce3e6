SPECIFICATION Spec
CONSTANTS
  None = None
  MaxUpdates = 3
  MaxFaults = 4
  MaxCrashes = 2
INVARIANTS NoDowntime OneFaultIsSurvived GreenTakesOver
CHECK_DEADLOCK FALSE
