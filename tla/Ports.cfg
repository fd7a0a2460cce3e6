CONSTANTS
  a = a
  b = b
  Clients <- TwoServices
  PortRange <- Range3
  External <- Foreign
  MaxStarts = 3
  MaxCrashes = 1
  NoPort = NoPort
SPECIFICATION PortsSpec
INVARIANTS NoDoubleGrant ReservedIsHeld
CHECK_DEADLOCK FALSE
