SPECIFICATION Spec
CONSTANTS
  MaxExecutions = 1
  MaxStops = 2
  MaxReloads = 1
CHECK_DEADLOCK FALSE
INVARIANTS
  AtMostOnce
  RecordIsTrue
PROPERTIES
  BridgeSettles
