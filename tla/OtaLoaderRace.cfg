SPECIFICATION Spec
CONSTANTS
  Good = Good
  Bad = Bad
  Old = Old
  Sectors = 2
  MaxUpdates = 1
  MaxFaults = 2
  Faults = {"nvs", "wifi", "flash"}
INVARIANTS
  NeverGivenUp
CHECK_DEADLOCK FALSE
