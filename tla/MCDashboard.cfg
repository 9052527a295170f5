CONSTANTS
  Address = {"new", "old", "peer"}
  Old = {"old"}
  Announced = {"new", "old"}
  MaxFaults = 1
  HostOf <- MCHostOf
  Static <- MCStatic
  NoAddress = "none"
SPECIFICATION Spec
CHECK_DEADLOCK FALSE
INVARIANT TypeOK
PROPERTIES ShownIsTrue NewerWins
