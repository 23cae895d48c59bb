SPECIFICATION LiveSpec
CONSTANTS
  f1 = f1
  f2 = f2
  Lanes = {1, 2}
  Fanouts <- Two
  FaultKinds = {"delete", "breakout", "create", "update"}
  MaxRuns = 2
  MaxWork = 3
  MaxFaults = 1
INVARIANTS
  TypeOK
  InterfacesFitPorts
  CreatedMeansInterfaces
  LaserFollowsAdmin
PROPERTY RunsEnd
CHECK_DEADLOCK FALSE
