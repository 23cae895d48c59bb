CONSTANTS
  v0 = v0
  v1 = v1
  Mtus = {1, 2}
  DefaultMtu = 1
  Values = {v0, v1}
  DefaultValue = v0
  None = None
  Requests <- Admin
  Refusable = {}
  FaultKinds = {}
  MaxSets = 2
  MaxCreates = 2
  MaxExternal = 0
  MaxFaults = 0
SPECIFICATION Spec
INVARIANTS
  DeletedPortIsDown
CHECK_DEADLOCK FALSE
