CONSTANTS
  v0 = v0
  v1 = v1
  Mtus = {1, 2}
  DefaultMtu = 1
  Values = {v0, v1}
  DefaultValue = v0
  None = None
  Requests <- Lists
  Refusable <- Unwelcome
  FaultKinds = {"kernel", "get"}
  MaxSets = 1
  MaxCreates = 2
  MaxExternal = 1
  MaxFaults = 1
SPECIFICATION LiveSpec
INVARIANTS
  TypeOK
  KernelAndNpuAgree
  AnnouncedUnlessLate
  OkMeansInPlace
PROPERTY
  Settles
CHECK_DEADLOCK FALSE
