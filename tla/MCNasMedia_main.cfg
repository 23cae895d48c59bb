CONSTANTS
  t1 = t1
  t2 = t2
  t3 = t3
  Lanes = {1, 2}
  Control = 1
  Types = {t1, t2, t3}
  Listed = {t1, t2}
  Given <- Defaults
  None = None
  FaultKinds = {"media", "default", "speed", "loopback", "pas", "front"}
  MaxPas = 2
  MaxBreakouts = 1
  MaxLoopback = 1
  MaxFaults = 1
SPECIFICATION Spec
INVARIANTS
  TypeOK
  MediaFollowsPas
  CacheIsApplied
  LoopbackStays
CHECK_DEADLOCK FALSE
