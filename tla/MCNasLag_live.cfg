SPECIFICATION FairSpec
CONSTANTS
  p1 = p1  p2 = p2  l1 = l1  l2 = l2
  Ports = {p1, p2}
  Lags = {l1, l2}
  None = None
  NameOf <- OneName
  Requests <- OnePort
  FaultKinds = {}
  MaxRequests = 3
  MaxExternal = 1
  MaxLinkChanges = 0
  MaxFaults = 0
PROPERTY AttachReachesNpu
CHECK_DEADLOCK FALSE
