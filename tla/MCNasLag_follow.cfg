SPECIFICATION Spec
CONSTANTS
  p1 = p1  p2 = p2  l1 = l1  l2 = l2
  Ports = {p1, p2}
  Lags = {l1, l2}
  None = None
  NameOf <- TwoNames
  Requests <- BlockLists
  FaultKinds = {}
  MaxRequests = 3
  MaxExternal = 1
  MaxLinkChanges = 1
  MaxFaults = 0
INVARIANTS FollowsKernel PublishedIsCurrent BlockFollowsLink
SYMMETRY Symmetric
CHECK_DEADLOCK FALSE
