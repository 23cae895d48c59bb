CONSTANTS
  p1 = p1
  p2 = p2
  l1 = l1
  l2 = l2
  b1 = b1
  b2 = b2
  Ports = {p1, p2}
  Lags = {l1}
  Phys = phys
  Bridges = {b1, b2}
  None = None
  Vids = {2}
  VidsOf <- SameVid
  DefaultVlan = 1
  Requests <- Lists
  FaultKinds = {}
  MaxTable = 2
  MaxRequests = 2
  MaxExternal = 1
  MaxFaults = 0
SPECIFICATION Spec
SYMMETRY Symmetric
INVARIANTS
  TypeOK
  MembersInVlans
  NoStrayMembers
  VlansFollowKernel
CHECK_DEADLOCK FALSE
