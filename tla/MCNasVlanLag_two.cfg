CONSTANTS
  p1 = p1
  p2 = p2
  l1 = l1
  l2 = l2
  b1 = b1
  b2 = b2
  Ports = {p1, p2}
  Lags = {l1, l2}
  Phys = phys
  Bridges = {b1}
  None = None
  Vids = {2}
  VidsOf <- SameVid
  DefaultVlan = 1
  Requests <- Twice
  FaultKinds = {}
  MaxTable = 3
  MaxRequests = 1
  MaxExternal = 0
  MaxFaults = 0
SPECIFICATION Spec
SYMMETRY Symmetric
INVARIANTS
  CopyIsCurrent
  PortsApart
  NoStrayMembers
CHECK_DEADLOCK FALSE
