SPECIFICATION Spec
CONSTANTS
  p1 = p1  p2 = p2  b1 = b1  b2 = b2
  Ports = {p1, p2}
  Bridges = {b1, b2}
  None = None
  Vids = {1, 10}
  VidsOf <- OwnVids
  DefaultVlan = 1
  Requests <- OnePortLists
  FaultKinds = {"kernel", "vlanCreate", "portAdd", "bulkAdd", "portDel",
                "register", "nodeReused"}
  MaxRequests = 3
  MaxExternal = 1
  MaxFaults = 1
INVARIANTS TypeOK NoNpuStray FollowsKernel NpuFollowsLists
SYMMETRY Symmetric
CHECK_DEADLOCK FALSE
