SPECIFICATION Spec
CONSTANTS
  p1 = p1  p2 = p2  l1 = l1  l2 = l2
  Ports = {p1, p2}
  Lags = {l1, l2}
  None = None
  NameOf <- TwoNames
  Requests <- OnePort
  FaultKinds = {"kernel", "npuLagCreate", "npuLagDelete", "npuMemberAdd", "npuMemberDel",
                "npuBlock", "npuLinkGet", "register", "deregister", "publish"}
  MaxRequests = 3
  MaxExternal = 0
  MaxLinkChanges = 0
  MaxFaults = 2
INVARIANTS TypeOK NoNpuOrphans TablesAgree
PROPERTY ImplementsTable
CHECK_DEADLOCK FALSE
