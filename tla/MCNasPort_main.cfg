SPECIFICATION Spec
CONSTANTS
  p1 = p1  p2 = p2  n1 = n1  n2 = n2
  Ports = {p1, p2}
  Fds = {n1, n2}
  None = None
  FaultKinds = {"open", "linkGet", "register", "alias", "tapDelete", "update", "osGet"}
  MaxRequests = 3
  MaxLinkChanges = 3
  MaxRestarts = 2
  MaxFrames = 2
  MaxFaults = 1
INVARIANTS TypeOK DescriptorsAgree TapsFollowLinks PortsComeBack FramesFromOwnTap FramesToOwnTap ReadsDoNotWait
SYMMETRY Symmetric
CHECK_DEADLOCK FALSE
