SPECIFICATION AuditSpec
CONSTANTS
  MCPods = {p1}
  MCNodes = {n1}
  Keys <- MCKeys
  ResourceOf <- MCResourceOf
  PodSpecs <- MCOneSpec
  Allocatables <- MCRoomy
  NoNode = NoNode
  Absent = Absent
  Unread = Unread
  Nothing = Nothing
  SkipCompressible = FALSE
  NodeInformerStarted = FALSE
  MaxRequeue = 1
  MaxChanges = 3
CHECK_DEADLOCK FALSE
INVARIANT
  RoomIsFound
