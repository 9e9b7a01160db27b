SPECIFICATION FairAuditSpec
CONSTANTS
  MCPods = {p1}
  MCNodes = {n1}
  Keys <- MCKeys
  ResourceOf <- MCResourceOf
  PodSpecs <- MCTwoSpecs
  Allocatables <- MCAllocatables
  NoNode = NoNode
  Absent = Absent
  Unread = Unread
  Nothing = Nothing
  SkipCompressible = FALSE
  NodeInformerStarted = FALSE
  MaxRequeue = 1
  MaxChanges = 4
CHECK_DEADLOCK FALSE
PROPERTIES
  EventuallyConverged
  RetriesEnd
