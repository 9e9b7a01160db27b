SPECIFICATION AuditSpec
CONSTANTS
  MCPods = {p1, p2}
  MCNodes = {n1}
  Keys <- MCKeys
  ResourceOf <- MCResourceOf
  PodSpecs <- MCOneSpec
  Allocatables <- MCAllocatables
  NoNode = NoNode
  Absent = Absent
  Unread = Unread
  Nothing = Nothing
  SkipCompressible = FALSE
  NodeInformerStarted = TRUE
  MaxRequeue = 1
  MaxChanges = 4
SYMMETRY MCSymmetry
CHECK_DEADLOCK FALSE
INVARIANTS
  TypeOK
  PodListConverged
  Converging
  TotalsAgree
  BooksExact
  NodeListConverged
  AllocatableExact
  AnswerIsTrue
PROPERTIES
  MirrorSpec
