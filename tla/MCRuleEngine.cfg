SPECIFICATION Spec
CONSTANTS
  Projects <- TwoFiles
  Nodes <- AllNodes
  Trees <- FileTrees
  Workspace <- Home
  None = None
INVARIANTS FindingsAreOwn EarlyExitIsReal LayoutFindingsAreExact ReportResolves
CHECK_DEADLOCK FALSE
