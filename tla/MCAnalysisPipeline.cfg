SPECIFICATION Spec
CONSTANTS
  main = main
  util = util
  relative = relative
  Files = {main, util}
  Names = {main, util, relative}
  Spelling <- MixedSpelling
  Kinds <- SomeKinds
  MinConfidence = 1
  MaxFindings = 1
  Profiles = {p, q}
  MaxTriggers = 3
  None = None
SYMMETRY ProfileSymmetry
INVARIANTS OneAnalysisPerFile ActiveIsCurrent HoverMatchesDiagnostics
CHECK_DEADLOCK FALSE
