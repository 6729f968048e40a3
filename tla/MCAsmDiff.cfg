SPECIFICATION AsmSpec
CONSTANTS
  Lines <- Listing
  MaxLines <- Bounds
INVARIANTS SourceMapIsExact DiffIsFaithful DiffIsShortest
CHECK_DEADLOCK FALSE
