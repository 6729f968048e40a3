SPECIFICATION Spec
CONSTANTS
  None = None
  given = given
  GivenIds = {given}
  Files = {"a.cpp"}
  PerfLines <- Samples
  JsonLines <- Records
  Installations <- Tools
  Half = 16
  MaxImports = 2
  MaxLines = 4
INVARIANTS RowsBelong OneImportPerProfile PerfIsCounted QueriesAgree VerdictsAreConsistent
PROPERTY EstimateCoversRows
CHECK_DEADLOCK FALSE
