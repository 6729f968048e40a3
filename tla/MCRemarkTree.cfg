SPECIFICATION FairSpec
CONSTANTS
  a = a
  b = b
  build = build
  shadow = shadow
  log = log
  torn = torn
  huge = huge
  Shadows = {shadow}
  Reports <- AllReports
  MaxRequests = 3
  MaxFaults = 1
  None = None
INVARIANTS TreeBelongs TreeIsStored
PROPERTIES TreeNeverRegresses TreeCatchesUp
CHECK_DEADLOCK FALSE
