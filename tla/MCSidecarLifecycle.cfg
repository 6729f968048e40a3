SPECIFICATION FairSpec
CONSTANTS
  Procs = {p1, p2}
  None = None
  MaxRestarts = 2
  Window = 5
  ReadyTimeout = 2
INVARIANTS AtMostOneSidecar BoundedRestartRate AtMostOneOrphan
PROPERTY CrashIsAnswered
CHECK_DEADLOCK FALSE
