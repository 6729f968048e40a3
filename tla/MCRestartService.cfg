SPECIFICATION Spec
CONSTANTS
  Procs = {p1, p2}
  None = None
  MaxRestarts = 2
  Window = 5
  ReadyTimeout = 2
INVARIANT RestartRestoresService
CHECK_DEADLOCK FALSE
