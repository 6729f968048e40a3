SPECIFICATION ChoiceSpec
CONSTANTS
  Profiles = {p, q, r}
  MaxOps = 3
  NoProfile = NoProfile
INVARIANTS KnownIsStored DeletedIsNotActive
CHECK_DEADLOCK FALSE
