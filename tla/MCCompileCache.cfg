SPECIFICATION Spec
CONSTANTS
  Keys = {k1, k2, k3, k4}
  Values = {v1, v2}
  MaxEntries = 3
  Nothing = Nothing
INVARIANTS MapMatchesOrder WithinLimit
PROPERTY ImplementsLru
