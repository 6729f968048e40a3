SPECIFICATION FairFixSpec
CONSTANTS
  Commands = {c1, c2}
  Compilers = {auto, clang}
  Default = auto
  MaxEntries = 2
  MaxTexts = 2
  Nothing = Nothing
INVARIANTS JudgedByItsOwnCode OneCompilerIsConsistent
PROPERTY StatusRecovers
CHECK_DEADLOCK FALSE
