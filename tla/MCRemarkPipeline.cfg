SPECIFICATION Spec
CONSTANTS
  main = main
  util = util
  shadow = shadow
  build = build
  Files = {main, util}
  Yamls = {shadow, build}
  ShadowYaml <- SharedYaml
  MaxTexts = 2
  MaxRequests = 2
  None = None
INVARIANTS ShownBelongs ShownIsStored
PROPERTY ShownNeverRegresses
CHECK_DEADLOCK FALSE
