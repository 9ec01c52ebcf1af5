SPECIFICATION Spec
CONSTANTS
  FirstCap = 1
  TableMax = 2
  PlaceMax = 3
  DepthMax = 2
  TaskMax = 2
  GenMax = 1
  ColorMod = 3
  Blocks = {b1}
  Sizes = {1}
  Makes = {0}
INVARIANTS NamedPlaceAlive MarkOnStack
