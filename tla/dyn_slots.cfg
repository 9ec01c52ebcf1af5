SPECIFICATION DynSpec
CONSTANTS
  FirstCap = 2
  TableMax = 2
  PlaceMax = 2
  DepthMax = 2
  TaskMax = 0
  GenMax = 2
  ColorMod = 2
  Blocks = {b1, b2}
  Sizes = {1, 2}
  Makes = {0}
  FirstSlots = 1
  SlotsMax = 2
INVARIANTS DispatchSound BytesExact
PROPERTIES GrowsOnlyWhenFull
SYMMETRY BlockSymmetry
CHECK_DEADLOCK FALSE
