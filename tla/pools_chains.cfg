SPECIFICATION FairSpec
CONSTANTS
  FirstCap = 3
  TableMax = 3
  PlaceMax = 2
  DepthMax = 2
  TaskMax = 0
  GenMax = 2
  ColorMod = 2
  Blocks = {}
  Sizes = {1, 2}
  Makes = {0}
INVARIANTS ChainsMutual FreeListExact
PROPERTIES TreeImplemented CallsReturn WorkShrinks
