SPECIFICATION Spec
CONSTANTS
  MinCap = 2
  CapMax = 3
  GenMax = 2
  ClearMax = 1
  Values = {u, v}
  Raw <- MCRaw
  Shrink = "packed"
INVARIANTS DenseExact InBounds
PROPERTIES MapImplemented NoResurrection
SYMMETRY ValueSymmetry
CHECK_DEADLOCK FALSE
