SPECIFICATION Spec
CONSTANTS
  Regions = {1, 2}
  Slabs = {1, 2}
  Words = {1, 2}
  Slots = {1, 2, 3}
  Fields = {1}
  Locals = {a, b}
  Hosts = {}
  Null = Null
  NoRegion = NoRegion
  SlabOf <- PairSlabOf
  WordOf <- PairWordOf
  Depth <- MCDepth
  RsSat = 2
  SweepBudget = 1
  SeedBudget = 1
  MarkBudget = 2
  MarkEvery = 1
  ScanChunk = 2
  PinMax = 3
  Allow = {}
INVARIANTS TypeOK LiveIntact RsExact
SYMMETRY LocalSymmetry
