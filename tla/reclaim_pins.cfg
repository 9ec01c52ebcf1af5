SPECIFICATION Spec
CONSTANTS
  Regions = {1}
  Slabs = {1}
  Words = {1, 2}
  Slots = {1, 2}
  Fields = {1}
  Locals = {a, b}
  Hosts = {h, k}
  Null = Null
  NoRegion = NoRegion
  SlabOf <- MCSlabOf
  WordOf <- MCWordOf
  Depth <- MCDepth
  RsSat = 3
  SweepBudget = 1
  SeedBudget = 1
  MarkBudget = 1
  MarkEvery = 1
  ScanChunk = 2
  PinMax = 3
  Allow = {}
INVARIANTS PinCovers
SYMMETRY LocalSymmetry
