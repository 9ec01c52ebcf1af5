SPECIFICATION Spec
CONSTANTS
  Regions = {1}
  Slabs = {1}
  Words = {1, 2}
  Slots = {1, 2}
  Fields = {1, 2}
  Locals = {a, b}
  Hosts = {}
  Null = Null
  NoRegion = NoRegion
  SlabOf <- MCSlabOf
  WordOf <- MCWordOf
  Depth <- MCDepth
  RsSat = 3
  SweepBudget = 1
  SeedBudget = 1
  MarkBudget = 1
  MarkEvery = 2
  ScanChunk = 1
  PinMax = 3
  Allow = {"struct"}
INVARIANTS LiveIntact BlackClosed RootsBlack MarksClean
PROPERTIES MarkingShrinks
SYMMETRY LocalSymmetry
