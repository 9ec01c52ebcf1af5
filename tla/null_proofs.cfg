SPECIFICATION Spec
CONSTANTS
  Sources = {}
  IntMax = 200
  DepthLimit = 20
  TypeDepthLimit = 9
  Trees = {}
  Soups = {}
  Formats = {}
  Loops = {}
  MaxNest = 0
  MaxVars = 4
  MaxFields = 2
  MaxRounds = 8
  MaxHops = 3
  RefDepths <- MCRecorded
  WholeBodies = {}
  FieldBodies = {}
  ModuleNames <- MCTaken
  NullBodies <- MCNull
  Bits <- MCBits
  ZeroDepth = 12
  Defs <- MCDefs
  Tasks <- NoTasks
INVARIANT NullSafeAlways
CHECK_DEADLOCK FALSE
