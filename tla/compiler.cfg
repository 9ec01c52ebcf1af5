SPECIFICATION Spec
CONSTANTS
  Sources <- MCSources
  IntMax = 200
  DepthLimit = 20
  TypeDepthLimit = 9
  Trees <- MCTrees
  Soups <- MCSoups
  Formats <- MCFormats
  Loops <- MCLoops
  MaxNest = 22
  MaxVars = 4
  MaxFields = 2
  MaxRounds = 8
  MaxHops = 3
  RefDepths <- MCRecorded
  WholeBodies <- MCWhole
  FieldBodies <- MCField
  ModuleNames <- MCTaken
  NullBodies <- MCNull
  Bits <- MCBits
  ZeroDepth = 12
  Defs <- MCDefs
  Tasks <- MCTasks
INVARIANTS ScanExact TreesExact LoopMeaning ParserSafe DepthsSound NullSafe NamesApart TypesSound
CHECK_DEADLOCK FALSE
