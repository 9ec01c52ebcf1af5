SPECIFICATION Spec
CONSTANTS
    ty1 = ty1
    ty2 = ty2
    ty3 = ty3
    Classes = {1, 2}
    NSlots = 2
    WordSlots = 2
    MaxSlabs = 2
    Types = {ty1, ty2, ty3}
    Sites <- MCSites
    TypeHash <- MCTypeHash
    LinearMax = 1
    IndexCap = 4
    GenCells = 2
    MaxGen = 4
    Floor = 1
    ScaleMul = 2
    ScaleMax = 4
    IntMax = 7
    MaxBytes = 5
INVARIANTS SlotsExact KnownIsBlack AccountExact
CHECK_DEADLOCK FALSE
