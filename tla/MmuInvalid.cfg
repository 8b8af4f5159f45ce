SPECIFICATION Spec
CONSTANTS
  Pages <- TwoPages
  Frames = {0, 1}
  Tables = {0, 1, 2, 9}
  Index = {0, 1}
  Slots = {0}
  Slot <- OneSlot
  Ri <- TwoRi
  Pi <- TwoPi
  Pgi <- TwoPgi
  BadTables = {9}
  Edits <- UnmapEdits
  Roots = {0}
  TtrLoads = {}
  Uses <- OneUse
  Dfcs = {1}
  InitMem <- TwoMem
  InitPage = 0
  InitFrame = 0
  InitTable = 0
  InitIndex = 0
INVARIANT PtestSeesInvalid
