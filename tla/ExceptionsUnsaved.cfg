SPECIFICATION Spec
CHECK_DEADLOCK FALSE
CONSTANTS
  Pcs <- LowPcs
  Handler <- HandlerPc
  Raisers = {"trap"}
  Levels = {}
  SrLoads <- NoLoads
  Programs <- Users
  StackWords = 62
  MaxPush = 1
  MaxDepth = 2
INVARIANT NestedFramesApart
