SPECIFICATION Spec
CHECK_DEADLOCK FALSE
CONSTANTS
  Pcs <- LowAndHighPcs
  Handler <- HandlerPc
  Raisers = {"illegal", "trap", "addr", "chk", "fp", "afault"}
  Levels = {5, 7}
  SrLoads <- Loads
  Programs <- AnyProgram
  StackWords = 62
  MaxPush = 1
  MaxDepth = 2
INVARIANT ReturnsToInterrupted
INVARIANT FramesIntact
