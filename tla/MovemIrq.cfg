SPECIFICATION Spec
CHECK_DEADLOCK FALSE
CONSTANTS
  Regs = {0, 8, 9}
  Addr <- EvenAddr
  PageOf <- Paged
  CodePage = 0
  Instrs <- FourInstrs
  Perms = {"none", "ro", "rw"}
  InitR <- Registers
  InitMem <- Memory
  HandlerEAs = {0, 12}
  Traced = FALSE
  IrqAtRestart = TRUE
  MovemInside = FALSE
  MaxInstrs = 2
  MaxDepth = 2
INVARIANT RestartsAtFirst
