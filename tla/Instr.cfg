SPECIFICATION Spec
CHECK_DEADLOCK FALSE
CONSTANTS
  Pages = 3
  Regs = {0, 7}
  Operands = {3, 4, 5, 6}
  Second = 2
  StackTop = 6
  Perms = {"none", "ro", "rw"}
  InitMem <- Bytes12
  Calc <- Mix
INVARIANT FaultLeaves
INVARIANT RestartsExact
INVARIANT FaultNamesPage
PROPERTY OnAllowedPages
PROPERTY PagerKeepsOut
