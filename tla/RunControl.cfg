SPECIFICATION Spec
CONSTANTS
  Devices <- QuadraDevices
  Level <- QuadraLevel
  Masks = {0, 2, 7}
  Addrs = {main, stop, func}
  RomStops = {stop}
  RomFuncs = {func}
  MainPolls = TRUE
  MaxPosts = 2
  MaxRom = 2
INVARIANT TypeOK
INVARIANT AtMostOncePerPost
INVARIANT ClaimIsDeliverable
INVARIANT StopHoldsUntilIrq
 
PROPERTY ImplementsMailbox
PROPERTY StopWakes
PROPERTY PendingIsServed
CHECK_DEADLOCK FALSE
