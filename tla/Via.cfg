SPECIFICATION Spec
CHECK_DEADLOCK FALSE
CONSTANTS
  Moves <- Motions
  Holds <- HeldKeys
  Nibbles = {5}
  Strays = {0}
  Registers = {1, 10, 16, 48}
  Commands <- ClockCommands
  BootOrbs <- Enabled
  ClockBytes = {1, 2}
  Rests = {1}
  AdbClocks = {1}
  Transfers <- Exchanges
  Typed = {"escape", "equals", "rightbracket"}
  Budgets <- Mixes
INVARIANT CommandsObeyed
INVARIANT AnswersRight
INVARIANT InStep
INVARIANT CommandsWhole
INVARIANT AnswersInOrder
INVARIANT KeysKept
INVARIANT TimersFollowLoad
PROPERTY TransfersEnd
