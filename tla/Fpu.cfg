SPECIFICATION Spec
CHECK_DEADLOCK FALSE
CONSTANTS
  Top = 1
  Payloads <- SomePayloads
  Finite <- SomeFinite
  Signs <- Positive
  Opcodes <- OneOfEach
  Enables <- SomeEnables
  StatusWrites <- SomeStatus
  Slots = 2
  MaxIns = 3
INVARIANT ExceptionsExact
INVARIANT CompareObeyed
INVARIANT RestoredExact
PROPERTY AccruedKeeps
