SPECIFICATION Spec
CONSTANTS
  Byte = 2
  Word = 4
  Long = 8
  Limbs = 3
  DecimalBytes <- MCDecimalBytes
  Sample <- MCSample
INVARIANTS
  BySteps
  LongNumbersExact
  DivisionExact
  
  BytesAreBits
CHECK_DEADLOCK FALSE
