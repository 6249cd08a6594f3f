SPECIFICATION Spec
CONSTANTS
  SegSize = 24
  Codes <- MCCodes
  Starts = {3, 21}
  Filler = 39
  Count = 2
  OverflowChecks = FALSE
INVARIANT SameInstruction
INVARIANT InStep
CHECK_DEADLOCK FALSE
