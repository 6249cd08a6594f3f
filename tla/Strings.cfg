SPECIFICATION Spec
CONSTANTS
  Size = 4
  ByteSize = 2
  Widths = {1, 2}
  DS = 0
  ES = 1
  Memory <- MCMemory
  Contents <- MCContents
INVARIANTS
  BlocksMove
  EndsInTime
  OrderIsTold
CHECK_DEADLOCK FALSE
