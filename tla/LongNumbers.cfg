CONSTANTS
  Half = 4
  HostWords = 4
  ImmHalf = 2
  MaxWords = 2
  OverflowChecks = TRUE

SPECIFICATION Spec

INVARIANTS
  LongSum
  LongDifference
  JumpsCompare
  SumOverflow

\* The code ends, or panics.
CHECK_DEADLOCK FALSE
