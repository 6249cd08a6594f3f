SPECIFICATION DebuggerSpec
CONSTANTS
  Code <- MCCode
  Data <- MCData
  Values <- MCValues
  Unseen = 99
  MaxCount = 2
INVARIANT RunStopsAtBreakpoint

