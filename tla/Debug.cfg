SPECIFICATION DebugSpec
CONSTANTS
  Code <- MCCode
  Data <- MCData
  Values <- MCValues
  Unseen = 99
  MaxCount = 2
  Base = 1
  RomLength = 5
  Instructions <- MCInstructions
  Outside <- MCOutside
  Top = 6
  Dollars = {5}
  StringMax = 5
INVARIANTS
  ListsAreSets
  RunsOnlyWhileQuiet
  TraceIsClosed
  RomIsListed
PROPERTIES
  ChangesStopOneByOne
  TracingEnds
