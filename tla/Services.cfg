SPECIFICATION ServicesSpec
CONSTANTS
  Keycodes <- MCKeycodes
  Modifiers <- MCModifiers
  Normal <- MCNormal
  Shifted <- MCShifted
  MaxPresses = 3
  short = short
  long = long
  dir = dir
  Files <- MCFiles
  Directories <- MCDirectories
  Size <- MCSize
  LastHandle = 7
  Given <- MCGiven
  Lengths <- MCLengths
INVARIANTS
  StatusCoversQueue
  HandlesHold
PROPERTIES
  ReportsOnce
  ReadReturnsPeeked
  PollerDrains
  NewHandleWasFree
  ReadTellsBytes
