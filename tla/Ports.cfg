SPECIFICATION PortsSpec
CONSTANTS
  Channels <- MCChannels
  Day = 2
  CountSize = 131072
  OverflowChecks = FALSE
  Deterministic = FALSE
  InitTimes <- MCInitTimes
  SetTimes <- MCSetTimes
  Bytes <- MCBytes
  Modes <- MCModes
  IndexSize = 9
  Value <- MCValue
  StreamBound = 4
  StrayBound = 1
  FromEnd = {0}
  Blocks <- MCBlocks
  Counts = {1, 2}
  Width = 5
  Height = 3
  Fill <- MCFill
  Inks <- MCInks
INVARIANTS
  TypeOK
  BlocksAreWhole
  StreamsKeepStep
  PixelShows
PROPERTIES
  ClockKeepsTime
  LatchedReadCoherent
  ReloadPairCoherent
  RetraceAlternates
