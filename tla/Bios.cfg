SPECIFICATION BiosSpec
CONSTANTS
  Vectors <- MCVectors
  GuestSeg <- MCGuestSeg
  GuestOffs <- MCGuestOffs
  EntryOff = 256
  Hooks <- MCHooks
  Requests <- MCRequests
  Results <- MCResults
  MaxStack = 4
  Modes <- MCModes
  Strings <- MCStrings
  Controls <- MCControls
  Pages = {0, 1}
  Letters = {"A"}
  Attributes = {7, 135}
  Counts = {0, 2, 4}
  RowBound = 2
INVARIANTS
  TypeOK
  FlagsAddressLive
  FrameDiscipline
  HardwareShowsActivePage
  RepeatsRunOn
  StringsRunOn
PROPERTIES
  ReturnAddressesIntact
  SavedFlagsKept
  ZFReachesCaller
  RestoreRestores
CHECK_DEADLOCK FALSE
