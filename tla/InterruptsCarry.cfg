SPECIFICATION Spec
CONSTANTS
  Vectors <- MCVectors
  GuestSeg <- MCGuestSeg
  GuestOffs <- MCGuestOffs
  EntryOff = 256
  Hooks <- MCHooks
  Requests <- MCRequests
  Results <- MCResults
  MaxStack = 4
PROPERTY CarryReachesCaller
CHECK_DEADLOCK FALSE
