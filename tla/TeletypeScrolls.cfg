SPECIFICATION ScreenSpec
CONSTANTS
  Modes <- MCModes
  Strings <- MCStrings
  Controls <- MCControls
  Pages = {0, 1}
  Letters = {"A"}
  Attributes = {7, 135}
  Counts = {0, 2, 4}
  RowBound = 2
INVARIANT TeletypeScrolls
