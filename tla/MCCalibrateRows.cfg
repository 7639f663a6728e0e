SPECIFICATION Spec
CONSTANTS
  iXres = 24
  iYres = 16
  iOffset = 3
  Panels <- MCPanels
  Aims <- MCAims
  AimError = 1
  Garbage <- MCGarbage
  Uninitialised = Uninitialised
  Absent = Absent
  Empty = Empty
  MaxTouches = 6
  MaxUnread = 2
  MaxRuns = 2
INVARIANT RowsAreRecovered
CHECK_DEADLOCK FALSE
