CONSTANTS
  TouchDevices = {ts}
  KeyDevices = {keys}
  WithButton = {}
  capacity = 6
  iSize = 3
  MaxFrames = 8
SPECIFICATION Spec
CHECK_DEADLOCK FALSE
INVARIANTS
  FramesInOrder
  WholeFramesAreCooked
  ReleaseAfterItsPress
