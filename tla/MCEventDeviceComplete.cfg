CONSTANTS
  TouchDevices = {ts}
  KeyDevices = {keys}
  WithButton = {}
  capacity = 16
  iSize = 8
  MaxFrames = 6
SPECIFICATION Spec
CHECK_DEADLOCK FALSE
INVARIANT TouchIsComplete
