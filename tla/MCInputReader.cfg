CONSTANTS
  Devices = {d1, d2}
  MaxFd = 6
  MaxChanges = 3
  MaxFrames = 1
  MaxOthers = 1
SPECIFICATION Spec
CHECK_DEADLOCK FALSE
INVARIANTS
  PolledIsListed
  PluggedIsHeard
  OthersAreSafeUntilAHangUp
PROPERTY
  ReadyIsServed
