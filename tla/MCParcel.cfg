CONSTANTS
  Capacity = 13
  Slots = 2
  ObjWords = 4
  Lengths = {0, 3, 8}
  UINT = 65536
  MaxPuts = 4
SPECIFICATION Spec
CHECK_DEADLOCK FALSE
INVARIANTS
  SpaceAddsUp
  TablePointsAtObjects
  LossIsFlagged
  NeverAnother
  NothingAfterAGap
