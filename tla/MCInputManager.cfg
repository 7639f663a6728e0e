CONSTANTS
  c1 = c1
  c2 = c2
  d1 = d1
  d2 = d2
  e1 = e1
  e2 = e2
  touch = touch
  key = key
  Clients = {c1, c2}
  Descs = {d1, d2}
  Events = {e1, e2}
  Types = {touch, key}
  TypeOf <- MCTypeOf
  Masks <- MCMasks
  Loopers = {main}
  NoDesc = NoDesc
  NoClient = NoClient
  SocketSize = 1
  MaxListeners = 1
SPECIFICATION Spec
SYMMETRY Symmetry
CHECK_DEADLOCK FALSE
INVARIANTS
  ListenersHearAll
  ReferencesBalance
  DeathIsArmed
  NobodyIsForgotten
PROPERTIES
  OnlyIteratorsDangle
