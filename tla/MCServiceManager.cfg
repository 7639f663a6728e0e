CONSTANTS
  input1 = input1
  input2 = input2
  test1 = test1
  InputManager = InputManager
  TestService = TestService
  Services = {input1, input2, test1}
  Names = {InputManager, TestService}
  NameOf <- MCNameOf
  Clients = {client}
  Loopers = {main}
  Entries = {e1, e2, e3}
  NoService = NoService
  NoName = NoName
  NoEntry = NoEntry
  MaxAdds <- MCAdds
  MaxGets = 1
SPECIFICATION Spec
CHECK_DEADLOCK FALSE
INVARIANTS
  OneEntryPerName
  HandlesAreOurs
  ReferencesBalance
  DeathIsArmed
  NobodyIsForgotten
PROPERTIES
  ImplementsServiceRegistry
