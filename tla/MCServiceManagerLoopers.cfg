CONSTANTS
  input1 = input1
  input2 = input2
  test1 = test1
  InputManager = InputManager
  TestService = TestService
  Services = {input1, test1}
  Names = {InputManager, TestService}
  NameOf <- MCNameOf
  Clients = {client}
  Loopers = {main, looper}
  Entries = {e1, e2, e3}
  NoService = NoService
  NoName = NoName
  NoEntry = NoEntry
  MaxAdds <- MCTwo
  MaxGets = 0
SPECIFICATION Spec
CHECK_DEADLOCK FALSE
INVARIANTS
  OneEntryPerName
