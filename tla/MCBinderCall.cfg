SPECIFICATION LiveSpec
CONSTANTS
  client = client
  test = test
  input = input
  manager = manager
  Clients = {client}
  Services = {test, input}
  Manager = manager
  None = None
  NameOf <- MCNameOf
  MaxThreads <- MCMaxThreads
  Slots <- MCSlots
  MaxCalls <- MCMaxCalls
  Mortal = {client}
INVARIANTS
  AnsweredByTheService
  BuffersBalance
  HandlesStand
PROPERTIES
  ImplementsRemoteCall
  CallsReturn
CHECK_DEADLOCK FALSE
