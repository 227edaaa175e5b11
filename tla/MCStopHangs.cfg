SPECIFICATION Spec
CONSTANTS
  LongStream = 2
  ShortStream = 1
  Clients <- MCClients
  Symbols = {"x"}
  NL = "newline"
  WellFormed <- MCWellFormed
  Backlog = 2
  MaxSent <- MCMaxSent
  MaxStarts = 1
  NoClient = NoClient
PROPERTY StopReturns
CHECK_DEADLOCK FALSE
