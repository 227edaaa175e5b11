SPECIFICATION Spec
CONSTANTS
  LongStream = 4
  ShortStream = 2
  Clients <- MCClients
  Symbols = {"x"}
  NL = "newline"
  WellFormed <- MCWellFormed
  Backlog = 2
  MaxSent <- MCMaxSent
  MaxStarts = 2
  NoClient = NoClient
INVARIANTS TypeOK FramingLossless
PROPERTIES StopMeansStopped LinesArePublished StopReturnsIfClientsLeave
CHECK_DEADLOCK FALSE
