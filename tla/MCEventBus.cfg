SPECIFICATION Spec
CONSTANTS
  main = main
  server = server
  Threads <- MCThreads
  Topics <- MCTopics
  Callbacks <- MCCallbacks
  Events <- MCEvents
  Any = "*"
  TypeOf <- MCTypeOf
  Program <- MCProgram
  Body <- MCBody
  Nobody = Nobody
INVARIANT NoCallbackUnderLock
PROPERTIES AllCallsReturn ImplementsFanout
