SPECIFICATION Spec
CONSTANTS
  MaxEvents = 3
  MaxPresses = 2
INVARIANTS NoThreadOutlivesMain SimulatedModelIsSeen
PROPERTIES ProgramEnds PauseReturns
CHECK_DEADLOCK FALSE
