SPECIFICATION Spec
CONSTANTS
  kLayers = 2
  MaxStarts = 2
  MaxPasses = 2
INVARIANTS TracesHaveNoGap MatrixFollowsTrace CallTreeIsComplete
PROPERTIES PausedMeansSilent PauseReturns
CHECK_DEADLOCK FALSE
