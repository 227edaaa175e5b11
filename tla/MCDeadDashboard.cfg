SPECIFICATION Spec
CONSTANTS
  MaxEvents = 3
  MaxPresses = 2
INVARIANT CallbackUsesLiveDashboard
CHECK_DEADLOCK FALSE
