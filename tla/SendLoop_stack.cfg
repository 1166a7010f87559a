CONSTANTS
  Tries = 1
  MaxPays = 2
  MaxCalls = 2
  MaxAtOnce = 1
  MaxRestarts = 0
SPECIFICATION Spec
CHECK_DEADLOCK FALSE
INVARIANT OneInFlight
