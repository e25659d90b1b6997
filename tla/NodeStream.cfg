SPECIFICATION Spec
CONSTANTS
  Setups <- AllSetups
  MaxBytes = 3
  MaxCalls = 4
CHECK_DEADLOCK FALSE
INVARIANTS StreamSafe
PROPERTIES StreamProgress
