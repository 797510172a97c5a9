SPECIFICATION Spec
CONSTANTS
  Capacity = 2
  PumpBurst = 1
  MessageBurst = 6
CHECK_DEADLOCK FALSE
INVARIANT NoCircularWait
