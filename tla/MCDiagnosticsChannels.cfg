SPECIFICATION FairSpec
CONSTANTS
  Capacity = 4
  PumpBurst = 2
  MessageBurst = 2
CHECK_DEADLOCK FALSE
INVARIANTS
  TypeOK
  NoCircularWait
PROPERTIES
  NobodyIsStuck
