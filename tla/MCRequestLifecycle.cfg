SPECIFICATION FairSpec
CONSTANTS
  Ids = {a, b}
  Interactive = interactive
  Heavy = heavy
  Capacity = 1
  LateLimit = 1
  MaxRequests = 3
  MaxCancels = 1
CHECK_DEADLOCK FALSE
INVARIANTS
  TypeOK
  CancelledGetsNoPayload
  CancelSpentOnce
  NoTokenLeaks
  ExitDropsNothing
PROPERTY EveryRequestAnswered
