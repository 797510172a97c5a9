SPECIFICATION Spec
CONSTANTS
  Clients <- MCClients
  Daemons <- MCDaemons
  Commands <- MCCommands
  MaxVersion = 2
  MaxTroubles = 1
INVARIANTS
  TypeOK
  SessionsAnswerForTheirClients
PROPERTIES
  ShowsLatest
CHECK_DEADLOCK FALSE
