SPECIFICATION Spec
CONSTANTS
  Files <- MCFiles
  Txns <- MCTxns
  Plans <- MCPlans
  Workspaces <- MCWorkspaces
  MaxTroubles = 2
INVARIANTS
  TypeOK
  OwnsDestinations
  SidecarsAreTrue
  SomeoneProceeds
PROPERTIES
  PublishesVerified
  AllOrNothing
CHECK_DEADLOCK FALSE
