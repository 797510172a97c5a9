SPECIFICATION FairSpec
CONSTANTS
  f1 = f1
  f2 = f2
  s = s
  Files <- MCFiles
  Whole = Whole
  Sources <- MCSources
  Dependents <- MCDependents
  Chunk = 1
  MaxMessages = 2
INVARIANTS
  TypeOK
  StaleSifRearms
  SettledFactsAreFresh
  SlotsAreHeld
  IndexIsComplete
  ConvergedWhenQuiet
PROPERTIES
  PublishesSettledState
  Settles
