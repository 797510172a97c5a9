SPECIFICATION Spec
CONSTANTS
  f1 = f1
  s = s
  Files <- MCFiles
  Whole = Whole
  Sources <- MCSources
  Dependents <- MCDependents
  Chunk = 1
  MaxMessages = 2
PROPERTY AcceptedSifReadCurrentInputs
