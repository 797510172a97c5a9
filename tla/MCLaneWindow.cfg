SPECIFICATION Spec
CONSTANTS
  Files = {f1, f2}
  Whole = Whole
  AgingBound = 2
  MaxTick = 4
  MaxGeneration = 5
  MaxTides = 2
CONSTRAINT MCBound
INVARIANTS
  TypeOK
  OneTidePerWindow
  NoOrphanedSlot
  AgeIsExact
  AlarmOncePerWindow
PROPERTY CoverageNeverShrinks
