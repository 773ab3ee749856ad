SPECIFICATION FairSpec
CONSTANTS
  MaxHour = 3
  HoursPerShift = 2
  Day = 2
  Rebuilt = {1}
  Rebuilders = {r}
  Updaters = {u}
  Archiver = a
  Null = Null
  MaxOpen = 1
  MaxCycles = 1
  MaxPasses = 2
  MaxFaults = 1
INVARIANTS
  NeverOvercounted
PROPERTIES
  OnlyCrossingsLoseBuckets
  QuietRebuildsAreExact
  SumsSettle
CHECK_DEADLOCK FALSE
