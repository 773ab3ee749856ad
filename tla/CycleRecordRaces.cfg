SPECIFICATION Spec
CONSTANTS
  Immediate = {i}
  OpenClose = {o}
  Replays = {r}
  Null = Null
  MaxLag = 1
  MaxTime = 2
  MaxCycles = 3
INVARIANTS
  ClosersHoldOpenCycles
  OpenCyclesMadeNothing
PROPERTIES
  CompletedCyclesFrozen
  TurnsMakeItemsOnce
CHECK_DEADLOCK FALSE
