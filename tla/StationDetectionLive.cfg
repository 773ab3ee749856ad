SPECIFICATION FairSpec
CONSTANTS
  Completers = {p, q}
  SlowAfter = 1
  DownAfter = 2
  MaxTime = 4
  MaxCycles = 2
  MaxStalls = 1
  MaxLosses = 1
PROPERTIES
  TimerActs
  QuietTimersAreExact
CHECK_DEADLOCK FALSE
