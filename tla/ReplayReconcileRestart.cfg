SPECIFICATION FairSpec
CONSTANTS
  Trackers = {p, q}
  MaxCycles = 3
  MaxFaults = 2
INVARIANTS
  NoReplayForgotten
PROPERTY RestartHeals
CHECK_DEADLOCK FALSE
