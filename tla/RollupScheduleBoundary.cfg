SPECIFICATION FairSpec
CONSTANTS
  Scopes = {s1, s2}
  Null = Null
  MaxFaults = 2
PROPERTIES
  BoundaryBringsTick
  ApartPlansStay
CHECK_DEADLOCK FALSE
