SPECIFICATION Spec
CONSTANTS
  Materials = {m1, m2}
  Groups = {g1, g2}
  Users = {u1, u2}
  Null = Null
  MaxRows = 2
  MaxVersions = 2
INVARIANTS
  CurrentIsLatest
PROPERTIES
  OnlyRacesBreakGroups
SYMMETRY Symmetry
CHECK_DEADLOCK FALSE
