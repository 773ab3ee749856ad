SPECIFICATION Spec
CONSTANTS
  Orders = {o1, o2}
  Products = {p1}
  Cycles = {c1, c2}
  Users = {u1}
  Scraps = {d1}
  Null = Null
  AutoComplete = TRUE
  MaxTarget = 1
  MaxMade = 2
  MaxSequence = 2
INVARIANTS
  QuantitiesAddUp
  OpenedOrdersSequenced
  HeldOrdersRememberStatus
PROPERTIES
  SettledOrdersStay
CONSTRAINT TwoAtATime
SYMMETRY Symmetry
CHECK_DEADLOCK FALSE
