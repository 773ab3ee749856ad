SPECIFICATION Spec
CONSTANTS
  Immediate = {c1}
  Unlocked = {c2}
  Flushers = {f1, f2}
  Rows = {r1, r2}
  Null = Null
  MaxUses = 2
INVARIANT NeverDebitedTwice
PROPERTIES
  ConsumptionStays
  ApartUseIsCounted
CHECK_DEADLOCK FALSE
