SPECIFICATION Spec
CONSTANTS
  Consumers = {c1, c2}
  Timers = {t1}
  Operators = {o1}
  Reconcilers = {}
  Reasons = {R}
  Scopes = {"block"}
  Null = Null
  Margin = 1
  MaxLag = 1
  MaxTime = 2
  MaxRows = 2
SYMMETRY ConsumerSymmetry
INVARIANTS
  TypeOK
  RowsConsistent
  BlockUniform
  TransactionsSound
  OnlyStaleSplitsRejected
PROPERTIES
  ClosedRowsFrozen
  OnlyLateOrStaleOverlap
