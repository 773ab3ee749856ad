SPECIFICATION Spec
CONSTANTS
  Consumers = {p, q}
  Timers = {q}
  Operators = {p}
  Reconcilers = {p, q}
  Reasons = {R}
  Scopes = {"block", "row"}
  Null = Null
  Margin = 0
  MaxLag = 0
  MaxTime = 1
  MaxRows = 2
INVARIANTS
  CurrentStateUnique
PROPERTIES
  ImplementsCurrentState
