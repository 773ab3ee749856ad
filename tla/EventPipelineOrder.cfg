SPECIFICATION FairSpec
CONSTANTS
  Points = {p, q}
  Events = {{p}, {p, q}}
  AllOf = {{p}}
  Operator = "any_change"
  Threshold = 0
  Values = {0, 1}
  Befores = {0}
  Null = Null
  MaxEntries = 1
  Capacity = 1
  Concurrency = 1
  MaxReadings = 3
  MaxRestarts = 1
INVARIANTS
  TypeOK
  RepeatsNeverTrigger
PROPERTIES
  QueueDrains
CHECK_DEADLOCK FALSE
