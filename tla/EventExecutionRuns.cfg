SPECIFICATION FairSpec
CONSTANTS
  Executions = {x}
  Length = 2
  JobActions = {2}
  SoftActions = {1}
  Users = {u}
  Jobs = {j}
  Null = Null
  Tolerated = 1
  MaxStalls = 1
  MaxLogs = 3
INVARIANTS
  JobLogAgrees
  SuccessMeansDone
  OnlyFailuresOrphan
PROPERTIES
  ExecutionEnds
CHECK_DEADLOCK FALSE
