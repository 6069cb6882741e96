SPECIFICATION Spec
CONSTANTS
  NTasks = 10
  MaxTick = 4400
INVARIANTS
  EqualTasksLookFair
CHECK_DEADLOCK FALSE
