SPECIFICATION Spec
CONSTANTS
  NTasks = 2
  MaxTick = 400
  MaxChanges = 4
  Modes <- Approximate
  Nice <- EqualNice
  ChangeTicks <- PhaseTicks
  ChangeTasks <- Tasks
  Weight <- MCWeight
  LoadMax <- MCLoadMax
  Delta <- MCDelta
  Decay <- MCDecay
INVARIANTS
  SameSchedule
  LoadBounded
PROPERTIES
  RecordedFairness
CHECK_DEADLOCK FALSE
