SPECIFICATION Spec
CONSTANTS
  CPUs = {c1, c2}
  HotPlug = {c2}
  Quota = 1
  Burst = 0
  Slice = 2
  MinRuntime = 1
  Passes = 2
  MaxScale = 1
  Elsewhere = 2
  MaxTasks = 1
  MaxDelta = 1
  MaxDebt = 1
  MaxIterations = 2
INVARIANTS
  ThrottledAreInDebt
PROPERTIES
  RuntimeConserved
  ThrottledRunsAgain
  IdleTimerStops
