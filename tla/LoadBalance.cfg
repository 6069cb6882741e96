SPECIFICATION Spec
CONSTANTS
  t1 = t1
  t2 = t2
  t3 = t3
  None = None
  Clusters <- MCClusters
  Tasks <- MCTasks
  Setups <- MCSetups
  Scale = 1024
  Pct = 117
  NiceTries = 0
INVARIANTS
  TasksWellPlaced
  WasteIsSeen
