SPECIFICATION Spec
CONSTANTS
  Groups = {root, a, b, c}
  Root = root
  Parent <- MCParent
  Limited = {a, b}
  Tasks = {t1, t2}
  IdleTasks = {t2}
  None = None
  root = root
  a = a
  b = b
  c = c
INVARIANTS
  HierarchicalCounts
  GroupEntitiesHaveWork
  ThrottleCountsAncestors
  LeafListOrdered
