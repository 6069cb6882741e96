SPECIFICATION Spec
CONSTANTS
  CPUs = {c1, c2}
  Tasks = {t1, t2, t3}
  Children = {t3}
  Allowed <- MCAllowed
  Weight <- MCWeight
  HeavyWeight = 2
  W = 16
  Latency = 2
  MinGran = 1
  WakeGran = 1
  MaxSleepLag = 2
  None = None
  c1 = c1
  t1 = t1
  t2 = t2
  t3 = t3
INVARIANTS
  BuddiesQueued
  VruntimeNearQueue
PROPERTIES
  MinVruntimeForward
  QueuedRuns
VIEW Relative
CONSTRAINT Awake
