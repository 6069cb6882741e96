SPECIFICATION FairSpec
CONSTANTS
  NTasks = 3
  MaxTick = 13
  MaxChanges = 3
  Modes <- Logics
  Nice <- MixedNice
  Weight <- MCWeight
  LoadMax <- MCLoadMax
  Delta <- MCDelta
  Decay <- MCDecay
INVARIANTS
  TypeOK
  LagBounded
PROPERTIES
  WaitingShrinks
  BlockedLoadFades
  StateFitsFairness
  ControllerSpec
CHECK_DEADLOCK FALSE
