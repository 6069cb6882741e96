SPECIFICATION Spec
CONSTANTS
  Starts <- MCStarts
  MaxTicks = 2030
  None = None
INVARIANTS
  LoadSettlesByCutoff
  DecayPiecesFit
  PrioritiesKept
  DeltasWithinBudget
CHECK_DEADLOCK FALSE
