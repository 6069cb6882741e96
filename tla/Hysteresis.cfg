SPECIFICATION HystSpec
CONSTANTS
  JainValues <- MCJainValues
  CtlMaxTick = 14
PROPERTIES
  ReversalNeedsGap
  SwitchesSpaced
CHECK_DEADLOCK FALSE
