SPECIFICATION Spec
INVARIANTS
  RecordedResults
  LogIsHistory
  MeasuredErrorCoversLoads
PROPERTIES
  WaitForeseesPick
  RecoversFromSpike
CHECK_DEADLOCK FALSE
