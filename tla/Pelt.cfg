SPECIFICATION PeltSpec
CONSTANTS
  Tasks = {t1}
  Period = 2
  Capacity = 2
  Tolerance = 2
  MaxLag = 3
INVARIANTS
  SumCoversAvg
PROPERTIES
  GroupLoadTracks
  LoadGoesAway
