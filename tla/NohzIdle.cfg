SPECIFICATION Spec
CONSTANTS
  NumCPUs = 3
  Housekeeping = {1, 2}
  MiscSets <- MCMiscSets
  MaxLoad <- MCMaxLoad
INVARIANTS
  BlockedLoadRemembered
PROPERTY
  BlockedLoadDecays
