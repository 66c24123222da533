SPECIFICATION FairSpec
CONSTANTS
  Inputs <- MCInputs
  Initial <- MCInitial
  Null = Null
  MaxUpdates = 3
  MaxCrashes = 1
  MaxErrors = 2
INVARIANTS
  LookupsAgree
  TiersSynced
PROPERTIES
  NextApplied
CHECK_DEADLOCK FALSE
