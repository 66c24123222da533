SPECIFICATION MCSpec
CONSTANTS
  Controllers = {"m", "l"}
  Requests = {"exec", "exec2", "comp"}
  None = None
  Kind <- MCKind
  End <- MCEnd
  Watches <- MCWatches
  CanRunFullLarge = {"l"}
  Codes = {"success", "oom"}
  RetryLocallyWithLargeCodes = {"oom"}
  DeferToOtherLargeCodes = {"oom"}
  KeepTracesUntilBlock = 1
  MaxFaults = 2
INVARIANTS ResponseIsOwn ProofKept NothingStranded
PROPERTIES SignalStops RequestsSettle
CHECK_DEADLOCK FALSE
