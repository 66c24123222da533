SPECIFICATION Spec
CONSTANTS
  Day = 12
  EpochDur = 12
  SliceDur = 3
  MinWait = 2
  MaxRetries = 2
  Jitter = 2
  MaxTime = 40
INVARIANT EpochIsElapsed
INVARIANT NoEpochReuse
