CONSTANTS
  t1 = t1
  t2 = t2
  p = p
  Txs = {t1, t2, p}
  Premium = {p}
  Threads = {a, b}
  None = None
  Quota = 1
  RateLimit = 2
  MaxWaits = 1
  MaxRetries = 1
  Threshold = 1
  MaxCalls = 2
  MaxFaults = 2
SPECIFICATION MCSpec
INVARIANTS
  ReuseExplained
  PendingMatchesWaits
PROPERTIES
  RejectionsExplained
  StreamComesBack
CHECK_DEADLOCK FALSE
