SPECIFICATION Spec
CONSTANTS
  u1 = u1
  t1 = t1
  t2 = t2
  t3 = t3
  h1 = h1
  h2 = h2
  Users = {u1}
  Txs = {t1, t2}
  Sender <- MCSender
  Gas <- MCGas
  GasQuota = 10
  Handlers = {h1, h2}
  Services = {s1}
  RateLimit = 4
  TierLimits = {1, 2}
  KarmaReads = {TRUE, FALSE}
  ChannelSize = 1
  FirstEpoch = 1
  MaxEpoch = 2
  MaxRequests = 2
  MaxIdentity = 2
  MaxGrants = 1
  MaxRestarts = 1
  MaxDisturbances = 2
CHECK_DEADLOCK FALSE
INVARIANTS
  CollisionsExplained
  QuotaRespected
SYMMETRY Symm
