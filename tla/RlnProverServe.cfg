SPECIFICATION FairSpec
CONSTANTS
  u1 = u1
  t1 = t1
  t2 = t2
  t3 = t3
  h1 = h1
  h2 = h2
  Users = {u1}
  Txs = {t1, t2, t3}
  Sender <- MCSender
  Gas <- MCGas
  GasQuota = 10
  Handlers = {h1}
  Services = {s1}
  RateLimit = 3
  TierLimits = {2}
  KarmaReads = {TRUE, FALSE}
  ChannelSize = 2
  FirstEpoch = 1
  MaxEpoch = 1
  MaxRequests = 3
  MaxIdentity = 1
  MaxGrants = 0
  MaxRestarts = 1
  MaxDisturbances = 2
CHECK_DEADLOCK FALSE
PROPERTY JobsAnswered
