SPECIFICATION FairSpec
CONSTANTS
  Accounts = {a}
  Slashers = {s1, s2}
  Secrets = {i}
  NoAccount = NoAccount
  Windows = {1, 2}
  DefaultWindow = 2
  MIN_SLASH_AMOUNT = 2
  MAX_SLASH_PERCENTAGE = 2
  SlashPercentage = 1
  SlashRewardPercentage = 2
  Balances = {0, 1}
  SlashingLimit <- Limits
  s1 = s1
  s2 = s2
  MaxTime = 3
  MaxCommits = 3
  MaxErrors = 1
  MaxWindowChanges = 1
  MaxRegistrations = 1
INVARIANTS
  QueueSpaced
  OneSlashEach
  NeverTooEarly
PROPERTIES
  SlashCosts
  CaughtIsSlashed
CHECK_DEADLOCK FALSE
