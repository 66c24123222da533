SPECIFICATION FairSpec
CONSTANTS
    YEAR = 2
    MAX_MULTIPLIER = 1
    MIN_LOCKUP_PERIOD = 1
    Vaults = {v1}
    Accounts = {a1}
    NoAccount = NoAccount
    MaxVaultsPerUser = 1
    SCALE_FACTOR = 24
    Supply = 2
    Amounts = {1, 2}
    LockPeriods = {0, 2}
    RewardAmounts = {}
    RewardDurations = {2}
    MaxTime = 3
    MaxRewards = 3
PROPERTIES
    LeaveCompletes
