SPECIFICATION Spec
CONSTANTS
    YEAR = 2
    MAX_MULTIPLIER = 1
    MIN_LOCKUP_PERIOD = 1
    Vaults = {v1, v2}
    Accounts = {a1, a2}
    NoAccount = NoAccount
    MaxVaultsPerUser = 2
    SCALE_FACTOR = 24
    Supply = 2
    Amounts = {1, 2}
    LockPeriods = {0}
    RewardAmounts = {3}
    RewardDurations = {2}
    MaxTime = 3
    MaxRewards = 6
SYMMETRY Symmetry
CONSTRAINT NoIntervention
INVARIANTS
    RewardsSolvent
    ClaimsCovered
