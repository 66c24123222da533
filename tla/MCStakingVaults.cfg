SPECIFICATION Spec
CONSTANTS
    YEAR = 2
    MAX_MULTIPLIER = 1
    MIN_LOCKUP_PERIOD = 1
    Vaults = {v1, v2, v3}
    Accounts = {a1}
    NoAccount = NoAccount
    MaxVaultsPerUser = 2
    SCALE_FACTOR = 24
    Supply = 2
    Amounts = {1, 2}
    LockPeriods = {0, 1, 2}
    RewardAmounts = {}
    RewardDurations = {2}
    MaxTime = 2
    MaxRewards = 6
SYMMETRY Symmetry
INVARIANTS
    MPBounds
    TotalsMatch
    VaultBacked
PROPERTIES
    LockedFundsStay
