\* Unstaking and withdrawal: two users, two batches, donations, slashed funds and changing unstaking periods.
SPECIFICATION Spec
CONSTANTS
    u1 = u1
    u2 = u2
    Users = {u1, u2}
    DECIMAL_FRACTIONAL = 10
    EPOCH_BLOCKS = 1
    AVERAGE_BLOCK_TIME = 1
    GENESIS_TIME = 10
    BLOCK_TIMES = {1}
    MAX_EPOCH_LENGTH = 5
    MAX_UNSTAKING_PERIOD = 10
    EPOCH_LENGTH = 1
    UNSTAKING_PERIOD = 2
    EPOCH_LENGTHS = {}
    UNSTAKING_PERIODS = {3}
    PAUSES = {}
    STAKE_AMOUNTS = {3}
    UNSTAKE_AMOUNTS = {1, 2}
    BURN_AMOUNTS = {}
    REWARDS = {}
    FEE_RATE = 3
    BATCH_ID_LISTS <- DistinctLists
    SLASH_AMOUNTS = {1}
    UNBONDING_PORTIONS = {}
    UNBONDING_SLASHES = {1}
    EXCLUDED_AMOUNTS = {}
    REFUSALS = TRUE
    DONATIONS = {1}
    MaxHeight = 6
    MaxDisturbances = 1
    MaxBalance = 1
    MaxStaked = 6
    MaxStakeHeight = 0
    MaxBatches = 2
SYMMETRY UserSymmetry
INVARIANTS
    ReleasedIsPrefix
    BatchMatchesWaitList
    ReleasedEntriesCovered
    ClosedBatchesFunded
PROPERTIES
    HistoryIsFinal
    EntriesPaidOnce
CHECK_DEADLOCK FALSE
