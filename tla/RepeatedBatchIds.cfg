\* A list that names a batch twice.
SPECIFICATION Spec
CONSTANTS
    u1 = u1
    u2 = u2
    Users = {u1, u2}
    DECIMAL_FRACTIONAL = 10
    EPOCH_BLOCKS = 1
    AVERAGE_BLOCK_TIME = 1
    GENESIS_TIME = 10
    BLOCK_TIMES = {1}
    MAX_EPOCH_LENGTH = 5
    MAX_UNSTAKING_PERIOD = 10
    EPOCH_LENGTH = 1
    UNSTAKING_PERIOD = 2
    EPOCH_LENGTHS = {}
    UNSTAKING_PERIODS = {}
    PAUSES = {}
    STAKE_AMOUNTS = {3}
    UNSTAKE_AMOUNTS = {1, 2}
    BURN_AMOUNTS = {}
    REWARDS = {}
    FEE_RATE = 3
    BATCH_ID_LISTS <- RepeatingLists
    SLASH_AMOUNTS = {}
    UNBONDING_PORTIONS = {}
    UNBONDING_SLASHES = {}
    EXCLUDED_AMOUNTS = {}
    REFUSALS = FALSE
    DONATIONS = {}
    MaxHeight = 6
    MaxDisturbances = 1
    MaxBalance = 1
    MaxStaked = 6
    MaxStakeHeight = 0
    MaxBatches = 2
SYMMETRY UserSymmetry
PROPERTIES
    EntriesPaidOnce
CHECK_DEADLOCK FALSE
