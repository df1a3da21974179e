\* A slash leaves a batch that is worth less than a coin.
SPECIFICATION ClosingSpec
CONSTANTS
    u1 = u1
    u2 = u2
    Users = {u1}
    DECIMAL_FRACTIONAL = 10
    EPOCH_BLOCKS = 1
    AVERAGE_BLOCK_TIME = 1
    GENESIS_TIME = 10
    BLOCK_TIMES = {1}
    MAX_EPOCH_LENGTH = 5
    MAX_UNSTAKING_PERIOD = 10
    EPOCH_LENGTH = 1
    UNSTAKING_PERIOD = 2
    EPOCH_LENGTHS = {}
    UNSTAKING_PERIODS = {}
    PAUSES = {}
    STAKE_AMOUNTS = {3}
    UNSTAKE_AMOUNTS = {1}
    BURN_AMOUNTS = {}
    REWARDS = {}
    FEE_RATE = 3
    BATCH_ID_LISTS <- NoLists
    SLASH_AMOUNTS = {1}
    UNBONDING_PORTIONS = {}
    UNBONDING_SLASHES = {}
    EXCLUDED_AMOUNTS = {}
    REFUSALS = FALSE
    DONATIONS = {}
    MaxHeight = 6
    MaxDisturbances = 1
    MaxBalance = 0
    MaxStaked = 6
    MaxStakeHeight = 0
    MaxBatches = 1
PROPERTIES
    RequestsProcessed
CHECK_DEADLOCK FALSE
