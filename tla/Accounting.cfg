\* Stake accounting and exchange rate: one holder, slashing, rewards, burns, pausing.
SPECIFICATION ClosingSpec
CONSTANTS
    u1 = u1
    u2 = u2
    Users = {u1}
    DECIMAL_FRACTIONAL = 10
    EPOCH_BLOCKS = 2
    AVERAGE_BLOCK_TIME = 1
    GENESIS_TIME = 10
    BLOCK_TIMES = {1}
    MAX_EPOCH_LENGTH = 5
    MAX_UNSTAKING_PERIOD = 10
    EPOCH_LENGTH = 2
    UNSTAKING_PERIOD = 3
    EPOCH_LENGTHS = {}
    UNSTAKING_PERIODS = {}
    PAUSES = {TRUE, FALSE}
    STAKE_AMOUNTS = {3}
    UNSTAKE_AMOUNTS = {2}
    BURN_AMOUNTS = {1}
    REWARDS = {2}
    FEE_RATE = 3
    BATCH_ID_LISTS <- NoLists
    SLASH_AMOUNTS = {1}
    UNBONDING_PORTIONS = {}
    UNBONDING_SLASHES = {}
    EXCLUDED_AMOUNTS = {1}
    REFUSALS = TRUE
    DONATIONS = {}
    MaxHeight = 6
    MaxDisturbances = 1
    MaxBalance = 0
    MaxStaked = 6
    MaxStakeHeight = 2
    MaxBatches = 2
INVARIANTS
    TypeOK
    PendingMatchesQueue
    StakeMatchesChain
    BalanceCoversCommitments
    RateBacked
    TokenWorthACoin
    DueBatchClosable
    OneBatchPerStakingEpoch
PROPERTIES
    RateNeverDropsWithoutSlash
    StakeKeepsValue
    SlashingCheckRecovers
    OverdueBatchesClosed
CHECK_DEADLOCK FALSE
