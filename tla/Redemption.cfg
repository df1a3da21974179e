\* Redemption and queries: two users who both stake, rewards, a slash, funds coming back in portions.
SPECIFICATION FairSpec
CONSTANTS
    u1 = u1
    u2 = u2
    Users = {u1, u2}
    DECIMAL_FRACTIONAL = 10
    EPOCH_BLOCKS = 2
    AVERAGE_BLOCK_TIME = 1
    GENESIS_TIME = 10
    BLOCK_TIMES = {1}
    MAX_EPOCH_LENGTH = 5
    MAX_UNSTAKING_PERIOD = 10
    EPOCH_LENGTH = 2
    UNSTAKING_PERIOD = 3
    EPOCH_LENGTHS = {}
    UNSTAKING_PERIODS = {}
    PAUSES = {}
    STAKE_AMOUNTS = {2}
    UNSTAKE_AMOUNTS = {2}
    BURN_AMOUNTS = {}
    REWARDS = {2}
    FEE_RATE = 3
    BATCH_ID_LISTS <- DistinctLists
    SLASH_AMOUNTS = {1}
    UNBONDING_PORTIONS = {1}
    UNBONDING_SLASHES = {}
    EXCLUDED_AMOUNTS = {}
    REFUSALS = TRUE
    DONATIONS = {}
    MaxHeight = 7
    MaxDisturbances = 1
    MaxBalance = 1
    MaxStaked = 5
    MaxStakeHeight = 1
    MaxBatches = 2
INVARIANTS
    PendingQueryFollowsEpoch
    NothingAfterShortPage
    EstimateHonoured
    ReleasedWithdrawable
    SolventUndisturbed
PROPERTIES
    AgedReleasedUnlessLost
    ImplementsRedemptionQueue
CHECK_DEADLOCK FALSE
