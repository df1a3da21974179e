\* Two dispatchers, two tokens, owners that hand over, fee rates of 5, 30 and 50%.
SPECIFICATION FairSpec
CONSTANTS
    DECIMAL_FRACTIONAL = 20
    OWNERS = {"alice", "bob"}
    LST_TOKENS = {"t1", "t2"}
    REGISTRIES = {"r1"}
    DISPATCHERS = {"d1", "d2"}
    HUBS = {"hub", "old_hub"}
    FEE_RATES = {1, 6, 10}
    MAX_FEE_RATE = 6
    REWARDS = {1, 3}
    MaxEarned = 4
INVARIANTS
    NoRewardsAtHub
    FeesBounded
PROPERTIES
    RewardsConserved
    RewardsStaked
