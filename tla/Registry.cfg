\* Two of three validators registered, stakes, batches, one slash or refusal, a registry that the owner points away from the hub and back.
SPECIFICATION FairSpec
CONSTANTS
    N = 3
    INITIAL = {1, 2}
    PREFIXES = {"bbnvaloper"}
    HUB_CONTRACTS = {0, 9}
    STAKE_AMOUNTS = {2, 3}
    UNSTAKE_AMOUNTS = {2}
    SLASH_AMOUNTS = {1}
    MaxStaked = 3
    MaxFaults = 1
    MaxCalls = 2
INVARIANTS
    TypeOK
    StakeAccountedFor
    UndelegationsExecuted
PROPERTIES
    ImplementsStakePool
    ExcludedDrained
