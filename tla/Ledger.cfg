\* Three validators, stakes and batches of several sizes, slashing.
SPECIFICATION Spec
CONSTANTS
    N = 3
    STAKE_AMOUNTS = {1, 3, 4}
    UNSTAKE_AMOUNTS = {1, 2, 5}
    SLASH_AMOUNTS = {2}
    MaxStaked = 9
INVARIANTS
    SplitsComplete
    QueuedUndelegationsCovered
    SplitsEvenOut
