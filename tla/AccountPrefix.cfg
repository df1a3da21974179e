\* A validator registered under its account address.
SPECIFICATION Spec
CONSTANTS
    N = 3
    INITIAL = {1, 2}
    PREFIXES = {"bbn", "bbnvaloper"}
    HUB_CONTRACTS = {0}
    STAKE_AMOUNTS = {1, 2}
    UNSTAKE_AMOUNTS = {1, 2}
    SLASH_AMOUNTS = {1}
    MaxStaked = 3
    MaxFaults = 1
    MaxCalls = 2
INVARIANTS
    ReportedIsDelegated
