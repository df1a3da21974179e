\* Two users, four tokens, allowances up to two, a foreign token, pausing.
SPECIFICATION Spec
CONSTANTS
    u1 = u1
    u2 = u2
    Users = {u1, u2}
    TOKENS = {"lst_token", "other"}
    MINT_AMOUNTS = {1, 2}
    AMOUNTS = {1, 2}
    MaxMinted = 4
    MaxAllowance = 2
INVARIANTS
    HubHoldsOnlyStray
PROPERTIES
    RequestsBacked
    PausedSupplyFrozen
