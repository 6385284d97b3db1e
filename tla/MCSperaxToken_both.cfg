\* SPA on either layer: locks, minters, the gateway and pauses.
SPECIFICATION Spec
CONSTANTS
    Layers = {"L1", "L2"}
    Accounts = {owner, a1}
    Owner = owner
    Gateways = {g1}
    InitialSupply = 2
    Amounts = {1, 2}
    Approvals = {1}
    MaxSupply = 2
    MaxTime = 3
    MaxRecords = 2
INVARIANTS SupplyIsHeld LocksAreFunded RevocationReachesAll
PROPERTIES LockedUntilRelease
CHECK_DEADLOCK FALSE
