\* Two holders with allowances, changing vaults and gateways, burns.
SPECIFICATION Spec
CONSTANTS
    FULL_SCALE = 2
    Accounts = {a1, a2}
    Vaults = {v1, v2}
    Gateways = {g1, g2}
    MAX_SUPPLY = 1000
    Amounts = {0, 1}
    RebaseTargets = {1, 4}
    Approvals = {0, 1}
    MaxMinted = 2
    MaxBurnt = 1
    MaxTally = 2
    MaxRate = 2
SYMMETRY Symmetry
PROPERTIES NoUnapprovedLoss SupplyIsCounted
CHECK_DEADLOCK FALSE
