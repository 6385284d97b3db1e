\* Two holders, opting, migrating, trading and rebasing; no allowances.
SPECIFICATION Spec
CONSTANTS
    FULL_SCALE = 3
    Accounts = {a1, a2}
    Vaults = {vault}
    Gateways = {gateway}
    MAX_SUPPLY = 1000
    Amounts = {0, 1, 2}
    RebaseTargets = {2, 3}
    Approvals = {}
    MaxMinted = 2
    MaxBurnt = 0
    MaxTally = 2
    MaxRate = 3
SYMMETRY Symmetry
INVARIANTS TypeOK RebasingCreditsCoverHolders RateMatchesChoice
PROPERTIES TransferMovesValue ChoiceKeepsBalances RebaseSettles
    SupplyCoversBalances ImplementsLedger
CHECK_DEADLOCK FALSE
