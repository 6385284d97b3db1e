\* Three tickets, one withdrawal and the bounces, one exit traded, one issue on L2.
SPECIFICATION Spec
CONSTANTS
    ann = ann
    bob = bob
    Users = {ann, bob}
    NoOne = NoOne
    Amounts = {1}
    Stake <- AnnsStake
    SPA = SPA
    L2Addresses = {SPA, empty}
    NoToken = NoToken
    MaxTickets = 3
    MaxWithdrawals = 1
    Traded <- FirstToAnn
    MaxIssued = 1
    Settings <- OneAtATime
INVARIANTS TypeOK NothingIsLostBetween
PROPERTIES ImplementsTransfers DepositsSettle
CHECK_DEADLOCK FALSE
