\* Four executions of scripts with two keys.
SPECIFICATION BothSpec
CONSTANTS
    ann = ann
    bob = bob
    Runs = {r1, r2, r3, r4}
    Keys <- KeyPairs
    MaxOn = 2
    MaxDead = 1
    MaxBridges = 2
    Edited = {"OneStepProof", "Rollup", "RollupCreator"}
    MaxEdits = 2
    Accounts = {ann, bob}
    NEW_OWNER = bob
    L2Tokens = {t1}
    NoRun = NoRun
    NoOne = NoOne
    NoToken = NoToken
SYMMETRY Symmetry
INVARIANTS NamedBridgeIsWhole RoutesLeadToPairs TokensAwaitTheirPair LayersPartWithCause FinishedDeployIsCurrent
CHECK_DEADLOCK FALSE
