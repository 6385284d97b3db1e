SPECIFICATION Spec
CONSTANTS
    ChiPrec = 8
    ChiAlpha = 1
    BetaPrec = 10
    GammaPrec = 10
    FeePrec = 1000
    PPrec = 4
    ThetaPrec = 1
    APrec = 10
    InOutPrec = 5
    USDsPrec = 4
    SPAPrec = 2
    CollaPrec = 4
    CollaScale = 1
    Power <- MCPower
    u1 = u1
    u2 = u2
    dai = dai
    usdc = usdc
    curve = curve
    other = other
    Users = {u1}
    FeeVault = FeeVault
    Vault = Vault
    Pool = Pool
    Colls = {usdc}
    Strats = {curve}
    NoStrat = NoStrat
    Supports <- ForUsdc
    Rewarding = {curve}
    InterestThreshold = 0
    RewardThreshold = 0
    Slip = 1
    Amounts = {300}
    Sales = {150}
    Recalls = {}
    Infos <- OneStrategy
    Toggled = {"allocation", "rebase"}
    Known = {curve}
    Markets <- AtPar
    Settings <- OnlyCollateral
    Worths = {50, 75, 140}
    Fills = {0, 40, 100}
    PurseSPA = 1000
    PurseColla = 1000
    MaxCalls = 3
    MaxAge = 0
    MaxRewards = 9
PROPERTIES
    RebaseDistributesEarnings
CHECK_DEADLOCK FALSE
