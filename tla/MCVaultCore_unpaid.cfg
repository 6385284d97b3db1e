SPECIFICATION Spec
CONSTANTS
    ChiPrec = 8
    ChiAlpha = 1
    BetaPrec = 10
    GammaPrec = 10
    FeePrec = 1000
    PPrec = 4
    ThetaPrec = 1
    APrec = 10
    InOutPrec = 5
    USDsPrec = 4
    SPAPrec = 2
    CollaPrec = 4
    CollaScale = 2
    Power <- MCPower
    u1 = u1
    u2 = u2
    dai = dai
    usdc = usdc
    curve = curve
    other = other
    Users = {u1}
    FeeVault = FeeVault
    Vault = Vault
    Pool = Pool
    Colls = {dai, usdc}
    Strats = {curve, other}
    NoStrat = NoStrat
    Supports <- ForBoth
    Rewarding = {}
    InterestThreshold = 0
    RewardThreshold = 0
    Slip = 0
    Amounts = {800}
    Sales = {}
    Recalls = {100}
    Infos <- EitherStrategy
    Toggled = {"mintRedeem", "allocation"}
    Known = {}
    Markets <- AtPar
    Settings <- NoFees
    Worths = {}
    Fills = {0, 40, 100}
    PurseSPA = 1000
    PurseColla = 1000
    MaxCalls = 3
    MaxAge = 0
    MaxRewards = 0
PROPERTIES
    RedeemPaysOrReverts
CHECK_DEADLOCK FALSE
