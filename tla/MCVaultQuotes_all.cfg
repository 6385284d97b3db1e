SPECIFICATION QuotesSpec
CONSTANTS
    ChiPrec = 8
    ChiAlpha = 1
    BetaPrec = 10
    GammaPrec = 10
    FeePrec = 1000
    PPrec = 4
    ThetaPrec = 1
    APrec = 10
    InOutPrec = 5
    USDsPrec = 4
    SPAPrec = 2
    CollaPrec = 4
    CollaScale = 3
    Power <- MCPower
    QuotedMarkets <- MCMarkets
    QuotedSettings <- MCSettings
    Ages = {0, 2, 9}
    Ratios = {0, 5, 9}
    QuotedAmounts = {1, 7, 75, 1000}
INVARIANTS
    RatesInRange
    MintIsBacked
    RedeemIsBacked
    ModesAgree
CHECK_DEADLOCK FALSE
