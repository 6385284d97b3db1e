\* What _checkMaxReturn says of the coin it returns.
SPECIFICATION StrategySpec
CONSTANTS
    usdc = usdc
    usdt = usdt
    PoolCoins <- MCPoolCoins
    supportedAssetIndex = 2
    LPUnit = 4
    PricePrec = 2
    SlippagePrec = 10
    CurveStates <- MCCurveStates
    Deposits = {1, 3}
    Withdrawals = {1, 4}
    Slippages = {6, 9}
    Thresholds = {0, 2}
    Initially <- MCInitially
    Purse <- MCPurse
    MaxPurse = 4
    MaxPrincipal = 4
    MaxPTokens = 5
    MaxGifts = 1
INVARIANTS MaxReturnIsMax
CHECK_DEADLOCK FALSE
