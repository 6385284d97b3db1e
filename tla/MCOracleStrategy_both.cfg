\* Updates at any pace over a ring of four slots, past the range of uint32;
\* a strategy in USDT through calm, growth, loss and a lost peg.
SPECIFICATION BothSpec
CONSTANTS
    FREQUENCY = 3
    Prec = 2
    Wrap = 8
    Periods = {1, 2}
    Default = 2
    Start = 1
    MaxTime = 9
    MaxFlow = 3
    usdc = usdc
    usdt = usdt
    PoolCoins <- MCPoolCoins
    supportedAssetIndex = 2
    LPUnit = 4
    PricePrec = 2
    SlippagePrec = 10
    CurveStates <- MCCurveStates
    Deposits = {1, 3}
    Withdrawals = {1, 4}
    Slippages = {6, 9}
    Thresholds = {0, 2}
    Initially <- MCInitially
    Purse <- MCPurse
    MaxPurse = 4
    MaxPrincipal = 4
    MaxPTokens = 5
    MaxGifts = 1
INVARIANTS DueUpdateIsOpen ReadingsInOrder CheckBalanceIsNearMax
PROPERTIES ImplementsWindow WithdrawalPays InterestTakesItsShare
CHECK_DEADLOCK FALSE
