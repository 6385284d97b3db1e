-------------------------- MODULE TwoPoolStrategy --------------------------
(***************************************************************************)
(* contracts/strategies: TwoPoolStrategy, with what it inherits from       *)
(* InitializableAbstractStrategy, puts one collateral of the vault to work *)
(* in a Curve pool of two coins and stakes the LP tokens in Curve's gauge. *)
(*                                                                         *)
(* Curve and the oracle are the environment: curve holds what any number   *)
(* of LP tokens fetches in each coin, the virtual price and the oracle's   *)
(* prices, and moves at any time; a deposit or a withdrawal moves the pool *)
(* too.  The more LP tokens are burnt at once, the less each fetches, as   *)
(* _withdraw's comment has it: the rate of the full balance is the worst   *)
(* case.  Both coins have the same decimals.                               *)
(*                                                                         *)
(* The vault sends a deposit along with the call, in one transaction.  The *)
(* reward token goes from the gauge to the vault past the strategy, and    *)
(* the thresholds only the vault reads: VaultCore has them.                *)
(***************************************************************************)
EXTENDS Integers, Sequences, SequencesExt

CONSTANTS
    PoolCoins,                 \* the two coins, in the pool's order
    supportedAssetIndex,       \* set by initialize and never again
    LPUnit, PricePrec,         \* units of LP tokens and virtual price; of prices
    SlippagePrec,              \* 100%
    CurveStates,               \* what the environment may be: pays[c][k] is what
                               \* burning k LP tokens at once fetches in coin c
    Deposits, Withdrawals,     \* amounts of one call
    Slippages, Thresholds,     \* what the owner sets
    Initially,                 \* lpAssetSlippage and lpAssetThreshold as deployed
    Purse,                     \* what the vault starts with
    MaxPurse, MaxPrincipal, MaxPTokens, MaxGifts   \* bounds: of coins outside, of
                               \* principal, of LP tokens, of those others send

Indices == {1, 2}
Coins == Range(PoolCoins)
Other(i) == 3 - i

\* Fewer LP tokens fetch their share of what more of them fetch, or better.
WorstAtFullBalance(pays) ==
    \A m \in 1 .. MaxPTokens : \A k \in 0 .. m :
        /\ pays[k] <= pays[m]
        /\ (pays[m] * k) \div m <= pays[k]

ASSUME StrategyAssumption ==
    /\ PoolCoins \in Seq(Coins) /\ Len(PoolCoins) = 2 /\ PoolCoins[1] # PoolCoins[2]
    /\ supportedAssetIndex \in Indices
    /\ {LPUnit, PricePrec, SlippagePrec} \subseteq Nat \ {0}
    /\ CurveStates \subseteq [pays : [Coins -> [0 .. MaxPTokens -> Nat]], virtual : Nat \ {0},
                              price : [Coins -> Nat \ {0}]]
    /\ \A s \in CurveStates : \A c \in Coins : WorstAtFullBalance(s.pays[c])
    /\ Deposits \cup Withdrawals \subseteq Nat \ {0}
    /\ Slippages \cup Thresholds \subseteq Nat
    /\ Initially \in [slippage : Slippages, threshold : Thresholds]
    /\ Purse \in [Coins -> Nat] /\ {MaxPurse, MaxPrincipal, MaxPTokens, MaxGifts} \subseteq Nat

VARIABLES
    assetsMapped,              \* the assets that have a pToken, the LP token
    allocatedAmt,              \* the principal, by asset
    contractPTokens, gaugePTokens,         \* LP tokens here and in the gauge
    lpAssetSlippage, lpAssetThreshold,
    curve,                     \* the pool and the oracle
    outside,                   \* coins of the vault and of those it pays
    gifts                      \* LP tokens others have sent to the strategy

lpTokens == <<contractPTokens, gaugePTokens>>
limits == <<lpAssetSlippage, lpAssetThreshold>>
strategyVars == <<assetsMapped, allocatedAmt, lpTokens, limits, curve, outside, gifts>>

StrategyInit ==
    /\ assetsMapped = PoolCoins
    /\ allocatedAmt = [c \in Coins |-> 0]
    /\ contractPTokens = 0 /\ gaugePTokens = 0
    /\ lpAssetSlippage = Initially.slippage /\ lpAssetThreshold = Initially.threshold
    /\ curve \in CurveStates
    /\ outside = Purse
    /\ gifts = 0

-----------------------------------------------------------------------------
(* Curve and the oracle.                                                   *)

\* calc_withdraw_one_coin and remove_liquidity_one_coin.
CalcWithdraw(k, i) == curve.pays[PoolCoins[i]][k]

\* Liquidity added or removed: the pool is another one, the oracle's prices stay.
PoolMoves == curve' \in {s \in CurveStates : s.price = curve.price}

\* _getExpectedAssetAmt, _getExpectedPtokenAmt: by virtual price and oracle.
ExpectedAsset(k, c) == (k * curve.virtual * PricePrec) \div (curve.price[c] * LPUnit)
ExpectedPToken(n, c) == (n * curve.price[c] * LPUnit) \div (curve.virtual * PricePrec)
AtLeast(expected) == (expected * lpAssetSlippage) \div SlippagePrec

-----------------------------------------------------------------------------
(* Views.                                                                  *)

totalPTokens == contractPTokens + gaugePTokens

\* supportsCollateral: c is mapped, at the supported index.
Supports(c) == Len(assetsMapped) >= supportedAssetIndex
               /\ assetsMapped[supportedAssetIndex] = c

\* The views that look at both assets revert when one was removed.
BothMapped == Len(assetsMapped) >= 2

\* _convertBewteen, at the oracle's prices.
Convert(from, to, n) ==
    (n * curve.price[assetsMapped[from]]) \div curve.price[assetsMapped[to]]

\* _checkMaxReturn: all LP tokens into one coin.  The conversion in it is from the
\* supported coin to the other, of an amount of the other.
InOneCoin(i) == IF totalPTokens > lpAssetThreshold THEN CalcWithdraw(totalPTokens, i) ELSE 0
KeepsCoinIfLess ==    \* Mutated: the comparison turned round.
    LET swapped == Other(supportedAssetIndex)
    IN  InOneCoin(supportedAssetIndex)
            < Convert(supportedAssetIndex, swapped, InOneCoin(swapped))
KeepsCoin ==
    LET swapped == Other(supportedAssetIndex)
    IN  InOneCoin(supportedAssetIndex)
            > Convert(supportedAssetIndex, swapped, InOneCoin(swapped))
returnIndex == IF KeepsCoin THEN supportedAssetIndex ELSE Other(supportedAssetIndex)
maxReturn == InOneCoin(returnIndex)

\* An amount of coin i in units of the supported coin, and back.
AsSupported(i, n) ==
    IF i = supportedAssetIndex THEN n ELSE Convert(i, supportedAssetIndex, n)
FromSupported(i, n) ==
    IF i = supportedAssetIndex THEN n ELSE Convert(supportedAssetIndex, i, n)

checkBalance == AsSupported(returnIndex, maxReturn)
checkInterestEarned(c) ==
    IF checkBalance > allocatedAmt[c] THEN checkBalance - allocatedAmt[c] ELSE 0

-----------------------------------------------------------------------------
(* What the vault calls.                                                   *)

\* The pool takes its own coin at that index; after a removal the strategy may
\* have been sent another one, and the call reverts.
\* How many LP tokens add_liquidity mints is for the pool to say.
Deposit(c, n, lp) ==
    /\ Supports(c) /\ PoolCoins[supportedAssetIndex] = c
    /\ n <= outside[c]
    /\ allocatedAmt[c] + n <= MaxPrincipal /\ totalPTokens + lp <= MaxPTokens
    /\ lp >= AtLeast(ExpectedPToken(n, c))
    /\ outside' = [outside EXCEPT ![c] = @ - n]
    /\ allocatedAmt' = [allocatedAmt EXCEPT ![c] = @ + n]
    /\ gaugePTokens' = gaugePTokens + contractPTokens + lp
    /\ contractPTokens' = 0
    /\ PoolMoves
    /\ UNCHANGED <<assetsMapped, limits, gifts>>

\* Burns LP tokens for coin i, unstaking those that are not here.
Burn(lp, i) ==
    LET got == CalcWithdraw(lp, i)
    IN  /\ lp <= totalPTokens
        /\ contractPTokens' = IF contractPTokens < lp THEN 0 ELSE contractPTokens - lp
        /\ gaugePTokens' = IF contractPTokens < lp
                              THEN gaugePTokens - (lp - contractPTokens) ELSE gaugePTokens
        /\ got >= AtLeast(ExpectedAsset(lp, assetsMapped[i]))
        /\ outside[PoolCoins[i]] + got <= MaxPurse
        /\ outside' = [outside EXCEPT ![PoolCoins[i]] = @ + got]
        /\ PoolMoves

\* Mutated: by what the LP tokens fetch in the other coin.
BurntForOther(n) ==
    (totalPTokens * n) \div CalcWithdraw(totalPTokens, Other(supportedAssetIndex))
BurntFor(n) == (totalPTokens * n) \div CalcWithdraw(totalPTokens, supportedAssetIndex)

\* withdraw, and the owner's withdrawToVault.
Withdraw(c, n) ==
    /\ Supports(c)
    /\ totalPTokens > lpAssetThreshold
    /\ CalcWithdraw(totalPTokens, supportedAssetIndex) > 0
    /\ Burn(BurntFor(n), supportedAssetIndex)
    /\ LET got == CalcWithdraw(BurntFor(n), supportedAssetIndex)
       IN  allocatedAmt' = [allocatedAmt EXCEPT ![c] = IF got >= @ THEN 0 ELSE @ - got]
    /\ UNCHANGED <<assetsMapped, limits, gifts>>

\* The interest is paid in the coin _checkMaxReturn picks.
\* Mutated: an amount of the supported coin is taken for one of that coin.
OwedUnconverted(c) == checkInterestEarned(c)
Owed(c) == FromSupported(returnIndex, checkInterestEarned(c))

CollectInterest(c) ==
    /\ Supports(c) /\ BothMapped
    /\ checkInterestEarned(c) > 0
    /\ Burn((totalPTokens * Owed(c)) \div maxReturn, returnIndex)
    /\ UNCHANGED <<assetsMapped, allocatedAmt, limits, gifts>>

-----------------------------------------------------------------------------
(* What the owner calls.                                                   *)

ChangeSlippage(s) ==
    /\ s <= SlippagePrec
    /\ lpAssetSlippage' = s
    /\ UNCHANGED <<assetsMapped, allocatedAmt, lpTokens, lpAssetThreshold, curve, outside, gifts>>

ChangeThreshold(t) ==
    /\ lpAssetThreshold' = t
    /\ UNCHANGED <<assetsMapped, allocatedAmt, lpTokens, lpAssetSlippage, curve, outside, gifts>>

SetPTokenAddress(c) ==
    /\ c \notin Range(assetsMapped)
    /\ assetsMapped' = Append(assetsMapped, c)
    /\ UNCHANGED <<allocatedAmt, lpTokens, limits, curve, outside, gifts>>

\* The last asset moves into the gap.
Without(k) == Front([assetsMapped EXCEPT ![k] = Last(assetsMapped)])
RemovePToken(k) ==
    /\ k \in DOMAIN assetsMapped
    /\ assetsMapped' = Without(k)
    /\ UNCHANGED <<allocatedAmt, lpTokens, limits, curve, outside, gifts>>

-----------------------------------------------------------------------------
(* The environment.                                                        *)

CurveMoves(s) ==
    /\ curve' = s
    /\ UNCHANGED <<assetsMapped, allocatedAmt, lpTokens, limits, outside, gifts>>

LPTokensArrive ==
    /\ gifts < MaxGifts /\ totalPTokens < MaxPTokens
    /\ gifts' = gifts + 1 /\ contractPTokens' = contractPTokens + 1
    /\ UNCHANGED <<assetsMapped, allocatedAmt, gaugePTokens, limits, curve, outside>>

StrategyNext ==
    \/ \E c \in Coins :
           \/ \E n \in Deposits, lp \in 0 .. MaxPTokens : Deposit(c, n, lp)
           \/ \E n \in Withdrawals : Withdraw(c, n)
           \/ CollectInterest(c)
           \/ SetPTokenAddress(c)
    \/ \E k \in Indices : RemovePToken(k)
    \/ \E s \in Slippages : ChangeSlippage(s)
    \/ \E t \in Thresholds : ChangeThreshold(t)
    \/ \E s \in CurveStates : CurveMoves(s)
    \/ LPTokensArrive

StrategySpec == StrategyInit /\ [][StrategyNext]_strategyVars

-----------------------------------------------------------------------------
\* No asset is mapped twice, so that what is supported is one coin.
StrategyTypeOK ==
    /\ assetsMapped \in Seq(Coins) /\ Len(assetsMapped) <= 2
    /\ \A i, j \in DOMAIN assetsMapped : assetsMapped[i] = assetsMapped[j] => i = j
    /\ allocatedAmt \in [Coins -> Nat]
    /\ contractPTokens \in Nat /\ gaugePTokens \in Nat /\ totalPTokens <= MaxPTokens
    /\ lpAssetSlippage \in Slippages /\ lpAssetThreshold \in Thresholds
    /\ curve \in CurveStates
    /\ outside \in [Coins -> Nat] /\ gifts \in 0 .. MaxGifts

\* A withdrawal delivers what was asked for but for one LP token at most: the LP
\* tokens to burn are reckoned at the rate of the full balance, the worst case, so
\* that fewer of them fetch as much or more, wherever they lie and in the coin that
\* was asked for, as long as the supported asset stands where the pool has it.
WithdrawalPays ==
    [][\A c \in Coins, n \in Withdrawals :
           (Withdraw(c, n) /\ PoolCoins[supportedAssetIndex] = c) =>
               n <= outside'[c] - outside[c] + CalcWithdraw(1, supportedAssetIndex) + 1
      ]_strategyVars

\* Collecting interest takes its share of the LP tokens and no more, in whichever
\* coin it is paid: the interest is delivered but for one LP token at most, and the
\* LP tokens that stay are worth the principal at the oracle's prices, both at the
\* rate of the full balance, by which the code values them, and in what they fetch
\* once trading has brought the pool back to where the call found it.
InterestTakesItsShare ==
    [][\A c \in Coins : CollectInterest(c) =>
           LET paid == PoolCoins[returnIndex]
           IN  /\ Owed(c) <= outside'[paid] - outside[paid] + CalcWithdraw(1, returnIndex) + 1
               /\ AsSupported(returnIndex, (totalPTokens' * maxReturn) \div totalPTokens)
                      >= allocatedAmt[c]
               /\ AsSupported(returnIndex, CalcWithdraw(totalPTokens', returnIndex))
                      >= allocatedAmt[c]]_strategyVars

\* What all LP tokens fetch in the coin _checkMaxReturn passes over.
passedOver == AsSupported(Other(returnIndex), InOneCoin(Other(returnIndex)))

\* The conversion that goes the wrong way costs a bounded part of the balance: what
\* checkBalance reports is below what the other coin fetches by the square of the
\* ratio of the oracle's prices at most, and at par by nothing.
CheckBalanceIsNearMax ==
    BothMapped =>
        LET s == curve.price[assetsMapped[supportedAssetIndex]]
            o == curve.price[assetsMapped[Other(supportedAssetIndex)]]
        IN  IF s <= o THEN passedOver * (s * s) < (checkBalance + 1) * (o * o)
            ELSE passedOver * (o * o) < (checkBalance + 1) * (s * s)

\* _checkMaxReturn's comment: "maxReturn The amount of maximum returnAsset token
\* redeemable".  At the oracle's prices the coin it returns fetches no less than
\* the other one.
MaxReturnIsMax ==
    assetsMapped = PoolCoins => checkBalance >= passedOver
=============================================================================
