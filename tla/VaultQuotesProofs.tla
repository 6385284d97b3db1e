------------------------- MODULE VaultQuotesProofs -------------------------
(***************************************************************************)
(* What every quote promises, for every precision, market, setting and     *)
(* amount: the collateral's share is a share, the fees stay in their band, *)
(* and a redemption never pays more than the USDs handed in are worth.     *)
(*                                                                         *)
(* A quote is made in one step, so the invariants need nothing beyond the  *)
(* types of what is read; the work is in the arithmetic of the divisions.  *)
(***************************************************************************)
EXTENDS VaultQuotes, Integers, TLAPS

(* The quotient of naturals by a positive divisor.                          *)
LEMMA DivFacts ==
    ASSUME NEW x \in Nat, NEW d \in Nat, d > 0
    PROVE  /\ x \div d \in Nat
           /\ (x \div d) * d <= x
           /\ x < (x \div d) * d + d
  BY SMT

LEMMA MulNat == ASSUME NEW x \in Nat, NEW y \in Nat PROVE x * y \in Nat
  BY SMT

LEMMA MulMono ==
    ASSUME NEW x \in Nat, NEW y \in Nat, NEW z \in Nat, x <= y
    PROVE  x * z <= y * z
  BY SMT

LEMMA CancelFactor ==
    ASSUME NEW x \in Int, NEW y \in Int, NEW d \in Nat, d > 0, x * d < y * d
    PROVE  x < y
  BY SMT

(* A division that rounds down preserves the order of the dividends.        *)
LEMMA DivMono ==
    ASSUME NEW x \in Nat, NEW y \in Nat, NEW d \in Nat, d > 0, x <= y
    PROVE  x \div d <= y \div d
  <1>. DEFINE a == x \div d
              b == y \div d
  <1>1. /\ a \in Nat /\ b \in Nat
        /\ a * d <= x /\ y < b * d + d
    BY DivFacts
  <1>. HIDE DEF a, b
  <1>2. /\ a * d \in Nat /\ b * d \in Nat /\ (b + 1) * d = b * d + d
    BY <1>1, SMT
  <1>3. a * d < (b + 1) * d
    BY <1>1, <1>2
  <1>4. a < b + 1
    BY <1>1, <1>3, CancelFactor
  <1>. QED  BY <1>1, <1>4 DEF a, b

(* A part not larger than the whole leaves a multiplier not above one.      *)
LEMMA MultiplierBound ==
    ASSUME NEW n \in Nat, NEW k \in Nat, NEW d \in Nat, d > 0, k <= d
    PROVE  /\ multiplier(n, k, d) \in Nat
           /\ multiplier(n, k, d) <= n
  <1>. DEFINE q == (n * k) \div d
  <1>1. n * k \in Nat /\ n * d \in Nat /\ n * k <= n * d
    BY SMT
  <1>2. q \in Nat /\ q * d <= n * k
    BY <1>1, DivFacts
  <1>. HIDE DEF q
  <1>3. q * d \in Nat /\ (n + 1) * d = n * d + d /\ q * d < (n + 1) * d
    BY <1>1, <1>2, SMT
  <1>4. q < n + 1
    BY <1>2, <1>3, CancelFactor
  <1>. QED  BY <1>2, <1>4 DEF q, multiplier

-----------------------------------------------------------------------------
(* What is read keeps its type.                                             *)

Readings ==
    /\ readings \in ReadingType /\ parameters \in ParameterType
    /\ age \in Nat /\ backing \in Nat

LEMMA ReadingsKept == QuotesSpec => []Readings
  <1>1. QuotesInit => Readings
    BY QuotesAssumption DEF QuotesInit, Readings
  <1>2. Readings /\ [QuotesNext]_quotesVars => Readings'
    BY DEF Readings, QuotesNext, AskMint, AskRedeem, quotesVars
  <1>. QED  BY <1>1, <1>2, PTL DEF QuotesSpec

LEMMA MarketTypes ==
    ASSUME NEW m \in ReadingType
    PROVE  /\ m.priceUSDs \in Nat /\ m.averageUSDs \in Nat /\ m.inOut \in Nat
           /\ m.priceSPA \in Nat /\ m.priceSPA > 0
           /\ m.priceColla \in Nat /\ m.priceColla > 0
  BY DEF ReadingType

LEMMA ParameterTypes ==
    ASSUME NEW p \in ParameterType
    PROVE  /\ p.chiInit \in Nat /\ p.chi_beta \in Nat /\ p.chi_gamma \in Nat
           /\ p.swapFee_p \in Nat /\ p.swapFee_theta \in Nat /\ p.swapFee_a \in Nat
  BY DEF ParameterType

LEMMA PrecisionTypes ==
    /\ ChiPrec \in Nat /\ ChiPrec > 0 /\ ChiAlpha \in Nat
    /\ BetaPrec \in Nat /\ BetaPrec > 0 /\ GammaPrec \in Nat /\ GammaPrec > 0
    /\ FeePrec \in Nat /\ FeePrec > 0 /\ PPrec \in Nat /\ PPrec > 0
    /\ ThetaPrec \in Nat /\ ThetaPrec > 0 /\ APrec \in Nat /\ APrec > 0
    /\ InOutPrec \in Nat /\ InOutPrec > 0 /\ USDsPrec \in Nat /\ USDsPrec > 0
    /\ SPAPrec \in Nat /\ SPAPrec > 0 /\ CollaPrec \in Nat /\ CollaPrec > 0
    /\ CollaScale \in Nat /\ CollaScale > 0
  BY ToolsAssumption

-----------------------------------------------------------------------------
(* The share.                                                               *)

LEMMA TargetFacts ==
    ASSUME NEW m \in ReadingType, NEW p \in ParameterType, NEW blocks \in Nat
    PROVE  chiTarget(blocks, m, p) \in Nat /\ chiTarget(blocks, m, p) <= ChiPrec
  <1>. DEFINE d == apart(m.priceUSDs, USDsPrec)
              a1 == p.chi_beta * ChiPrec * d * d
              a2 == a1 \div BetaPrec
              a3 == a2 \div USDsPrec
              a4 == a3 \div USDsPrec
              b == IF m.priceUSDs >= USDsPrec THEN p.chiInit + a4 ELSE trySub(p.chiInit, a4)
              c == blocks * ChiAlpha
  <1>1. d \in Nat
    BY MarketTypes, ParameterTypes, PrecisionTypes DEF apart
  <1>. HIDE DEF d
  <1>2. a1 \in Nat
    <2>1. p.chi_beta * ChiPrec \in Nat
      BY MulNat, MarketTypes, ParameterTypes, PrecisionTypes
    <2>2. p.chi_beta * ChiPrec * d \in Nat
      BY <1>1, <2>1, MulNat
    <2>. QED  BY <1>1, <2>2, MulNat
  <1>. HIDE DEF a1
  <1>3. a2 \in Nat
    BY <1>2, DivFacts, PrecisionTypes
  <1>. HIDE DEF a2
  <1>4. a3 \in Nat
    BY <1>3, DivFacts, PrecisionTypes
  <1>. HIDE DEF a3
  <1>5. a4 \in Nat
    BY <1>4, DivFacts, PrecisionTypes
  <1>. HIDE DEF a4
  <1>6. b \in Nat
    BY <1>5, MarketTypes, ParameterTypes DEF trySub
  <1>7. c \in Nat
    BY MulNat, MarketTypes, ParameterTypes, PrecisionTypes
  <1>. HIDE DEF b, c
  <1>8. least(trySub(b, c), ChiPrec) \in Nat /\ least(trySub(b, c), ChiPrec) <= ChiPrec
    BY <1>6, <1>7, PrecisionTypes DEF least, trySub
  <1>9. chiTarget(blocks, m, p) = least(trySub(b, c), ChiPrec)
    BY DEF chiTarget, a1, a2, a3, a4, b, c, d
  <1>. QED  BY <1>8, <1>9

(* The redeem share lies below the target, and above the target or the      *)
(* ratio unless chi_gamma is beyond one.                                    *)
LEMMA RedeemShareFacts ==
    ASSUME NEW m \in ReadingType, NEW p \in ParameterType,
           NEW blocks \in Nat, NEW ratio \in Nat, redeemable(blocks, m, p, ratio)
    PROVE  LET t == chiTarget(blocks, m, p)
               r == chiRedeem(blocks, m, p, ratio)
           IN  /\ r \in Nat /\ r <= t
               /\ p.chi_gamma <= GammaPrec => least(t, ratio) <= r
  <1>. DEFINE t == chiTarget(blocks, m, p)
              g == (p.chi_gamma * (t - ratio)) \div GammaPrec
  <1>1. t \in Nat
    BY TargetFacts
  <1>2. CASE t > ratio
    <2>1. t - ratio \in Nat /\ p.chi_gamma \in Nat /\ ratio \in Nat
      BY <1>1, <1>2, MarketTypes, ParameterTypes
    <2>2. g \in Nat
      BY <2>1, MulNat, DivFacts, PrecisionTypes
    <2>3. chiRedeem(blocks, m, p, ratio) = t - g /\ g <= t
      BY <1>2 DEF chiRedeem, redeemable
    <2>4. ASSUME p.chi_gamma <= GammaPrec PROVE g <= t - ratio
      <3>1. multiplier(t - ratio, p.chi_gamma, GammaPrec) <= t - ratio
        BY <2>1, <2>4, MultiplierBound, PrecisionTypes
      <3>. HIDE DEF t
      <3>2. (t - ratio) * p.chi_gamma = p.chi_gamma * (t - ratio)
        BY <2>1, SMT
      <3>. QED  BY <3>1, <3>2 DEF multiplier
    <2>. HIDE DEF t, g
    <2>5. p.chi_gamma <= GammaPrec => least(t, ratio) <= t - g
      BY <1>1, <2>1, <2>2, <2>4 DEF least
    <2>. QED  BY <1>1, <2>2, <2>3, <2>5 DEF t
  <1>3. CASE ~(t > ratio)
    <2>1. chiRedeem(blocks, m, p, ratio) = t
      BY <1>3 DEF chiRedeem
    <2>. QED  BY <1>1, <2>1, MarketTypes, ParameterTypes DEF least
  <1>. QED  BY <1>2, <1>3

(* The share of the collateral in a quote never exceeds the whole, and a    *)
(* redemption's lies between the target and what the vault holds.           *)
THEOREM ShareCorrect == QuotesSpec => []ShareIsAShare
  <1>1. QuotesInit => ShareIsAShare
    BY PrecisionTypes DEF QuotesInit, ShareIsAShare, redeemed, Unasked
  <1>2. ASSUME Readings, ShareIsAShare, [QuotesNext]_quotesVars PROVE ShareIsAShare'
    <2>1. ASSUME NEW v \in QuotedAmounts, NEW type \in ValueTypes, AskMint(type, v)
          PROVE  ShareIsAShare'
      <3>1. chi' <= ChiPrec
        BY <2>1, <1>2, TargetFacts DEF Readings, AskMint, chiMint
      <3>2. asked'.type # "redeem"
        BY <2>1 DEF AskMint, ValueTypes
      <3>. QED  BY <3>1, <3>2 DEF ShareIsAShare, redeemed
    <2>2. ASSUME NEW v \in QuotedAmounts, AskRedeem(v)
          PROVE  ShareIsAShare'
      <3>. DEFINE t == chiTarget(age, readings, parameters)
      <3>1. /\ chi' = chiRedeem(age, readings, parameters, backing)
            /\ redeemable(age, readings, parameters, backing)
            /\ UNCHANGED <<readings, parameters, age, backing>>
        BY <2>2 DEF AskRedeem
      <3>2. /\ chi' \in Nat /\ chi' <= t
            /\ parameters.chi_gamma <= GammaPrec => least(t, backing) <= chi'
        BY <1>2, <3>1, RedeemShareFacts DEF Readings
      <3>3. t \in Nat /\ t <= ChiPrec
        BY <1>2, TargetFacts DEF Readings
      <3>4. chiTarget(age, readings, parameters)' = t
        BY <3>1 DEF chiTarget
      <3>5. chi' <= ChiPrec
        BY <3>2, <3>3, PrecisionTypes
      <3>. QED  BY <3>1, <3>2, <3>4, <3>5 DEF ShareIsAShare
    <2>3. CASE UNCHANGED quotesVars
      BY <1>2, <2>3 DEF ShareIsAShare, redeemed, quotesVars, chiTarget
    <2>. QED  BY <1>2, <2>1, <2>2, <2>3 DEF QuotesNext
  <1>. QED  BY <1>1, <1>2, ReadingsKept, PTL DEF QuotesSpec

-----------------------------------------------------------------------------
(* The fees.                                                                *)

LEMMA BandFacts == FeeFloor \in Nat /\ FeeCap \in Nat /\ FeeFloor <= FeeCap
  <1>1. FeePrec \in Nat /\ 15 * FeePrec \in Nat /\ FeePrec <= 15 * FeePrec
    BY PrecisionTypes, SMT
  <1>. QED  BY <1>1, DivFacts, DivMono DEF FeeFloor, FeeCap

InBand(f) == f = 0 \/ (FeeFloor <= f /\ f <= FeeCap)

LEMMA FeeInFacts ==
    ASSUME NEW m \in ReadingType, NEW p \in ParameterType
    PROVE  calculateSwapFeeIn(m, p) \in Nat /\ InBand(calculateSwapFeeIn(m, p))
  <1>. DEFINE small == (p.swapFee_p * USDsPrec) \div PPrec
              gap == ((small - m.averageUSDs) * p.swapFee_theta) \div ThetaPrec
              e1 == gap * gap * FeePrec
              e2 == e1 \div USDsPrec
              e3 == e2 \div USDsPrec
              extra == e3 \div 100
  <1>1. small \in Nat
    BY MulNat, DivFacts, MarketTypes, ParameterTypes, PrecisionTypes
  <1>. HIDE DEF small
  <1>2. CASE p.feeIn /\ ~(small < m.averageUSDs)
    <2>1. small - m.averageUSDs \in Nat
      BY <1>1, <1>2, MarketTypes, ParameterTypes
    <2>2. gap \in Nat
      BY <2>1, MulNat, DivFacts, MarketTypes, ParameterTypes, PrecisionTypes
    <2>. HIDE DEF gap
    <2>3. e1 \in Nat
      BY <2>2, MulNat, PrecisionTypes
    <2>. HIDE DEF e1
    <2>4. e2 \in Nat
      BY <2>3, DivFacts, PrecisionTypes
    <2>. HIDE DEF e2
    <2>5. e3 \in Nat
      BY <2>4, DivFacts, PrecisionTypes
    <2>. HIDE DEF e3
    <2>6. extra \in Nat
      BY <2>5, DivFacts
    <2>. HIDE DEF extra
    <2>7. calculateSwapFeeIn(m, p) = least(FeeFloor + extra, FeeCap)
      BY <1>2 DEF calculateSwapFeeIn, small, gap, e1, e2, e3, extra
    <2>. QED  BY <2>6, <2>7, BandFacts DEF least, InBand
  <1>3. CASE ~p.feeIn
    BY <1>3 DEF calculateSwapFeeIn, InBand
  <1>4. CASE p.feeIn /\ small < m.averageUSDs
    <2>1. calculateSwapFeeIn(m, p) = FeeFloor
      BY <1>4 DEF calculateSwapFeeIn, small
    <2>. QED  BY <2>1, BandFacts DEF InBand
  <1>. QED  BY <1>2, <1>3, <1>4

LEMMA FeeOutFacts ==
    ASSUME NEW m \in ReadingType, NEW p \in ParameterType
    PROVE  calculateSwapFeeOut(m, p) \in Nat /\ InBand(calculateSwapFeeOut(m, p))
  <1>. DEFINE threshold == (p.swapFee_a * InOutPrec) \div APrec
              exponent == m.inOut - threshold
              raw == (Power(exponent) * FeePrec) \div 100
  <1>1. threshold \in Nat
    BY MulNat, DivFacts, MarketTypes, ParameterTypes, PrecisionTypes
  <1>. HIDE DEF threshold
  <1>2. CASE p.feeOut /\ ~(m.inOut <= threshold) /\ ~(exponent >= ExponentLimit)
    <2>1. exponent \in 0 .. 33
      BY <1>1, <1>2, MarketTypes, ParameterTypes DEF ExponentLimit
    <2>2. Power(exponent) \in Nat /\ Power(exponent) >= 1
      BY <2>1, ToolsAssumption
    <2>3. calculateSwapFeeOut(m, p) = least(raw, FeeCap)
      BY <1>2 DEF calculateSwapFeeOut, threshold, exponent, raw
    <2>4. /\ Power(exponent) * FeePrec \in Nat
          /\ FeePrec <= Power(exponent) * FeePrec
      <3>. DEFINE w == Power(exponent)
      <3>1. w \in Nat /\ w >= 1
        BY <2>2
      <3>. HIDE DEF w
      <3>2. w * FeePrec \in Nat /\ 1 * FeePrec <= w * FeePrec /\ 1 * FeePrec = FeePrec
        BY <3>1, MulNat, MulMono, PrecisionTypes
      <3>. QED  BY <3>2 DEF w
    <2>. DEFINE dividend == Power(exponent) * FeePrec
    <2>5. dividend \in Nat /\ FeePrec <= dividend
      BY <2>4
    <2>. HIDE DEF dividend
    <2>6. dividend \div 100 \in Nat /\ FeePrec \div 100 <= dividend \div 100
      BY <2>5, DivFacts, DivMono, PrecisionTypes
    <2>7. FeeFloor <= FeePrec \div 100
      BY PrecisionTypes, SMT DEF FeeFloor
    <2>8. FeePrec \div 100 \in Nat
      BY PrecisionTypes, DivFacts
    <2>9. raw = dividend \div 100
      BY DEF dividend, raw
    <2>10. raw \in Nat /\ FeeFloor <= raw
      BY <2>6, <2>7, <2>8, <2>9, BandFacts
    <2>. HIDE DEF raw
    <2>. QED  BY <2>3, <2>10, BandFacts DEF least, InBand
  <1>3. CASE ~p.feeOut
    BY <1>3 DEF calculateSwapFeeOut, InBand
  <1>4. CASE p.feeOut /\ m.inOut <= threshold
    <2>1. calculateSwapFeeOut(m, p) = FeeFloor
      BY <1>4 DEF calculateSwapFeeOut, threshold
    <2>. QED  BY <2>1, BandFacts DEF InBand
  <1>5. CASE p.feeOut /\ ~(m.inOut <= threshold) /\ exponent >= ExponentLimit
    <2>1. calculateSwapFeeOut(m, p) = FeeCap
      BY <1>5 DEF calculateSwapFeeOut, threshold, exponent
    <2>. QED  BY <2>1, BandFacts DEF InBand
  <1>. QED  BY <1>2, <1>3, <1>4, <1>5

(* A fee that is on lies between a tenth of a percent and one and a half.   *)
THEOREM FeesCorrect == QuotesSpec => []FeesInBand
  <1>1. QuotesInit => FeesInBand
    BY DEF QuotesInit, FeesInBand
  <1>2. ASSUME Readings, FeesInBand, [QuotesNext]_quotesVars PROVE FeesInBand'
    <2>1. ASSUME NEW v \in QuotedAmounts, NEW type \in ValueTypes, AskMint(type, v)
          PROVE  FeesInBand'
      BY <1>2, <2>1, FeeInFacts DEF Readings, AskMint, FeesInBand, InBand
    <2>2. ASSUME NEW v \in QuotedAmounts, AskRedeem(v)
          PROVE  FeesInBand'
      BY <1>2, <2>2, FeeOutFacts DEF Readings, AskRedeem, FeesInBand, InBand
    <2>3. CASE UNCHANGED quotesVars
      BY <1>2, <2>3 DEF FeesInBand, quotesVars
    <2>. QED  BY <1>2, <2>1, <2>2, <2>3 DEF QuotesNext
  <1>. QED  BY <1>1, <1>2, ReadingsKept, PTL DEF QuotesSpec

(* Every quote is computed with a share of the whole and a fee in its band. *)
THEOREM RatesCorrect == QuotesSpec => []RatesInRange
  <1>1. ShareIsAShare /\ FeesInBand => RatesInRange
    BY DEF RatesInRange
  <1>. QED  BY <1>1, ShareCorrect, FeesCorrect, PTL

-----------------------------------------------------------------------------
(* Redemptions.                                                             *)

LEMMA ScaleInt ==
    ASSUME NEW x \in Int, NEW y \in Int, NEW z \in Nat, x <= y
    PROVE  x * z <= y * z
  BY SMT

LEMMA CancelLe ==
    ASSUME NEW x \in Int, NEW y \in Int, NEW d \in Nat, d > 0, x * d <= y * d
    PROVE  x <= y
  BY SMT

(* The two shares of an amount do not add up to more than the amount.       *)
LEMMA SharesFit ==
    ASSUME NEW n \in Nat, NEW k \in Nat, NEW d \in Nat, d > 0, k <= d
    PROVE  multiplier(n, d - k, d) + multiplier(n, k, d) <= n
  <1>. DEFINE x == (n * (d - k)) \div d
              y == (n * k) \div d
  <1>1. d - k \in Nat /\ n * (d - k) \in Nat /\ n * k \in Nat
    BY MulNat
  <1>2. /\ x \in Nat /\ y \in Nat
        /\ x * d <= n * (d - k) /\ y * d <= n * k
    BY <1>1, DivFacts
  <1>. HIDE DEF x, y
  <1>3. (x + y) * d <= n * d
    BY <1>1, <1>2, SMT
  <1>4. x + y <= n
    BY <1>2, <1>3, CancelLe
  <1>. QED  BY <1>4 DEF multiplier, x, y

(* After a fee at least one unit less than the share of the fee is gone.    *)
LEMMA FeeTaken ==
    ASSUME NEW v \in Nat, NEW f \in Nat, f <= FeePrec
    PROVE  /\ afterFee(v, f) \in Nat /\ afterFee(v, f) <= v
           /\ (afterFee(v, f) - 1) * FeePrec <= v * (FeePrec - f)
  <1>. DEFINE k == (v * f) \div FeePrec
  <1>1. v * f \in Nat
    BY MulNat
  <1>2. k \in Nat /\ v * f < k * FeePrec + FeePrec
    BY <1>1, DivFacts, PrecisionTypes
  <1>3. k <= v
    BY MultiplierBound, PrecisionTypes DEF multiplier
  <1>4. afterFee(v, f) = v - k
    BY DEF afterFee, multiplier
  <1>. HIDE DEF k
  <1>5. /\ (v - k - 1) * FeePrec = v * FeePrec - (k * FeePrec + FeePrec)
        /\ v * (FeePrec - f) = v * FeePrec - v * f
        /\ v * FeePrec \in Nat /\ k * FeePrec \in Nat
    BY <1>2, PrecisionTypes, SMT
  <1>6. (v - k - 1) * FeePrec <= v * (FeePrec - f)
    BY <1>1, <1>2, <1>5, PrecisionTypes
  <1>. QED  BY <1>2, <1>3, <1>4, <1>6

LEMMA FeeIsPart == ASSUME NEW f \in Nat, InBand(f) PROVE f <= FeePrec
  <1>1. FeeCap <= FeePrec
    BY PrecisionTypes, SMT DEF FeeCap
  <1>. QED  BY <1>1, BandFacts, PrecisionTypes DEF InBand

(* What a redemption of n pays, in the worth of USDs.                       *)
LEMMA RedeemViewFacts ==
    ASSUME NEW n \in Nat, NEW c \in Nat, c <= ChiPrec,
           NEW f \in Nat, f <= FeePrec, NEW m \in ReadingType
    PROVE  LET q == redeemView(n, c, f, m)
               paid == worthOfColla(q.collaUnlockAmt, m) + worthOfSPA(q.SPAMintAmt, m)
           IN  /\ paid <= worthOfUSDs(n)
               /\ paid <= worthOfUSDs(q.USDsBurntAmt) + Dust(m)
  <1>. DEFINE a == m.priceSPA
              b == m.priceColla
              x == multiplier(n, ChiPrec - c, ChiPrec)
              y == multiplier(n, c, ChiPrec)
              spa == multiplier(x, SPAPrec, a)
              full == multiplier(y, CollaPrec, b)
              colla == full \div CollaScale
              sn == afterFee(spa, f)
              cn == afterFee(colla, f)
              burnt == n - multiplier(n, f, FeePrec)
              paid == cn * CollaScale * b * SPAPrec + sn * a * CollaPrec
  <1>1. a \in Nat /\ a > 0 /\ b \in Nat /\ b > 0
    BY MarketTypes, ParameterTypes
  <1>. HIDE DEF a, b
  <1>2. x \in Nat /\ y \in Nat /\ x + y <= n
    BY SharesFit, MultiplierBound, PrecisionTypes
  <1>. HIDE DEF x, y
  <1>3. spa \in Nat /\ spa * a <= x * SPAPrec
    <2>1. x * SPAPrec \in Nat
      BY <1>2, MulNat, PrecisionTypes
    <2>. QED  BY <1>1, <2>1, DivFacts DEF multiplier
  <1>4. full \in Nat /\ full * b <= y * CollaPrec
    <2>1. y * CollaPrec \in Nat
      BY <1>2, MulNat, PrecisionTypes
    <2>. QED  BY <1>1, <2>1, DivFacts DEF multiplier
  <1>. HIDE DEF full
  <1>5. colla \in Nat /\ colla * CollaScale <= full
    BY <1>4, DivFacts, PrecisionTypes
  <1>. HIDE DEF spa, colla
  <1>6. (colla * CollaScale) * b <= y * CollaPrec
    <2>1. colla * CollaScale \in Nat /\ full * b \in Nat /\ y * CollaPrec \in Nat
          /\ (colla * CollaScale) * b \in Nat
      BY <1>1, <1>2, <1>4, <1>5, MulNat, PrecisionTypes
    <2>2. (colla * CollaScale) * b <= full * b
      BY <1>1, <1>4, <1>5, <2>1, MulMono
    <2>. QED  BY <1>4, <2>1, <2>2
  <1>7. /\ sn \in Nat /\ sn <= spa /\ (sn - 1) * FeePrec <= spa * (FeePrec - f)
        /\ cn \in Nat /\ cn <= colla /\ (cn - 1) * FeePrec <= colla * (FeePrec - f)
    BY <1>3, <1>5, FeeTaken
  <1>. HIDE DEF sn, cn
  <1>. DEFINE w == CollaPrec * SPAPrec
  <1>8. w \in Nat
    BY MulNat, PrecisionTypes
  <1>9. paid <= n * w
    <2>1. sn * a <= x * SPAPrec
      BY <1>1, <1>2, <1>3, <1>7, MulMono, MulNat, PrecisionTypes, SMT
    <2>2. (sn * a) * CollaPrec <= (x * SPAPrec) * CollaPrec
      BY <1>1, <1>2, <1>7, <2>1, MulMono, MulNat, PrecisionTypes
    <2>3. (cn * CollaScale) * b <= (colla * CollaScale) * b
      BY <1>1, <1>5, <1>7, MulMono, MulNat, PrecisionTypes
    <2>4. (cn * CollaScale) * b <= y * CollaPrec
      BY <1>1, <1>2, <1>5, <1>6, <1>7, <2>3, MulNat, PrecisionTypes
    <2>5. ((cn * CollaScale) * b) * SPAPrec <= (y * CollaPrec) * SPAPrec
      BY <1>1, <1>2, <1>7, <2>4, MulMono, MulNat, PrecisionTypes
    <2>6. (x * SPAPrec) * CollaPrec + (y * CollaPrec) * SPAPrec = (x + y) * w
      BY <1>2, PrecisionTypes, SMT
    <2>7. (x + y) * w <= n * w
      BY <1>2, <1>8, MulMono
    <2>8. /\ (x * SPAPrec) * CollaPrec \in Nat /\ (y * CollaPrec) * SPAPrec \in Nat
          /\ (sn * a) * CollaPrec \in Nat /\ ((cn * CollaScale) * b) * SPAPrec \in Nat
          /\ (x + y) * w \in Nat /\ n * w \in Nat
      BY <1>1, <1>2, <1>7, <1>8, MulNat, PrecisionTypes
    <2>. HIDE DEF w
    <2>. QED  BY <2>2, <2>5, <2>6, <2>7, <2>8
  <1>10. paid - (CollaScale * b * SPAPrec + a * CollaPrec) <= burnt * w
    <2>. DEFINE g == FeePrec - f
                s1 == (sn - 1) * FeePrec
                c1 == (cn - 1) * FeePrec
    <2>1. g \in Nat
      BY PrecisionTypes
    <2>2. s1 \in Int /\ c1 \in Int /\ s1 <= spa * g /\ c1 <= colla * g
      BY <1>7, PrecisionTypes, SMT
    <2>3. burnt \in Nat /\ n * g <= burnt * FeePrec
      <3>. DEFINE k == (n * f) \div FeePrec
      <3>1. n * f \in Nat
        BY MulNat
      <3>2. k \in Nat /\ k * FeePrec <= n * f /\ k <= n /\ burnt = n - k
        BY <3>1, DivFacts, MultiplierBound, PrecisionTypes DEF multiplier
      <3>. HIDE DEF k, burnt
      <3>3. /\ (n - k) * FeePrec = n * FeePrec - k * FeePrec
            /\ n * g = n * FeePrec - n * f
        BY <3>2, PrecisionTypes, SMT
      <3>. QED  BY <3>1, <3>2, <3>3, MulNat, PrecisionTypes
    <2>. HIDE DEF g, s1, c1, burnt
    <2>4. s1 * (a * CollaPrec) <= (x * g) * w
      <3>1. a * CollaPrec \in Nat /\ spa * g \in Nat /\ g * CollaPrec \in Nat
            /\ spa * a \in Nat /\ x * SPAPrec \in Nat
        BY <1>1, <1>2, <1>3, <2>1, MulNat, PrecisionTypes
      <3>2. s1 * (a * CollaPrec) <= (spa * g) * (a * CollaPrec)
        BY <2>2, <3>1, ScaleInt
      <3>3. (spa * a) * (g * CollaPrec) <= (x * SPAPrec) * (g * CollaPrec)
        BY <1>3, <3>1, MulMono
      <3>4. (spa * g) * (a * CollaPrec) = (spa * a) * (g * CollaPrec)
        BY <1>1, <1>3, <2>1, PrecisionTypes, SMT
      <3>5. (x * SPAPrec) * (g * CollaPrec) = (x * g) * w
        BY <1>2, <2>1, PrecisionTypes, SMT
      <3>6. s1 * (a * CollaPrec) \in Int /\ (spa * a) * (g * CollaPrec) \in Nat
            /\ (x * SPAPrec) * (g * CollaPrec) \in Nat
        BY <2>2, <3>1, MulNat, SMT
      <3>. HIDE DEF w
      <3>. QED  BY <3>2, <3>3, <3>4, <3>5, <3>6
    <2>5. c1 * (CollaScale * b * SPAPrec) <= (y * g) * w
      <3>1. CollaScale * b * SPAPrec \in Nat /\ colla * g \in Nat /\ g * SPAPrec \in Nat
            /\ (colla * CollaScale) * b \in Nat /\ y * CollaPrec \in Nat
        BY <1>1, <1>2, <1>5, <2>1, MulNat, PrecisionTypes
      <3>2. c1 * (CollaScale * b * SPAPrec) <= (colla * g) * (CollaScale * b * SPAPrec)
        BY <2>2, <3>1, ScaleInt
      <3>3. ((colla * CollaScale) * b) * (g * SPAPrec) <= (y * CollaPrec) * (g * SPAPrec)
        BY <1>6, <3>1, MulMono
      <3>4. (colla * g) * (CollaScale * b * SPAPrec)
               = ((colla * CollaScale) * b) * (g * SPAPrec)
        BY <1>1, <1>5, <2>1, PrecisionTypes, SMT
      <3>5. (y * CollaPrec) * (g * SPAPrec) = (y * g) * w
        BY <1>2, <2>1, PrecisionTypes, SMT
      <3>6. /\ c1 * (CollaScale * b * SPAPrec) \in Int
            /\ ((colla * CollaScale) * b) * (g * SPAPrec) \in Nat
            /\ (y * CollaPrec) * (g * SPAPrec) \in Nat
        BY <2>2, <3>1, MulNat, SMT
      <3>. HIDE DEF w
      <3>. QED  BY <3>2, <3>3, <3>4, <3>5, <3>6
    <2>6. (x * g) * w + (y * g) * w <= (burnt * FeePrec) * w
      <3>1. (x * g) * w + (y * g) * w = ((x + y) * g) * w
        BY <1>2, <1>8, <2>1, SMT
      <3>2. (x + y) * g <= n * g
        BY <1>2, <2>1, MulMono
      <3>3. (x + y) * g \in Nat /\ n * g \in Nat /\ burnt * FeePrec \in Nat
        BY <1>2, <2>1, <2>3, MulNat, PrecisionTypes
      <3>4. (x + y) * g <= burnt * FeePrec
        BY <2>3, <3>2, <3>3
      <3>5. ((x + y) * g) * w <= (burnt * FeePrec) * w
        BY <1>8, <3>3, <3>4, MulMono
      <3>. QED  BY <3>1, <3>5
    <2>. DEFINE left == paid - (CollaScale * b * SPAPrec + a * CollaPrec)
    <2>7. left * FeePrec = s1 * (a * CollaPrec) + c1 * (CollaScale * b * SPAPrec)
      BY <1>1, <1>7, PrecisionTypes, SMT DEF s1, c1
    <2>8. (burnt * FeePrec) * w = (burnt * w) * FeePrec
      BY <1>8, <2>3, PrecisionTypes, SMT
    <2>9. left \in Int /\ burnt * w \in Int
      BY <1>1, <1>7, <1>8, <2>3, PrecisionTypes, MulNat, SMT
    <2>10. /\ s1 * (a * CollaPrec) \in Int /\ c1 * (CollaScale * b * SPAPrec) \in Int
           /\ (x * g) * w \in Nat /\ (y * g) * w \in Nat
           /\ (burnt * FeePrec) * w \in Nat
      BY <1>1, <1>2, <1>8, <2>1, <2>2, <2>3, PrecisionTypes, MulNat, SMT
    <2>. HIDE DEF left, w
    <2>11. left * FeePrec <= (burnt * w) * FeePrec
      BY <2>4, <2>5, <2>6, <2>7, <2>8, <2>10
    <2>12. left <= burnt * w
      BY <2>9, <2>11, CancelLe, PrecisionTypes
    <2>. QED  BY <2>12 DEF left
  <1>11. LET q == redeemView(n, c, f, m)
         IN  /\ worthOfColla(q.collaUnlockAmt, m) = cn * CollaScale * b * SPAPrec
             /\ worthOfSPA(q.SPAMintAmt, m) = sn * a * CollaPrec
             /\ q.USDsBurntAmt = burnt
    BY DEF redeemView, worthOfColla, worthOfSPA, a, b, x, y, spa, full, colla, sn, cn
  <1>12. /\ worthOfUSDs(n) = n * w /\ worthOfUSDs(burnt) = burnt * w
         /\ Dust(m) = CollaScale * b * SPAPrec + a * CollaPrec
    <2>1. burnt \in Nat
      BY MultiplierBound, PrecisionTypes
    <2>. HIDE DEF burnt
    <2>. QED  BY <1>1, <2>1, PrecisionTypes, SMT
              DEF worthOfUSDs, worthOfColla, worthOfSPA, Dust, a, b
  <1>13. /\ paid \in Int /\ burnt * w \in Int
         /\ CollaScale * b * SPAPrec + a * CollaPrec \in Int
    <2>1. burnt \in Nat
      BY MultiplierBound, PrecisionTypes
    <2>. HIDE DEF burnt, w
    <2>. QED  BY <1>1, <1>7, <1>8, <2>1, PrecisionTypes, MulNat, SMT
  <1>. HIDE DEF burnt, w
  <1>. QED  BY <1>9, <1>10, <1>11, <1>12, <1>13

(* The amounts of a redemption; what is not burnt is the fee.               *)
LEMMA RedeemViewTypes ==
    ASSUME NEW n \in Nat, NEW c \in Nat, c <= ChiPrec,
           NEW f \in Nat, f <= FeePrec, NEW m \in ReadingType
    PROVE  LET q == redeemView(n, c, f, m)
           IN  /\ q.SPAMintAmt \in Nat /\ q.collaUnlockAmt \in Nat
               /\ q.USDsBurntAmt \in Nat /\ q.swapFeeAmount \in Nat
               /\ q.USDsBurntAmt + q.swapFeeAmount = n
  <1>. DEFINE x == multiplier(n, ChiPrec - c, ChiPrec)
              y == multiplier(n, c, ChiPrec)
              spa == multiplier(x, SPAPrec, m.priceSPA)
              full == multiplier(y, CollaPrec, m.priceColla)
              colla == full \div CollaScale
              k == multiplier(n, f, FeePrec)
  <1>1. x \in Nat /\ y \in Nat
    <2>1. ChiPrec - c \in Nat /\ ChiPrec - c <= ChiPrec
      BY PrecisionTypes
    <2>. QED  BY <2>1, MultiplierBound, PrecisionTypes
  <1>2. k \in Nat /\ k <= n
    BY MultiplierBound, PrecisionTypes
  <1>. HIDE DEF x, y, k
  <1>3. x * SPAPrec \in Nat /\ y * CollaPrec \in Nat
    BY <1>1, MulNat, PrecisionTypes
  <1>4. spa \in Nat /\ full \in Nat
    BY <1>3, DivFacts, MarketTypes DEF multiplier
  <1>. HIDE DEF spa, full
  <1>5. colla \in Nat
    BY <1>4, DivFacts, PrecisionTypes
  <1>. HIDE DEF colla
  <1>6. afterFee(spa, f) \in Nat /\ afterFee(colla, f) \in Nat
    BY <1>4, <1>5, FeeTaken
  <1>7. redeemView(n, c, f, m) =
           [SPAMintAmt |-> afterFee(spa, f), collaUnlockAmt |-> afterFee(colla, f),
            USDsBurntAmt |-> n - k, swapFeeAmount |-> k]
    BY DEF redeemView, x, y, spa, full, colla, k
  <1>. DEFINE q == redeemView(n, c, f, m)
  <1>8. /\ q.SPAMintAmt = afterFee(spa, f) /\ q.collaUnlockAmt = afterFee(colla, f)
        /\ q.USDsBurntAmt = n - k /\ q.swapFeeAmount = k
    BY <1>7
  <1>. HIDE DEF q
  <1>9. /\ q.SPAMintAmt \in Nat /\ q.collaUnlockAmt \in Nat
        /\ q.USDsBurntAmt \in Nat /\ q.swapFeeAmount \in Nat
        /\ q.USDsBurntAmt + q.swapFeeAmount = n
    BY <1>2, <1>6, <1>8
  <1>. QED  BY <1>9 DEF q

(* A redemption pays no more than the USDs handed in are worth, nor, but    *)
(* for a unit of each token, than those it burns.                           *)
THEOREM RedemptionsBacked == QuotesSpec => []RedeemIsBacked
  <1>1. QuotesInit => RedeemIsBacked
    BY DEF QuotesInit, RedeemIsBacked, redeemed, Unasked
  <1>2. ASSUME Readings, RedeemIsBacked, [QuotesNext]_quotesVars PROVE RedeemIsBacked'
    <2>1. ASSUME NEW v \in QuotedAmounts, NEW type \in ValueTypes, AskMint(type, v)
          PROVE  RedeemIsBacked'
      BY <2>1 DEF AskMint, ValueTypes, RedeemIsBacked, redeemed
    <2>2. ASSUME NEW v \in QuotedAmounts, AskRedeem(v)
          PROVE  RedeemIsBacked'
      <3>1. /\ chi' = chiRedeem(age, readings, parameters, backing)
            /\ redeemable(age, readings, parameters, backing)
            /\ fee' = calculateSwapFeeOut(readings, parameters)
            /\ quote' = redeemView(v, chi', fee', readings)
            /\ asked'.amount = v /\ readings' = readings
        BY <2>2 DEF AskRedeem
      <3>2. chi' \in Nat /\ chi' <= ChiPrec
        BY <1>2, <3>1, RedeemShareFacts, TargetFacts, PrecisionTypes DEF Readings
      <3>3. fee' \in Nat /\ fee' <= FeePrec
        BY <1>2, <3>1, FeeOutFacts, FeeIsPart DEF Readings
      <3>4. v \in Nat
        BY QuotesAssumption
      <3>. DEFINE q == redeemView(v, chi', fee', readings)
                  paid == worthOfColla(q.collaUnlockAmt, readings) + worthOfSPA(q.SPAMintAmt, readings)
      <3>5. paid <= worthOfUSDs(v) /\ paid <= worthOfUSDs(q.USDsBurntAmt) + Dust(readings)
        BY <1>2, <3>2, <3>3, <3>4, RedeemViewFacts DEF Readings
      <3>. QED  BY <3>1, <3>5
                DEF RedeemIsBacked, worthOfColla, worthOfSPA, worthOfUSDs, Dust
    <2>3. CASE UNCHANGED quotesVars
      BY <1>2, <2>3 DEF RedeemIsBacked, redeemed, quotesVars, worthOfColla, worthOfSPA,
                        worthOfUSDs, Dust
    <2>. QED  BY <1>2, <2>1, <2>2, <2>3 DEF QuotesNext
  <1>. QED  BY <1>1, <1>2, ReadingsKept, PTL DEF QuotesSpec

-----------------------------------------------------------------------------
(* Mints.                                                                   *)

(* Adding the fee multiplies by 1 + fee, but for less than one unit.        *)
LEMMA FeeAdded ==
    ASSUME NEW x \in Nat, NEW f \in Nat
    PROVE  /\ plusFee(x, f) \in Nat
           /\ plusFee(x, f) * FeePrec <= x * (FeePrec + f)
           /\ x * (FeePrec + f) <= (plusFee(x, f) + 1) * FeePrec
  <1>. DEFINE k == (x * f) \div FeePrec
  <1>1. x * f \in Nat
    BY MulNat
  <1>2. k \in Nat /\ k * FeePrec <= x * f /\ x * f < k * FeePrec + FeePrec
    BY <1>1, DivFacts, PrecisionTypes
  <1>3. plusFee(x, f) = x + k
    BY DEF plusFee
  <1>. HIDE DEF k
  <1>4. /\ (x + k) * FeePrec = x * FeePrec + k * FeePrec
        /\ (x + k + 1) * FeePrec = x * FeePrec + (k * FeePrec + FeePrec)
        /\ x * (FeePrec + f) = x * FeePrec + x * f
        /\ x * FeePrec \in Nat /\ k * FeePrec \in Nat
    BY <1>2, PrecisionTypes, SMT
  <1>. QED  BY <1>1, <1>2, <1>3, <1>4, PrecisionTypes

(* An amount less its fee is paid for by the amount.                        *)
LEMMA FeeLeft ==
    ASSUME NEW v \in Nat, NEW f \in Nat
    PROVE  lessFee(v, f) \in Nat /\ lessFee(v, f) * (FeePrec + f) <= v * FeePrec
  <1>1. v * FeePrec \in Nat /\ FeePrec + f \in Nat /\ FeePrec + f > 0
    BY MulNat, PrecisionTypes
  <1>. QED  BY <1>1, DivFacts DEF lessFee

(* An amount x in tokens of price u that a share y of a mint comes to, with *)
(* its fee: no more than three units short, and no more than any amount z   *)
(* before fees that would pay for the share.                                *)
LEMMA ShareWithFee ==
    ASSUME NEW x \in Nat, NEW y \in Nat, NEW u \in Nat, NEW f \in Nat, f <= FeePrec,
           x * u <= y, y <= (x + 1) * u
    PROVE  y * (FeePrec + f) <= ((plusFee(x, f) + 3) * u) * FeePrec
  <1>. DEFINE s == plusFee(x, f)
              g == FeePrec + f
  <1>1. s \in Nat /\ x * g <= (s + 1) * FeePrec /\ g \in Nat /\ g <= 2 * FeePrec
    BY FeeAdded, PrecisionTypes
  <1>. HIDE DEF s, g
  <1>2. (x + 1) * g <= (s + 3) * FeePrec
    <2>1. /\ (x + 1) * g = x * g + g
          /\ (s + 3) * FeePrec = (s + 1) * FeePrec + 2 * FeePrec
          /\ x * g \in Nat /\ (s + 1) * FeePrec \in Nat
      BY <1>1, PrecisionTypes, SMT
    <2>. QED  BY <1>1, <2>1, PrecisionTypes
  <1>3. y * g <= ((x + 1) * u) * g
    <2>1. (x + 1) * u \in Nat
      BY MulNat
    <2>. QED  BY <1>1, <2>1, MulMono
  <1>4. ((x + 1) * g) * u <= ((s + 3) * FeePrec) * u
    <2>1. (x + 1) * g \in Nat /\ (s + 3) * FeePrec \in Nat
      BY <1>1, MulNat, PrecisionTypes
    <2>. QED  BY <1>2, <2>1, MulMono
  <1>5. /\ ((x + 1) * u) * g = ((x + 1) * g) * u
        /\ ((s + 3) * FeePrec) * u = ((s + 3) * u) * FeePrec
    BY <1>1, PrecisionTypes, SMT
  <1>6. y * g \in Nat /\ ((x + 1) * u) * g \in Nat /\ ((s + 3) * u) * FeePrec \in Nat
    BY <1>1, MulNat, PrecisionTypes
  <1>7. y * g <= ((s + 3) * u) * FeePrec
    BY <1>3, <1>4, <1>5, <1>6
  <1>. QED  BY <1>7 DEF s, g

LEMMA ShareNoDearer ==
    ASSUME NEW x \in Nat, NEW y \in Nat, NEW u \in Nat, u > 0, NEW f \in Nat,
           NEW z \in Nat, NEW v \in Nat,
           x * u <= y, y <= z * u, z * (FeePrec + f) <= v * FeePrec
    PROVE  plusFee(x, f) <= v
  <1>. DEFINE s == plusFee(x, f)
              g == FeePrec + f
  <1>1. s \in Nat /\ s * FeePrec <= x * g /\ g \in Nat
    BY FeeAdded, PrecisionTypes
  <1>. HIDE DEF s
  <1>2. x <= z
    <2>1. x * u \in Nat /\ z * u \in Nat
      BY MulNat
    <2>2. x * u <= z * u
      BY <2>1
    <2>. QED  BY <2>2, CancelLe
  <1>3. x * g <= z * g
    BY <1>1, <1>2, MulMono
  <1>4. s * FeePrec \in Nat /\ x * g \in Nat /\ z * g \in Nat /\ v * FeePrec \in Nat
    BY <1>1, MulNat, PrecisionTypes
  <1>5. s * FeePrec <= v * FeePrec
    BY <1>1, <1>3, <1>4
  <1>6. s <= v
    BY <1>1, <1>5, CancelLe, PrecisionTypes
  <1>. QED  BY <1>6 DEF s

(* The shares of a mint of n, as products: in SPA and in the collateral.    *)
shareSPA(n, c) == n * (ChiPrec - c) * SPAPrec
shareColla(n, c) == n * c * CollaPrec
unitSPA(m) == m.priceSPA * ChiPrec
unitColla(m) == CollaScale * (ChiPrec * m.priceColla)

LEMMA ShareTypes ==
    ASSUME NEW n \in Nat, NEW c \in Nat, c <= ChiPrec, NEW m \in ReadingType
    PROVE  /\ shareSPA(n, c) \in Nat /\ shareColla(n, c) \in Nat
           /\ unitSPA(m) \in Nat /\ unitSPA(m) > 0
           /\ unitColla(m) \in Nat /\ unitColla(m) > 0
           /\ ChiPrec * m.priceColla \in Nat /\ ChiPrec * m.priceColla > 0
  <1>1. ChiPrec - c \in Nat
    BY PrecisionTypes
  <1>2. n * (ChiPrec - c) \in Nat /\ n * c \in Nat
    BY <1>1, MulNat
  <1>3. shareSPA(n, c) \in Nat /\ shareColla(n, c) \in Nat
    BY <1>2, MulNat, PrecisionTypes DEF shareSPA, shareColla
  <1>4. unitSPA(m) \in Nat /\ unitSPA(m) > 0
    BY MarketTypes, ParameterTypes, PrecisionTypes, SMT DEF unitSPA
  <1>. DEFINE d == ChiPrec * m.priceColla
  <1>5. d \in Nat /\ d > 0
    BY MarketTypes, ParameterTypes, PrecisionTypes, SMT
  <1>. HIDE DEF d
  <1>6. CollaScale * d \in Nat /\ CollaScale * d > 0
    BY <1>5, PrecisionTypes, SMT
  <1>. QED  BY <1>3, <1>4, <1>5, <1>6 DEF unitColla, d

(* What is quoted for a mint of n USDs, before the fee.                     *)
netSPA(n, c, m) == shareSPA(n, c) \div unitSPA(m)
netColla(n, c, m) == (shareColla(n, c) \div (ChiPrec * m.priceColla)) \div CollaScale

LEMMA NetFacts ==
    ASSUME NEW n \in Nat, NEW c \in Nat, c <= ChiPrec, NEW m \in ReadingType
    PROVE  /\ netSPA(n, c, m) \in Nat
           /\ netSPA(n, c, m) * unitSPA(m) <= shareSPA(n, c)
           /\ shareSPA(n, c) <= (netSPA(n, c, m) + 1) * unitSPA(m)
           /\ netColla(n, c, m) \in Nat
           /\ netColla(n, c, m) * unitColla(m) <= shareColla(n, c)
           /\ shareColla(n, c) <= (netColla(n, c, m) + 1) * unitColla(m)
  <1>1. /\ netSPA(n, c, m) \in Nat
        /\ netSPA(n, c, m) * unitSPA(m) <= shareSPA(n, c)
        /\ shareSPA(n, c) <= (netSPA(n, c, m) + 1) * unitSPA(m)
    <2>. DEFINE x == netSPA(n, c, m)
                y == shareSPA(n, c)
                u == unitSPA(m)
    <2>1. y \in Nat /\ u \in Nat /\ u > 0
      BY ShareTypes
    <2>2. x = y \div u
      BY DEF netSPA
    <2>. HIDE DEF x, y, u
    <2>3. x \in Nat /\ x * u <= y /\ y < x * u + u
      BY <2>1, <2>2, DivFacts
    <2>4. (x + 1) * u = x * u + u /\ x * u \in Nat
      BY <2>1, <2>3, SMT
    <2>5. x \in Nat /\ x * u <= y /\ y <= (x + 1) * u
      BY <2>1, <2>3, <2>4
    <2>. QED  BY <2>5 DEF x, y, u
  <1>2. /\ netColla(n, c, m) \in Nat
        /\ netColla(n, c, m) * unitColla(m) <= shareColla(n, c)
        /\ shareColla(n, c) <= (netColla(n, c, m) + 1) * unitColla(m)
    <2>. DEFINE x == netColla(n, c, m)
                y == shareColla(n, c)
                d == ChiPrec * m.priceColla
                q == y \div d
    <2>1. y \in Nat /\ d \in Nat /\ d > 0
      BY ShareTypes
    <2>2. x = q \div CollaScale /\ unitColla(m) = CollaScale * d
      BY DEF netColla, unitColla
    <2>. HIDE DEF x, y, d
    <2>3. q \in Nat /\ q * d <= y /\ y < q * d + d
      BY <2>1, DivFacts
    <2>. HIDE DEF q
    <2>4. x \in Nat /\ x * CollaScale <= q /\ q < x * CollaScale + CollaScale
      BY <2>2, <2>3, DivFacts, PrecisionTypes
    <2>5. x * CollaScale \in Nat /\ (x + 1) * CollaScale = x * CollaScale + CollaScale
          /\ (x + 1) * CollaScale \in Nat
      BY <2>4, PrecisionTypes, SMT
    <2>6. (x * CollaScale) * d <= q * d
      BY <2>1, <2>3, <2>4, <2>5, MulMono
    <2>7. (q + 1) * d <= ((x + 1) * CollaScale) * d
      BY <2>1, <2>3, <2>4, <2>5, MulMono, PrecisionTypes
    <2>8. /\ x * unitColla(m) = (x * CollaScale) * d
          /\ (x + 1) * unitColla(m) = ((x + 1) * CollaScale) * d
          /\ (q + 1) * d = q * d + d
      BY <2>1, <2>2, <2>3, <2>4, PrecisionTypes, SMT
    <2>9. /\ (x * CollaScale) * d \in Nat /\ q * d \in Nat
          /\ ((x + 1) * CollaScale) * d \in Nat
      BY <2>1, <2>3, <2>5, MulNat
    <2>10. x \in Nat /\ x * unitColla(m) <= y /\ y <= (x + 1) * unitColla(m)
      BY <2>1, <2>3, <2>4, <2>6, <2>7, <2>8, <2>9
    <2>. QED  BY <2>10 DEF x, y
  <1>. QED  BY <1>1, <1>2

LEMMA CalculatorsNet ==
    ASSUME NEW n, NEW c, NEW f, NEW m
    PROVE  /\ SPAAmountCalculator(n, c, f, m) = plusFee(netSPA(n, c, m), f)
           /\ collaDeptAmountCalculator(n, c, f, m) = plusFee(netColla(n, c, m), f)
  BY DEF SPAAmountCalculator, collaDeptAmountCalculator, netSPA, netColla, shareSPA,
         shareColla, unitSPA

(* What can be minted for an amount in one token is paid for by the amount. *)
LEMMA MintedForSPA ==
    ASSUME NEW v \in Nat, NEW c \in Nat, c < ChiPrec, NEW f \in Nat, NEW m \in ReadingType
    PROVE  LET n == USDsForSPA(v, c, f, m)
           IN  n \in Nat /\ shareSPA(n, c) <= lessFee(v, f) * unitSPA(m)
  <1>. DEFINE l == lessFee(v, f)
              n == USDsForSPA(v, c, f, m)
              d == SPAPrec * (ChiPrec - c)
              y == l * ChiPrec * m.priceSPA
  <1>1. l \in Nat
    BY FeeLeft
  <1>2. n = y \div d
    BY DEF USDsForSPA
  <1>. HIDE DEF l, n
  <1>3. ChiPrec - c \in Nat /\ ChiPrec - c > 0
    BY PrecisionTypes
  <1>4. d \in Nat /\ d > 0
    BY <1>3, PrecisionTypes, SMT
  <1>5. y \in Nat
    BY <1>1, MarketTypes, ParameterTypes, PrecisionTypes, MulNat
  <1>6. n \in Nat /\ n * d <= y
    BY <1>2, <1>4, <1>5, DivFacts
  <1>7. shareSPA(n, c) = n * d /\ y = l * unitSPA(m)
    BY <1>1, <1>3, <1>6, MarketTypes, ParameterTypes, PrecisionTypes, SMT DEF shareSPA, unitSPA
  <1>. QED  BY <1>6, <1>7 DEF l, n

LEMMA MintedForColla ==
    ASSUME NEW v \in Nat, NEW c \in Nat, c > 0, c <= ChiPrec, NEW f \in Nat, NEW m \in ReadingType
    PROVE  LET n == USDsForColla(v, c, f, m)
           IN  n \in Nat /\ shareColla(n, c) <= lessFee(v, f) * unitColla(m)
  <1>. DEFINE l == lessFee(v, f)
              n == USDsForColla(v, c, f, m)
              y == l * CollaScale * ChiPrec * m.priceColla
              q == y \div CollaPrec
  <1>1. l \in Nat
    BY FeeLeft
  <1>2. n = q \div c
    BY DEF USDsForColla
  <1>. HIDE DEF l, n
  <1>3. y \in Nat /\ y = l * unitColla(m)
    BY <1>1, MarketTypes, ParameterTypes, PrecisionTypes, MulNat, SMT DEF unitColla
  <1>. HIDE DEF y
  <1>4. q \in Nat /\ q * CollaPrec <= y
    BY <1>3, DivFacts, PrecisionTypes
  <1>. HIDE DEF q
  <1>5. n \in Nat /\ n * c <= q
    BY <1>2, <1>4, DivFacts
  <1>6. n * c \in Nat
    BY <1>5, MulNat
  <1>7. (n * c) * CollaPrec <= q * CollaPrec
    BY <1>4, <1>5, <1>6, MulMono, PrecisionTypes
  <1>8. (n * c) * CollaPrec \in Nat /\ q * CollaPrec \in Nat
    BY <1>4, <1>6, MulNat, PrecisionTypes
  <1>9. shareColla(n, c) <= l * unitColla(m)
    BY <1>3, <1>4, <1>7, <1>8 DEF shareColla
  <1>. QED  BY <1>5, <1>9 DEF l, n

(* An amount that was given for its share of the mint covers it.            *)
LEMMA GivenCovers ==
    ASSUME NEW y \in Nat, NEW u \in Nat, NEW z \in Nat, NEW v \in Nat, NEW f \in Nat,
           y <= z * u, z * (FeePrec + f) <= v * FeePrec
    PROVE  y * (FeePrec + f) <= ((v + 3) * u) * FeePrec
  <1>. DEFINE g == FeePrec + f
  <1>1. g \in Nat
    BY PrecisionTypes
  <1>. HIDE DEF g
  <1>2. z * u \in Nat /\ z * g \in Nat /\ v * FeePrec \in Nat
    BY <1>1, MulNat, PrecisionTypes
  <1>3. y * g <= (z * u) * g
    BY <1>1, <1>2, MulMono
  <1>4. (z * g) * u <= (v * FeePrec) * u
    BY <1>2, MulMono DEF g
  <1>5. v * (FeePrec * u) <= (v + 3) * (FeePrec * u)
    BY MulNat, MulMono, PrecisionTypes
  <1>6. /\ (z * u) * g = (z * g) * u
        /\ (v * FeePrec) * u = v * (FeePrec * u)
        /\ (v + 3) * (FeePrec * u) = ((v + 3) * u) * FeePrec
    BY <1>1, PrecisionTypes, SMT
  <1>7. y * g \in Nat /\ (z * u) * g \in Nat /\ v * (FeePrec * u) \in Nat
        /\ ((v + 3) * u) * FeePrec \in Nat
    BY <1>1, <1>2, MulNat, PrecisionTypes
  <1>8. y * g <= ((v + 3) * u) * FeePrec
    BY <1>3, <1>4, <1>5, <1>6, <1>7
  <1>. QED  BY <1>8 DEF g

(* Amounts that cover their shares, but for three units of each, are worth  *)
(* the USDs minted, the fee included.                                       *)
LEMMA SharesBack ==
    ASSUME NEW n \in Nat, NEW c \in Nat, c <= ChiPrec, NEW f \in Nat,
           NEW s \in Nat, NEW k \in Nat, NEW m \in ReadingType,
           shareSPA(n, c) * (FeePrec + f) <= ((s + 3) * unitSPA(m)) * FeePrec,
           shareColla(n, c) * (FeePrec + f) <= ((k + 3) * unitColla(m)) * FeePrec
    PROVE  worthOfUSDs(n + (n * f) \div FeePrec)
              <= worthOfColla(k, m) + worthOfSPA(s, m) + 3 * Dust(m)
  <1>. DEFINE a == m.priceSPA
              b == m.priceColla
              g == FeePrec + f
              h == plusFee(n, f)
              w == ChiPrec * CollaPrec * SPAPrec
              hs == shareSPA(n, c) * g
              hk == shareColla(n, c) * g
              us == ((s + 3) * unitSPA(m)) * FeePrec
              uk == ((k + 3) * unitColla(m)) * FeePrec
              worth == k * CollaScale * b * SPAPrec + s * a * CollaPrec
                         + 3 * (CollaScale * b * SPAPrec + a * CollaPrec)
  <1>1. a \in Nat /\ b \in Nat /\ g \in Nat /\ w \in Nat
    BY MarketTypes, ParameterTypes, PrecisionTypes, MulNat
  <1>2. h \in Nat /\ h * FeePrec <= n * g
    BY FeeAdded
  <1>3. /\ shareSPA(n, c) \in Nat /\ shareColla(n, c) \in Nat
        /\ unitSPA(m) \in Nat /\ unitColla(m) \in Nat
    BY ShareTypes
  <1>4. hs \in Nat /\ hk \in Nat /\ us \in Nat /\ uk \in Nat
    BY <1>1, <1>3, MulNat, PrecisionTypes
  <1>5. worth \in Nat
    BY <1>1, PrecisionTypes, MulNat, SMT
  <1>6. hs * CollaPrec + hk * SPAPrec = (n * g) * w
    <2>. DEFINE e == ChiPrec - c
    <2>1. e \in Nat /\ e + c = ChiPrec
      BY PrecisionTypes
    <2>2. shareSPA(n, c) = n * e * SPAPrec /\ shareColla(n, c) = n * c * CollaPrec
      BY DEF shareSPA, shareColla
    <2>. HIDE DEF e, g
    <2>3. /\ hs * CollaPrec = (n * g) * (e * CollaPrec * SPAPrec)
          /\ hk * SPAPrec = (n * g) * (c * CollaPrec * SPAPrec)
      BY <1>1, <2>1, <2>2, PrecisionTypes, SMT
    <2>4. e * CollaPrec * SPAPrec + c * CollaPrec * SPAPrec = w
      BY <2>1, PrecisionTypes, SMT
    <2>5. (n * g) * (e * CollaPrec * SPAPrec) + (n * g) * (c * CollaPrec * SPAPrec)
             = (n * g) * (e * CollaPrec * SPAPrec + c * CollaPrec * SPAPrec)
      BY <1>1, <2>1, PrecisionTypes, SMT
    <2>. QED  BY <2>3, <2>4, <2>5
  <1>7. us * CollaPrec + uk * SPAPrec = worth * (ChiPrec * FeePrec)
    <2>. HIDE DEF a, b
    <2>1. unitSPA(m) = a * ChiPrec /\ unitColla(m) = CollaScale * (ChiPrec * b)
      BY DEF unitSPA, unitColla, a, b
    <2>2. /\ us * CollaPrec = ((s + 3) * a * CollaPrec) * (ChiPrec * FeePrec)
          /\ uk * SPAPrec = ((k + 3) * CollaScale * b * SPAPrec) * (ChiPrec * FeePrec)
      BY <1>1, <2>1, PrecisionTypes, SMT
    <2>3. (s + 3) * a * CollaPrec + (k + 3) * CollaScale * b * SPAPrec = worth
      BY <1>1, PrecisionTypes, SMT
    <2>4. /\ (s + 3) * a * CollaPrec \in Nat /\ (k + 3) * CollaScale * b * SPAPrec \in Nat
          /\ ChiPrec * FeePrec \in Nat
      BY <1>1, PrecisionTypes, MulNat
    <2>. DEFINE i == (s + 3) * a * CollaPrec
                j == (k + 3) * CollaScale * b * SPAPrec
                d == ChiPrec * FeePrec
    <2>5. i \in Nat /\ j \in Nat /\ d \in Nat /\ i + j = worth
          /\ us * CollaPrec = i * d /\ uk * SPAPrec = j * d
      BY <2>2, <2>3, <2>4
    <2>. HIDE DEF i, j, d, us, uk, worth
    <2>6. i * d + j * d = (i + j) * d
      BY <2>5, SMT
    <2>. QED  BY <2>5, <2>6 DEF d
  <1>8. hs * CollaPrec <= us * CollaPrec /\ hk * SPAPrec <= uk * SPAPrec
    <2>1. hs <= us /\ hk <= uk
      OBVIOUS
    <2>. HIDE DEF hs, hk, us, uk
    <2>. QED  BY <1>4, <2>1, MulMono, PrecisionTypes
  <1>9. (h * FeePrec) * w <= (n * g) * w
    <2>1. h * FeePrec \in Nat /\ n * g \in Nat
      BY <1>1, <1>2, MulNat, PrecisionTypes
    <2>. QED  BY <1>1, <1>2, <2>1, MulMono
  <1>10. (h * FeePrec) * w = (h * (CollaPrec * SPAPrec)) * (ChiPrec * FeePrec)
    <2>. HIDE DEF h
    <2>. QED  BY <1>2, PrecisionTypes, SMT
  <1>11. /\ (h * FeePrec) * w \in Nat /\ (n * g) * w \in Nat
         /\ hs * CollaPrec \in Nat /\ hk * SPAPrec \in Nat
         /\ us * CollaPrec \in Nat /\ uk * SPAPrec \in Nat
         /\ h * (CollaPrec * SPAPrec) \in Nat
         /\ ChiPrec * FeePrec \in Nat /\ ChiPrec * FeePrec > 0
    <2>1. ChiPrec * FeePrec > 0
      BY PrecisionTypes, SMT
    <2>. HIDE DEF h, w, g, hs, hk, us, uk
    <2>. QED  BY <1>1, <1>2, <1>4, <2>1, MulNat, PrecisionTypes
  <1>12. worthOfUSDs(h) = h * (CollaPrec * SPAPrec)
    <2>. HIDE DEF h
    <2>. QED  BY <1>2, PrecisionTypes, SMT DEF worthOfUSDs
  <1>13. worthOfColla(k, m) + worthOfSPA(s, m) + 3 * Dust(m) = worth
    BY <1>1, PrecisionTypes, SMT DEF worthOfColla, worthOfSPA, Dust
  <1>. HIDE DEF h, w, g, hs, hk, us, uk, worth
  <1>14. (h * (CollaPrec * SPAPrec)) * (ChiPrec * FeePrec) <= worth * (ChiPrec * FeePrec)
    BY <1>6, <1>7, <1>8, <1>9, <1>10, <1>11
  <1>15. h * (CollaPrec * SPAPrec) <= worth
    BY <1>5, <1>11, <1>14, CancelLe
  <1>16. n + (n * f) \div FeePrec = h
    BY DEF h, plusFee
  <1>. QED  BY <1>12, <1>13, <1>15, <1>16

(* A quote to mint, in each of the three ways: the USDs it mints are        *)
(* covered, and asked for in USDs they cost no more.                        *)
LEMMA MintViewFacts ==
    ASSUME NEW v \in Nat, NEW type \in ValueTypes, NEW c \in Nat, c <= ChiPrec,
           mintable(type, c), NEW f \in Nat, f <= FeePrec, NEW m \in ReadingType
    PROVE  LET q == mintView(v, type, c, f, m)
               again == mintView(q.USDsAmt, "USDs", c, f, m)
           IN  /\ worthOfUSDs(q.USDsAmt + q.swapFeeAmount)
                     <= worthOfColla(q.collaDeptAmt, m) + worthOfSPA(q.SPABurnAmt, m)
                           + 3 * Dust(m)
               /\ again.SPABurnAmt <= q.SPABurnAmt
               /\ again.collaDeptAmt <= q.collaDeptAmt
               /\ q.USDsAmt \in Nat /\ q.swapFeeAmount \in Nat
               /\ q.SPABurnAmt \in Nat /\ q.collaDeptAmt \in Nat
  <1>. DEFINE q == mintView(v, type, c, f, m)
              n == q.USDsAmt
              s == q.SPABurnAmt
              k == q.collaDeptAmt
              l == lessFee(v, f)
              again == mintView(n, "USDs", c, f, m)
              fullSPA == plusFee(netSPA(n, c, m), f)
              fullColla == plusFee(netColla(n, c, m), f)
  <1>1. l \in Nat /\ l * (FeePrec + f) <= v * FeePrec
    BY FeeLeft
  <1>2. /\ again.SPABurnAmt = fullSPA /\ again.collaDeptAmt = fullColla
        /\ q.swapFeeAmount = (n * f) \div FeePrec
        /\ type # "SPA" => s = fullSPA
        /\ type # "colla" => k = fullColla
        /\ type = "SPA" => s = v
        /\ type = "colla" => k = v
    <2>1. /\ q.swapFeeAmount = (n * f) \div FeePrec
          /\ type # "SPA" => s = SPAAmountCalculator(n, c, f, m)
          /\ type # "colla" => k = collaDeptAmountCalculator(n, c, f, m)
          /\ type = "SPA" => s = v
          /\ type = "colla" => k = v
      <3>1. \E x : q = [USDsAmt |-> x,
                        SPABurnAmt |-> IF type = "SPA" THEN v
                                       ELSE SPAAmountCalculator(x, c, f, m),
                        collaDeptAmt |-> IF type = "colla" THEN v
                                         ELSE collaDeptAmountCalculator(x, c, f, m),
                        swapFeeAmount |-> (x * f) \div FeePrec]
        BY Zenon DEF mintView
      <3>. HIDE DEF q
      <3>. QED  BY <3>1
    <2>2. /\ again.SPABurnAmt = SPAAmountCalculator(n, c, f, m)
          /\ again.collaDeptAmt = collaDeptAmountCalculator(n, c, f, m)
      <3>. HIDE DEF n
      <3>. QED  BY DEF mintView
    <2>. HIDE DEF n, s, k, again, q
    <2>. QED  BY <2>1, <2>2, CalculatorsNet
  <1>3. /\ n \in Nat
        /\ type = "SPA" => shareSPA(n, c) <= l * unitSPA(m)
        /\ type = "colla" => shareColla(n, c) <= l * unitColla(m)
    <2>1. CASE type = "USDs"
      <3>1. n = v
        BY <2>1 DEF mintView
      <3>. QED  BY <2>1, <3>1
    <2>2. CASE type = "SPA"
      <3>1. n = USDsForSPA(v, c, f, m) /\ c < ChiPrec
        BY <2>2 DEF mintView, mintable
      <3>. HIDE DEF n, l
      <3>. QED  BY <2>2, <3>1, MintedForSPA DEF l
    <2>3. CASE type = "colla"
      <3>1. n = USDsForColla(v, c, f, m) /\ c > 0
        BY <2>3 DEF mintView, mintable
      <3>. HIDE DEF n, l
      <3>. QED  BY <2>3, <3>1, MintedForColla DEF l
    <2>. QED  BY <2>1, <2>2, <2>3 DEF ValueTypes
  <1>. HIDE DEF q, n, s, k, l, again
  <1>4. /\ netSPA(n, c, m) \in Nat /\ netColla(n, c, m) \in Nat
        /\ netSPA(n, c, m) * unitSPA(m) <= shareSPA(n, c)
        /\ shareSPA(n, c) <= (netSPA(n, c, m) + 1) * unitSPA(m)
        /\ netColla(n, c, m) * unitColla(m) <= shareColla(n, c)
        /\ shareColla(n, c) <= (netColla(n, c, m) + 1) * unitColla(m)
    BY <1>3, NetFacts
  <1>5. /\ shareSPA(n, c) \in Nat /\ shareColla(n, c) \in Nat
        /\ unitSPA(m) \in Nat /\ unitSPA(m) > 0 /\ unitColla(m) \in Nat /\ unitColla(m) > 0
    BY <1>3, ShareTypes
  <1>6. fullSPA \in Nat /\ fullColla \in Nat
    BY <1>4, FeeAdded
  <1>7. /\ s \in Nat /\ fullSPA <= s
        /\ shareSPA(n, c) * (FeePrec + f) <= ((s + 3) * unitSPA(m)) * FeePrec
    <2>1. CASE type = "SPA"
      <3>1. fullSPA <= v
        BY <1>1, <1>3, <1>4, <1>5, <2>1, ShareNoDearer
      <3>2. shareSPA(n, c) * (FeePrec + f) <= ((v + 3) * unitSPA(m)) * FeePrec
        BY <1>1, <1>3, <1>5, <2>1, GivenCovers
      <3>. QED  BY <1>2, <2>1, <3>1, <3>2
    <2>2. CASE type # "SPA"
      <3>1. shareSPA(n, c) * (FeePrec + f) <= ((fullSPA + 3) * unitSPA(m)) * FeePrec
        BY <1>4, <1>5, ShareWithFee
      <3>. HIDE DEF fullSPA
      <3>. QED  BY <1>2, <1>6, <2>2, <3>1
    <2>. QED  BY <2>1, <2>2
  <1>8. /\ k \in Nat /\ fullColla <= k
        /\ shareColla(n, c) * (FeePrec + f) <= ((k + 3) * unitColla(m)) * FeePrec
    <2>1. CASE type = "colla"
      <3>1. fullColla <= v
        BY <1>1, <1>3, <1>4, <1>5, <2>1, ShareNoDearer
      <3>2. shareColla(n, c) * (FeePrec + f) <= ((v + 3) * unitColla(m)) * FeePrec
        BY <1>1, <1>3, <1>5, <2>1, GivenCovers
      <3>. QED  BY <1>2, <2>1, <3>1, <3>2
    <2>2. CASE type # "colla"
      <3>1. shareColla(n, c) * (FeePrec + f) <= ((fullColla + 3) * unitColla(m)) * FeePrec
        BY <1>4, <1>5, ShareWithFee
      <3>. HIDE DEF fullColla
      <3>. QED  BY <1>2, <1>6, <2>2, <3>1
    <2>. QED  BY <2>1, <2>2
  <1>9. worthOfUSDs(n + (n * f) \div FeePrec)
           <= worthOfColla(k, m) + worthOfSPA(s, m) + 3 * Dust(m)
    BY <1>3, <1>7, <1>8, SharesBack
  <1>. HIDE DEF fullSPA, fullColla
  <1>10. /\ worthOfUSDs(n + q.swapFeeAmount)
               <= worthOfColla(k, m) + worthOfSPA(s, m) + 3 * Dust(m)
         /\ again.SPABurnAmt <= s /\ again.collaDeptAmt <= k
    BY <1>2, <1>7, <1>8, <1>9
  <1>11. n \in Nat /\ q.swapFeeAmount \in Nat /\ s \in Nat /\ k \in Nat
    <2>1. n * f \in Nat
      BY <1>3, MulNat
    <2>. QED  BY <1>2, <1>3, <1>7, <1>8, <2>1, DivFacts, PrecisionTypes
  <1>. QED  BY <1>10, <1>11 DEF q, n, s, k, again

Mints == MintIsBacked /\ ModesAgree

LEMMA MintsCorrect == QuotesSpec => []Mints
  <1>1. QuotesInit => Mints
    BY DEF QuotesInit, Mints, MintIsBacked, ModesAgree, minted, Unasked, ValueTypes
  <1>2. ASSUME Readings, Mints, [QuotesNext]_quotesVars PROVE Mints'
    <2>1. ASSUME NEW v \in QuotedAmounts, NEW type \in ValueTypes, AskMint(type, v)
          PROVE  Mints'
      <3>1. /\ chi' = chiMint(age, readings, parameters)
            /\ fee' = calculateSwapFeeIn(readings, parameters)
            /\ mintable(type, chi')
            /\ quote' = mintView(v, type, chi', fee', readings)
            /\ readings' = readings
        BY <2>1 DEF AskMint
      <3>2. chi' \in Nat /\ chi' <= ChiPrec
        BY <1>2, <3>1, TargetFacts DEF Readings, chiMint
      <3>3. fee' \in Nat /\ fee' <= FeePrec
        BY <1>2, <3>1, FeeInFacts, FeeIsPart DEF Readings
      <3>4. v \in Nat
        BY QuotesAssumption
      <3>. DEFINE again == mintView(quote'.USDsAmt, "USDs", chi', fee', readings)
      <3>5. /\ worthOfUSDs(quote'.USDsAmt + quote'.swapFeeAmount)
                 <= worthOfColla(quote'.collaDeptAmt, readings)
                       + worthOfSPA(quote'.SPABurnAmt, readings) + 3 * Dust(readings)
            /\ again.SPABurnAmt <= quote'.SPABurnAmt
            /\ again.collaDeptAmt <= quote'.collaDeptAmt
        BY <1>2, <3>1, <3>2, <3>3, <3>4, MintViewFacts DEF Readings
      <3>6. MintIsBacked'
        BY <3>1, <3>5 DEF MintIsBacked, worthOfColla, worthOfSPA, worthOfUSDs, Dust
      <3>7. ModesAgree'
        <4>1. mintView(quote.USDsAmt, "USDs", chi, fee, readings)' = again
          BY <3>1 DEF mintView, SPAAmountCalculator, collaDeptAmountCalculator
        <4>. QED  BY <3>5, <4>1 DEF ModesAgree
      <3>. QED  BY <3>6, <3>7 DEF Mints
    <2>2. ASSUME NEW v \in QuotedAmounts, AskRedeem(v)
          PROVE  Mints'
      BY <2>2 DEF AskRedeem, Mints, MintIsBacked, ModesAgree, minted, ValueTypes
    <2>3. CASE UNCHANGED quotesVars
      BY <1>2, <2>3 DEF Mints, MintIsBacked, ModesAgree, minted, quotesVars, worthOfColla,
                        worthOfSPA, worthOfUSDs, Dust, mintView, SPAAmountCalculator,
                        collaDeptAmountCalculator
    <2>. QED  BY <1>2, <2>1, <2>2, <2>3 DEF QuotesNext
  <1>. QED  BY <1>1, <1>2, ReadingsKept, PTL DEF QuotesSpec

(* Whichever way a mint is asked for, the SPA burnt and the collateral      *)
(* taken are worth the USDs minted and the fee, but for three units of each *)
(* token (mintView and the calculators).                                    *)
THEOREM MintsBacked == QuotesSpec => []MintIsBacked
  BY MintsCorrect, PTL DEF Mints

(* What SPA or collateral buys is quoted no higher when it is asked for in  *)
(* USDs (mintBySpecifyingUSDsAmt against the other two).                    *)
THEOREM ModesConsistent == QuotesSpec => []ModesAgree
  BY MintsCorrect, PTL DEF Mints
=============================================================================
