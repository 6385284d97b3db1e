--------------------------- MODULE VaultCoreTools ---------------------------
(***************************************************************************)
(* contracts/vault/VaultCoreTools.sol: what a mint costs and what a        *)
(* redemption pays, from the oracle's readings m and the vault's           *)
(* parameters p.  Every division rounds down.                              *)
(*                                                                         *)
(*   m = [priceUSDs, averageUSDs, inOut, priceSPA, priceColla]             *)
(*   p = [chiInit, chi_beta, chi_gamma, swapFee_p, swapFee_theta,          *)
(*        swapFee_a, feeIn, feeOut]                                        *)
(*                                                                         *)
(* feeIn and feeOut are swapfeeInAllowed and swapfeeOutAllowed.            *)
(***************************************************************************)
EXTENDS Naturals

CONSTANTS
    ChiPrec, ChiAlpha,              \* chi_prec, chi_alpha
    BetaPrec, GammaPrec,            \* chi_beta_prec, chi_gamma_prec
    FeePrec, PPrec, ThetaPrec, APrec,
    InOutPrec,                      \* USDsInOutRatio_prec
    USDsPrec, SPAPrec, CollaPrec,   \* the precisions of the three prices
    CollaScale,                     \* 10^(18 - decimals) of the collateral
    Power(_)                        \* BancorFormula: swapFee_A ^ (e / InOutPrec)

ASSUME ToolsAssumption ==
    /\ {ChiPrec, BetaPrec, GammaPrec, FeePrec, PPrec, ThetaPrec, APrec,
        InOutPrec, USDsPrec, SPAPrec, CollaPrec, CollaScale} \subseteq Nat \ {0}
    /\ ChiAlpha \in Nat
    /\ \A e \in 0 .. 33 : Power(e) \in Nat \ {0}

(* Readings and parameters a quote is computed with.                        *)
ReadingType ==
    [priceUSDs : Nat, averageUSDs : Nat, inOut : Nat,
     priceSPA : Nat \ {0}, priceColla : Nat \ {0}]
ParameterType ==
    [chiInit : Nat, chi_beta : Nat, chi_gamma : Nat, swapFee_p : Nat,
     swapFee_theta : Nat, swapFee_a : Nat, feeIn : BOOLEAN, feeOut : BOOLEAN]

least(a, b) == IF a <= b THEN a ELSE b
(* SafeMath's trySub: nothing below zero.                                   *)
trySub(a, b) == IF b <= a THEN a - b ELSE 0
apart(a, b) == IF a >= b THEN a - b ELSE b - a

multiplier(original, price, precision) == (original * price) \div precision

-----------------------------------------------------------------------------
(* The collateral's share chi of what a USDs is worth, in ChiPrec.          *)

chiTarget(blocks, m, p) ==
    LET d == apart(m.priceUSDs, USDsPrec)
        adjustment == (((p.chi_beta * ChiPrec * d * d) \div BetaPrec)
                          \div USDsPrec) \div USDsPrec
        afterB == IF m.priceUSDs >= USDsPrec THEN p.chiInit + adjustment
                  ELSE trySub(p.chiInit, adjustment)
    IN  least(trySub(afterB, blocks * ChiAlpha), ChiPrec)

chiMint(blocks, m, p) == chiTarget(blocks, m, p)

(* When the vault holds less than chi the share of a redemption sinks       *)
(* towards the ratio it holds; a chi_gamma beyond one may take more than    *)
(* there is, and the subtraction reverts.                                   *)
redeemable(blocks, m, p, ratio) ==
    LET chi == chiTarget(blocks, m, p)
    IN  chi > ratio => (p.chi_gamma * (chi - ratio)) \div GammaPrec <= chi

chiRedeemRaised(blocks, m, p, ratio) ==    \* mutated: adds the difference
    LET chi == chiTarget(blocks, m, p)
    IN  IF chi > ratio THEN chi + (p.chi_gamma * (chi - ratio)) \div GammaPrec
        ELSE chi
chiRedeem(blocks, m, p, ratio) ==
    LET chi == chiTarget(blocks, m, p)
    IN  IF chi > ratio THEN chi - (p.chi_gamma * (chi - ratio)) \div GammaPrec
        ELSE chi

-----------------------------------------------------------------------------
(* Fees, in FeePrec: a tenth of a percent, or more when USDs is cheap (in)  *)
(* or leaves faster than it comes (out), up to one and a half.              *)

FeeFloor == FeePrec \div 1000
FeeCap == (15 * FeePrec) \div 1000

calculateSwapFeeIn(m, p) ==
    LET small == (p.swapFee_p * USDsPrec) \div PPrec
        gap == ((small - m.averageUSDs) * p.swapFee_theta) \div ThetaPrec
        extra == (((gap * gap * FeePrec) \div USDsPrec) \div USDsPrec) \div 100
    IN  IF ~p.feeIn THEN 0
        ELSE IF small < m.averageUSDs THEN FeeFloor
        ELSE least(FeeFloor + extra, FeeCap)

(* The limit on the exponent is written 2^32, which is an exclusive or.     *)
ExponentLimit == 34

calculateSwapFeeOut(m, p) ==
    LET threshold == (p.swapFee_a * InOutPrec) \div APrec
        exponent == m.inOut - threshold
    IN  IF ~p.feeOut THEN 0
        ELSE IF m.inOut <= threshold THEN FeeFloor
        ELSE IF exponent >= ExponentLimit THEN FeeCap
        ELSE least((Power(exponent) * FeePrec) \div 100, FeeCap)

-----------------------------------------------------------------------------
(* Redeeming.                                                              *)

afterFeeKept(amount, fee) == amount    \* mutated: the fee is burnt from USDs only
afterFee(amount, fee) == amount - multiplier(amount, fee, FeePrec)

redeemView(n, chi, fee, m) ==
    LET spa == multiplier(multiplier(n, ChiPrec - chi, ChiPrec), SPAPrec, m.priceSPA)
        colla == multiplier(multiplier(n, chi, ChiPrec), CollaPrec, m.priceColla)
                    \div CollaScale
        feeUSDs == multiplier(n, fee, FeePrec)
    IN  [SPAMintAmt |-> afterFee(spa, fee), collaUnlockAmt |-> afterFee(colla, fee),
         USDsBurntAmt |-> n - feeUSDs, swapFeeAmount |-> feeUSDs]

-----------------------------------------------------------------------------
(* Minting, of n USDs or for an amount v of SPA or of the collateral.       *)

plusFeeWaived(amount, fee) == amount    \* mutated: forgets the fee
plusFee(amount, fee) == amount + (amount * fee) \div FeePrec
lessFee(amount, fee) == (amount * FeePrec) \div (FeePrec + fee)

collaDeptUnscaled(n, chi, fee, m) ==    \* mutated: takes tokens for 18 decimals
    plusFee((n * chi * CollaPrec) \div (ChiPrec * m.priceColla), fee)
collaDeptAmountCalculator(n, chi, fee, m) ==
    plusFee(((n * chi * CollaPrec) \div (ChiPrec * m.priceColla)) \div CollaScale, fee)

SPAAmountUnpriced(n, chi, fee, m) ==    \* mutated: forgets the price
    plusFee((n * (ChiPrec - chi)) \div ChiPrec, fee)
SPAAmountCalculator(n, chi, fee, m) ==
    plusFee((n * (ChiPrec - chi) * SPAPrec) \div (m.priceSPA * ChiPrec), fee)

USDsForColla(v, chi, fee, m) ==
    ((lessFee(v, fee) * CollaScale * ChiPrec * m.priceColla) \div CollaPrec) \div chi
USDsForSPA(v, chi, fee, m) ==
    (lessFee(v, fee) * ChiPrec * m.priceSPA) \div (SPAPrec * (ChiPrec - chi))

ValueTypes == {"USDs", "SPA", "colla"}    \* 0, 1, 2

(* Without SPA in the mix nothing can be minted for SPA, and without        *)
(* collateral nothing for collateral: the division reverts.                 *)
mintable(type, chi) ==
    (type = "SPA" => chi < ChiPrec) /\ (type = "colla" => chi > 0)

mintView(v, type, chi, fee, m) ==
    LET n == CASE type = "USDs" -> v
               [] type = "SPA" -> USDsForSPA(v, chi, fee, m)
               [] type = "colla" -> USDsForColla(v, chi, fee, m)
    IN  [USDsAmt |-> n,
         SPABurnAmt |-> IF type = "SPA" THEN v ELSE SPAAmountCalculator(n, chi, fee, m),
         collaDeptAmt |-> IF type = "colla" THEN v
                          ELSE collaDeptAmountCalculator(n, chi, fee, m),
         swapFeeAmount |-> (n * fee) \div FeePrec]

-----------------------------------------------------------------------------
(* What amounts are worth, times CollaPrec * SPAPrec: a USDs counts one.    *)

worthOfUSDs(n) == n * CollaPrec * SPAPrec
worthOfColla(n, m) == n * CollaScale * m.priceColla * SPAPrec
worthOfSPA(n, m) == n * m.priceSPA * CollaPrec
(* One unit of collateral and one of SPA: what rounding may give away.      *)
Dust(m) == worthOfColla(1, m) + worthOfSPA(1, m)
=============================================================================
