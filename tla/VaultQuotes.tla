---------------------------- MODULE VaultQuotes ----------------------------
(***************************************************************************)
(* The quotes of contracts/vault/VaultCoreTools.sol, asked for in every    *)
(* market, under every setting of the parameters, at every age of the      *)
(* system.  A quote is what VaultCore acts on when it mints and redeems.   *)
(***************************************************************************)
EXTENDS VaultCoreTools

CONSTANTS QuotedMarkets, QuotedSettings,    \* oracle readings and parameters
          Ages, Ratios,                     \* blocks since the start, collateralRatio
          QuotedAmounts                     \* amounts asked for

ASSUME QuotesAssumption ==
    /\ Ages \subseteq Nat /\ Ratios \subseteq Nat /\ QuotedAmounts \subseteq Nat
    /\ QuotedMarkets \subseteq ReadingType /\ QuotedSettings \subseteq ParameterType

VARIABLES
    readings, parameters,  \* what the oracle and the vault say
    age, backing,          \* block.number - startBlockHeight, VaultCore.collateralRatio()
    asked,                 \* what the quote is for
    chi, fee,              \* the share and the fee it uses
    quote

quotesVars == <<readings, parameters, age, backing, asked, chi, fee, quote>>

Nothing == [SPABurnAmt |-> 0, collaDeptAmt |-> 0, USDsAmt |-> 0, swapFeeAmount |-> 0]
Unasked == [type |-> "none", amount |-> 0]

QuotesInit ==
    /\ readings \in QuotedMarkets /\ parameters \in QuotedSettings
    /\ age \in Ages /\ backing \in Ratios
    /\ asked = Unasked /\ quote = Nothing
    /\ chi = 0 /\ fee = 0

AskMint(type, v) ==
    /\ asked = Unasked
    /\ asked' = [type |-> type, amount |-> v]
    /\ chi' = chiMint(age, readings, parameters)
    /\ fee' = calculateSwapFeeIn(readings, parameters)
    /\ mintable(type, chi')
    /\ quote' = mintView(v, type, chi', fee', readings)
    /\ UNCHANGED <<readings, parameters, age, backing>>

AskRedeem(n) ==
    /\ asked = Unasked
    /\ asked' = [type |-> "redeem", amount |-> n]
    /\ redeemable(age, readings, parameters, backing)
    /\ chi' = chiRedeem(age, readings, parameters, backing)
    /\ fee' = calculateSwapFeeOut(readings, parameters)
    /\ quote' = redeemView(n, chi', fee', readings)
    /\ UNCHANGED <<readings, parameters, age, backing>>

QuotesNext ==
    \E v \in QuotedAmounts :
        \/ \E type \in ValueTypes : AskMint(type, v)
        \/ AskRedeem(v)

QuotesSpec == QuotesInit /\ [][QuotesNext]_quotesVars

-----------------------------------------------------------------------------
minted == asked.type \in ValueTypes
redeemed == asked.type = "redeem"

(* The share of the collateral never exceeds the whole, and a redemption's  *)
(* share lies between the target and what the vault holds: neither more     *)
(* collateral than the target leaves, nor less than the vault can give, as  *)
(* long as chi_gamma is at most one (chiTarget and chiRedeem).              *)
ShareIsAShare ==
    /\ chi <= ChiPrec
    /\ (redeemed /\ parameters.chi_gamma <= GammaPrec) =>
           LET target == chiTarget(age, readings, parameters)
           IN  least(target, backing) <= chi /\ chi <= target

(* A fee that is on is at least a tenth of a percent and at most one and a  *)
(* half, however far the price or the flows are off (calculateSwapFeeIn,    *)
(* calculateSwapFeeOut).                                                    *)
FeesInBand == fee = 0 \/ (FeeFloor <= fee /\ fee <= FeeCap)

(* What a quote is computed with is in range in every market, under every   *)
(* setting and at every age.                                                *)
RatesInRange == ShareIsAShare /\ FeesInBand

(* Minting creates no value: the SPA burnt and the collateral taken are     *)
(* worth the USDs minted to the user and to the fee vault together, up to   *)
(* the roundings, in each of the three ways to mint (mintView).             *)
MintIsBacked ==
    minted => worthOfUSDs(quote.USDsAmt + quote.swapFeeAmount)
                 <= worthOfColla(quote.collaDeptAmt, readings)
                        + worthOfSPA(quote.SPABurnAmt, readings) + 3 * Dust(readings)

(* Redeeming pays no more than the USDs it burns are worth, up to the       *)
(* roundings, and never more than the USDs handed in are (redeemView).      *)
RedeemIsBacked ==
    redeemed =>
        LET paid == worthOfColla(quote.collaUnlockAmt, readings)
                        + worthOfSPA(quote.SPAMintAmt, readings)
        IN  /\ paid <= worthOfUSDs(asked.amount)
            /\ paid <= worthOfUSDs(quote.USDsBurntAmt) + Dust(readings)

(* What an amount of SPA or of collateral buys is quoted no higher when it  *)
(* is asked for in USDs: the three entry points do not undercut each other  *)
(* (USDsAmountCalculator against the other two calculators).                *)
ModesAgree ==
    minted =>
        LET again == mintView(quote.USDsAmt, "USDs", chi, fee, readings)
        IN  /\ again.SPABurnAmt <= quote.SPABurnAmt
            /\ again.collaDeptAmt <= quote.collaDeptAmt
=============================================================================
