-------------------------- MODULE VaultCoreProofs --------------------------
(***************************************************************************)
(* Theorems about VaultCore, for any users, collaterals, strategies,       *)
(* markets and settings.                                                   *)
(*                                                                         *)
(* The supply falls by what a redemption burns and a rebase divides by     *)
(* what the wallets hold, so the types are not inductive on their own:     *)
(* VInv adds that the balances never sum up to more than totalSupply.      *)
(* What a harvest leaves rests on Accounted: all the collateral that users *)
(* brought is in somebody's hands or some strategy's principal.            *)
(***************************************************************************)
EXTENDS VaultCore, VaultQuotesProofs, SumLemmas

VInv == TypeOK /\ SumFunctionOnSet(usds, Holders) <= totalSupply

LEMMA HolderFacts ==
    /\ IsFiniteSet(Holders) /\ IsFiniteSet(Rebasing)
    /\ Rebasing \subseteq Holders /\ FeeVault \in Rebasing
    /\ Rebasing = (Holders \ {Vault}) \ {Pool}
    /\ Vault \in Holders /\ Pool \in Holders \ {Vault}
    /\ Users \subseteq Rebasing /\ FeeVault \notin Users
    /\ Vault \notin Users /\ Pool \notin Users
  <1>1. IsFiniteSet({FeeVault, Vault, Pool}) /\ IsFiniteSet({FeeVault})
    <2>1. {FeeVault, Vault, Pool} = ({FeeVault} \cup {Vault}) \cup {Pool}
      OBVIOUS
    <2>2. IsFiniteSet({FeeVault}) /\ IsFiniteSet({Vault}) /\ IsFiniteSet({Pool})
      BY FS_Singleton
    <2>3. IsFiniteSet({FeeVault} \cup {Vault})
      BY <2>2, FS_Union
    <2>. QED  BY <2>1, <2>2, <2>3, FS_Union
  <1>2. IsFiniteSet(Holders) /\ IsFiniteSet(Rebasing)
    BY <1>1, FS_Union, VaultAssumption DEF Holders, Rebasing
  <1>. QED  BY <1>2, VaultAssumption DEF Holders, Rebasing

(* The oracle's answers for one collateral.                                 *)
LEMMA ReadingTyped ==
    ASSUME NEW m \in Markets, NEW c \in Colls
    PROVE  /\ [m EXCEPT !.priceColla = m.priceColla[c]] \in ReadingType
           /\ m.priceColla[c] \in Nat /\ m.priceUSDs \in Nat
  BY VaultAssumption DEF ReadingType

LEMMA ReadingNow ==
    ASSUME TypeOK, NEW c \in Colls PROVE reading(c) \in ReadingType
  BY ReadingTyped DEF TypeOK, reading

LEMMA SettingTyped ==
    ASSUME NEW p \in Settings PROVE p \in ParameterType
  BY VaultAssumption

(* The quotes read the oracle's answers that no collateral has a part in    *)
(* from market itself.                                                      *)
LEMMA QuoteReads ==
    ASSUME TypeOK, NEW c \in Colls, NEW x \in Nat
    PROVE  /\ chiTarget(blocks, market, params) = chiTarget(blocks, reading(c), params)
           /\ redeemable(blocks, market, params, x)
                 <=> redeemable(blocks, reading(c), params, x)
           /\ chiRedeem(blocks, market, params, x) = chiRedeem(blocks, reading(c), params, x)
           /\ calculateSwapFeeIn(market, params) = calculateSwapFeeIn(reading(c), params)
           /\ calculateSwapFeeOut(market, params) = calculateSwapFeeOut(reading(c), params)
  <1>1. /\ reading(c).priceUSDs = market.priceUSDs
        /\ reading(c).averageUSDs = market.averageUSDs
        /\ reading(c).inOut = market.inOut
    BY VaultAssumption DEF reading, TypeOK
  <1>2. chiTarget(blocks, market, params) = chiTarget(blocks, reading(c), params)
    BY <1>1 DEF chiTarget
  <1>. QED  BY <1>1, <1>2 DEF redeemable, chiRedeem, calculateSwapFeeIn, calculateSwapFeeOut

-----------------------------------------------------------------------------
(* Values and quotes.                                                       *)

LEMMA ValueTyped ==
    ASSUME TypeOK, NEW n \in Nat, NEW c \in Colls PROVE valueOf(n, c) \in Nat
  <1>1. market.priceColla[c] \in Nat
    BY ReadingTyped DEF TypeOK
  <1>2. n * market.priceColla[c] \in Nat
    BY <1>1, MulNat
  <1>3. (n * market.priceColla[c]) \div CollaPrec \in Nat
    BY <1>2, DivFacts, PrecisionTypes
  <1>. QED  BY <1>3, MulNat, PrecisionTypes DEF valueOf

LEMMA RatioTyped ==
    ASSUME TypeOK, USDsValue > 0 PROVE collateralRatio \in Nat
  <1>1. USDsValue \in Nat
    <2>1. totalSupply * market.priceUSDs \in Nat
      BY ReadingTyped, VaultAssumption, MulNat DEF TypeOK
    <2>. QED  BY <2>1, DivFacts, PrecisionTypes DEF USDsValue
  <1>. DEFINE value == [c \in Colls |-> valueInVault(c) + valueInStrategy(c)]
  <1>2. \A c \in Colls : value[c] \in Nat
    <2>. SUFFICES ASSUME NEW c \in Colls  PROVE value[c] \in Nat
      OBVIOUS
    <2>1. valueInVault(c) \in Nat
      BY ValueTyped DEF TypeOK, valueInVault
    <2>2. valueInStrategy(c) \in Nat
      <3>1. CASE employed(c)
        <4>1. strategyOf(c) \in Strats
          BY <3>1 DEF TypeOK, employed, strategyOf, Info
        <4>2. funds[strategyOf(c)] \in Nat
          BY <4>1 DEF TypeOK
        <4>. QED  BY <3>1, <4>2, ValueTyped DEF valueInStrategy
      <3>2. CASE ~employed(c)
        BY <3>2 DEF valueInStrategy
      <3>. QED  BY <3>1, <3>2
    <2>. QED  BY <2>1, <2>2
  <1>. HIDE DEF value
  <1>3. added \subseteq Colls /\ IsFiniteSet(added)
    BY FS_Subset, VaultAssumption DEF added
  <1>4. SumFunctionOnSet(value, added) \in Nat
    BY <1>2, <1>3, SumNat
  <1>5. totalValueLocked \in Nat
    BY <1>4 DEF totalValueLocked, value
  <1>6. totalValueLocked * ChiPrec \in Nat
    BY <1>5, MulNat, PrecisionTypes
  <1>. QED  BY <1>1, <1>6, DivFacts DEF collateralRatio

LEMMA InputTypes ==
    ASSUME TypeOK, NEW c \in Colls
    PROVE  /\ reading(c) \in ReadingType /\ params \in ParameterType /\ blocks \in Nat
           /\ Amounts \subseteq Nat
  <1>1. reading(c) \in ReadingType
    BY ReadingNow
  <1>2. params \in Settings /\ blocks \in 0 .. MaxAge
    BY DEF TypeOK
  <1>3. params \in ParameterType
    BY <1>2, SettingTyped
  <1>4. Amounts \subseteq Nat /\ MaxAge \in Nat
    BY VaultAssumption
  <1>. QED  BY <1>1, <1>2, <1>3, <1>4

(* What a mint takes and gives.                                             *)
LEMMA MintQuoteFacts ==
    ASSUME TypeOK, NEW c \in Colls, NEW type \in ValueTypes, NEW v \in Amounts,
           mintable(type, chiNow)
    PROVE  LET q == MintQuote(c, type, v)
           IN  /\ q.USDsAmt \in Nat /\ q.swapFeeAmount \in Nat
               /\ q.SPABurnAmt \in Nat /\ q.collaDeptAmt \in Nat
               /\ worthOfUSDs(q.USDsAmt + q.swapFeeAmount)
                     <= worthOfColla(q.collaDeptAmt, reading(c))
                          + worthOfSPA(q.SPABurnAmt, reading(c)) + 3 * Dust(reading(c))
  <1>1. /\ reading(c) \in ReadingType /\ params \in ParameterType /\ blocks \in Nat
        /\ v \in Nat
    BY InputTypes
  <1>2. chiNow = chiTarget(blocks, reading(c), params)
    BY QuoteReads DEF chiNow, chiMint
  <1>3. chiNow \in Nat /\ chiNow <= ChiPrec
    BY <1>1, <1>2, TargetFacts
  <1>. DEFINE f == calculateSwapFeeIn(market, params)
  <1>4. f = calculateSwapFeeIn(reading(c), params)
    BY QuoteReads
  <1>. HIDE DEF f
  <1>5. f \in Nat /\ f <= FeePrec
    BY <1>1, <1>4, FeeInFacts, FeeIsPart
  <1>6. MintQuote(c, type, v) = mintView(v, type, chiNow, f, reading(c))
    BY DEF MintQuote, f
  <1>. QED  BY <1>1, <1>3, <1>5, <1>6, MintViewFacts

(* What a redemption burns and pays.                                        *)
LEMMA RedeemQuoteFacts ==
    ASSUME TypeOK, NEW c \in Colls, NEW n \in Amounts, USDsValue > 0,
           redeemable(blocks, market, params, collateralRatio)
    PROVE  LET q == RedeemQuote(c, n)
           IN  /\ q.SPAMintAmt \in Nat /\ q.collaUnlockAmt \in Nat
               /\ q.USDsBurntAmt \in Nat /\ q.swapFeeAmount \in Nat
               /\ q.USDsBurntAmt + q.swapFeeAmount = n
               /\ worthOfColla(q.collaUnlockAmt, reading(c))
                     + worthOfSPA(q.SPAMintAmt, reading(c)) <= worthOfUSDs(n)
               /\ worthOfColla(q.collaUnlockAmt, reading(c))
                     + worthOfSPA(q.SPAMintAmt, reading(c))
                     <= worthOfUSDs(q.USDsBurntAmt) + Dust(reading(c))
  <1>1. /\ reading(c) \in ReadingType /\ params \in ParameterType /\ blocks \in Nat
        /\ n \in Nat /\ collateralRatio \in Nat
    BY InputTypes, RatioTyped
  <1>. DEFINE f == calculateSwapFeeOut(market, params)
              s == chiRedeem(blocks, market, params, collateralRatio)
  <1>2. /\ redeemable(blocks, reading(c), params, collateralRatio)
        /\ s = chiRedeem(blocks, reading(c), params, collateralRatio)
        /\ f = calculateSwapFeeOut(reading(c), params)
    BY <1>1, QuoteReads
  <1>. HIDE DEF f, s
  <1>3. s \in Nat /\ s <= chiTarget(blocks, reading(c), params)
    BY <1>1, <1>2, RedeemShareFacts
  <1>4. s <= ChiPrec
    BY <1>1, <1>3, TargetFacts, PrecisionTypes
  <1>5. f \in Nat /\ f <= FeePrec
    BY <1>1, <1>2, FeeOutFacts, FeeIsPart
  <1>6. RedeemQuote(c, n) = redeemView(n, s, f, reading(c))
    BY DEF RedeemQuote, f, s
  <1>. QED  BY <1>1, <1>3, <1>4, <1>5, <1>6, RedeemViewFacts, RedeemViewTypes

-----------------------------------------------------------------------------
(* The invariant.                                                           *)

LEMMA BoundTypes ==
    /\ InterestThreshold \in Nat /\ RewardThreshold \in Nat /\ Slip \in Nat
    /\ PurseSPA \in Nat /\ PurseColla \in Nat
    /\ MaxCalls \in Nat /\ MaxAge \in Nat /\ MaxRewards \in Nat
  BY VaultAssumption

Ledger == [Colls -> [Users \cup {Vault} -> Nat]]

LEMMA Written ==
    ASSUME NEW f \in Ledger, NEW c \in Colls, NEW x \in Users \cup {Vault}, NEW w \in Nat
    PROVE  LET g == [f EXCEPT ![c][x] = w]
           IN  /\ g \in Ledger
               /\ g[c][x] = w
               /\ \A h \in Users \cup {Vault} : h # x => g[c][h] = f[c][h]
               /\ \A d \in Colls \ {c} : g[d] = f[d]
  BY DEF Ledger

(* Collateral credited, debited, and moved.                                 *)
LEMMA Credited ==
    ASSUME NEW f \in Ledger, NEW c \in Colls, NEW x \in Users \cup {Vault}, NEW k \in Nat
    PROVE  LET g == [f EXCEPT ![c][x] = @ + k]
           IN  /\ g \in Ledger
               /\ g[c][x] = f[c][x] + k
               /\ \A h \in Users \cup {Vault} : h # x => g[c][h] = f[c][h]
               /\ \A d \in Colls \ {c} : g[d] = f[d]
  BY DEF Ledger

LEMMA Debited ==
    ASSUME NEW f \in Ledger, NEW c \in Colls, NEW x \in Users \cup {Vault}, NEW k \in Nat,
           k <= f[c][x]
    PROVE  LET g == [f EXCEPT ![c][x] = @ - k]
           IN  /\ g \in Ledger
               /\ g[c][x] = f[c][x] - k
               /\ \A h \in Users \cup {Vault} : h # x => g[c][h] = f[c][h]
               /\ \A d \in Colls \ {c} : g[d] = f[d]
  <1>1. f[c][x] - k \in Nat
    BY DEF Ledger
  <1>. QED  BY <1>1, Written

LEMMA MovedColla ==
    ASSUME NEW f \in Ledger, NEW c \in Colls, NEW x \in Users \cup {Vault},
           NEW y \in Users \cup {Vault}, x # y, NEW k \in Nat, k <= f[c][x]
    PROVE  LET g == [f EXCEPT ![c][x] = @ - k, ![c][y] = @ + k]
           IN  /\ g \in Ledger
               /\ g[c][x] = f[c][x] - k
               /\ g[c][y] = f[c][y] + k
               /\ \A h \in Users \cup {Vault} : h # x /\ h # y => g[c][h] = f[c][h]
               /\ \A d \in Colls \ {c} : g[d] = f[d]
  <1>1. PICK e \in Ledger :
          /\ e = [f EXCEPT ![c][x] = @ - k]
          /\ e[c][x] = f[c][x] - k
          /\ \A h \in Users \cup {Vault} : h # x => e[c][h] = f[c][h]
          /\ \A d \in Colls \ {c} : e[d] = f[d]
    <2>. DEFINE e == [f EXCEPT ![c][x] = @ - k]
    <2>1. /\ e \in Ledger /\ e[c][x] = f[c][x] - k
          /\ \A h \in Users \cup {Vault} : h # x => e[c][h] = f[c][h]
          /\ \A d \in Colls \ {c} : e[d] = f[d]
      BY Debited
    <2>2. e = [f EXCEPT ![c][x] = @ - k]
      OBVIOUS
    <2>. HIDE DEF e
    <2>. QED  BY <2>1, <2>2
  <1>2. PICK g \in Ledger :
          /\ g = [e EXCEPT ![c][y] = @ + k]
          /\ g[c][y] = e[c][y] + k
          /\ \A h \in Users \cup {Vault} : h # y => g[c][h] = e[c][h]
          /\ \A d \in Colls \ {c} : g[d] = e[d]
    <2>. DEFINE g == [e EXCEPT ![c][y] = @ + k]
    <2>1. /\ g \in Ledger /\ g[c][y] = e[c][y] + k
          /\ \A h \in Users \cup {Vault} : h # y => g[c][h] = e[c][h]
          /\ \A d \in Colls \ {c} : g[d] = e[d]
      BY Credited
    <2>2. g = [e EXCEPT ![c][y] = @ + k]
      OBVIOUS
    <2>. HIDE DEF g
    <2>. QED  BY <2>1, <2>2
  <1>3. g = [f EXCEPT ![c][x] = @ - k, ![c][y] = @ + k]
    BY <1>1, <1>2
  <1>4. /\ g[c][x] = f[c][x] - k
        /\ g[c][y] = f[c][y] + k
        /\ \A h \in Users \cup {Vault} : h # x /\ h # y => g[c][h] = f[c][h]
        /\ \A d \in Colls \ {c} : g[d] = f[d]
    BY <1>1, <1>2
  <1>. QED  BY <1>2, <1>3, <1>4

LEMMA InitInv == Init => VInv
  <1>. SUFFICES ASSUME Init  PROVE VInv
    OBVIOUS
  <1>1. usds = [h \in Holders |-> 0] /\ totalSupply = 0
    BY DEF Init
  <1>2. SumFunctionOnSet(usds, Holders) = 0
    BY <1>1, HolderFacts, SumZero
  <1>3. Vault \notin Users /\ PurseSPA \in Nat /\ PurseColla \in Nat
    BY HolderFacts, BoundTypes
  <1>4. colla \in [Colls -> [Users \cup {Vault} -> Nat]] /\ spa \in [Users -> Nat]
    BY <1>3 DEF Init
  <1>5. NotAdded \in Info
    BY DEF NotAdded, Info
  <1>. HIDE DEF NotAdded, Info
  <1>6. /\ funds \in [Strats -> Nat] /\ allocatedAmt \in [Strats -> Nat]
        /\ claimable \in [Strats -> Nat]
        /\ collateralsInfo \in [Colls -> Info]
        /\ strategiesInfo \in [Strats -> {"unknown", "added", "buyback"}]
    BY <1>5 DEF Init
  <1>7. /\ SPAminted \in Nat /\ SPAburnt \in Nat
        /\ {mintRedeemAllowed, allocationAllowed, rebaseAllowed} \subseteq BOOLEAN
        /\ market \in Markets /\ params \in Settings
        /\ blocks \in 0 .. MaxAge /\ calls \in 0 .. MaxCalls
    <2>1. SPAminted = 0 /\ SPAburnt = 0 /\ blocks = 0 /\ calls = 0
      BY DEF Init
    <2>2. /\ mintRedeemAllowed \in BOOLEAN /\ allocationAllowed \in BOOLEAN
          /\ rebaseAllowed \in BOOLEAN /\ market \in Markets /\ params \in Settings
      BY DEF Init
    <2>. QED  BY <2>1, <2>2, BoundTypes
  <1>8. usds \in [Holders -> Nat] /\ totalSupply \in Nat
    BY <1>1
  <1>9. TypeOK
    BY <1>4, <1>6, <1>7, <1>8 DEF TypeOK
  <1>. QED  BY <1>1, <1>2, <1>9 DEF VInv

LEMMA QuietStep ==
    ASSUME VInv, TypeOK', usds' = usds, totalSupply' = totalSupply PROVE VInv'
  BY DEF VInv

LEMMA MintInv ==
    ASSUME VInv, NEW u \in Users, NEW c \in Colls, NEW type \in ValueTypes,
           NEW v \in Amounts, Mint(u, c, type, v)
    PROVE  VInv'
  <1>. DEFINE q == MintQuote(c, type, v)
              a == q.USDsAmt
              b == q.swapFeeAmount
              s == q.SPABurnAmt
              k == q.collaDeptAmt
  <1>1. /\ a \in Nat /\ b \in Nat /\ s \in Nat /\ k \in Nat
    BY MintQuoteFacts DEF VInv, Mint
  <1>2. /\ calls < MaxCalls /\ s <= spa[u] /\ k <= colla[c][u]
        /\ spa' = [spa EXCEPT ![u] = @ - s]
        /\ SPAburnt' = SPAburnt + s
        /\ colla' = [colla EXCEPT ![c][u] = @ - k, ![c][Vault] = @ + k]
        /\ usds' = [usds EXCEPT ![u] = @ + a, ![FeeVault] = @ + b]
        /\ totalSupply' = totalSupply + a + b
        /\ calls' = calls + 1
        /\ UNCHANGED <<SPAminted, strategies, switches, settings, world, params>>
    BY DEF Mint
  <1>. HIDE DEF a, b, s, k, q
  <1>3. /\ u \in Holders /\ FeeVault \in Holders /\ u # FeeVault /\ u # Vault
    BY HolderFacts
  <1>4. usds \in [Holders -> Nat] /\ totalSupply \in Nat
    BY DEF VInv, TypeOK
  <1>5. /\ usds' \in [Holders -> Nat]
        /\ usds'[u] = usds[u] + a /\ usds'[FeeVault] = usds[FeeVault] + b
        /\ \A h \in Holders \ {u, FeeVault} : usds'[h] = usds[h]
    BY <1>1, <1>2, <1>3, <1>4
  <1>6. SumFunctionOnSet(usds', Holders)
           = SumFunctionOnSet(usds, Holders) + usds'[u] - usds[u]
                + usds'[FeeVault] - usds[FeeVault]
    BY <1>3, <1>4, <1>5, HolderFacts, SumChangeTwo
  <1>7. SumFunctionOnSet(usds, Holders) \in Nat
    BY <1>4, HolderFacts, SumNat
  <1>8. usds[u] \in Nat /\ usds[FeeVault] \in Nat
    BY <1>3, <1>4
  <1>9. SumFunctionOnSet(usds', Holders) <= totalSupply' /\ totalSupply' \in Nat
    BY <1>1, <1>2, <1>4, <1>5, <1>6, <1>7, <1>8 DEF VInv
  <1>10. spa' \in [Users -> Nat] /\ SPAburnt' \in Nat
    BY <1>1, <1>2 DEF VInv, TypeOK
  <1>11. colla' \in [Colls -> [Users \cup {Vault} -> Nat]]
    <2>1. colla \in Ledger
      BY DEF VInv, TypeOK, Ledger
    <2>2. colla' \in Ledger
      BY <1>1, <1>2, <1>3, <2>1, MovedColla
    <2>. QED  BY <2>2 DEF Ledger
  <1>12. calls' \in 0 .. MaxCalls
    BY <1>2, VaultAssumption DEF VInv, TypeOK
  <1>13. TypeOK'
    BY <1>2, <1>5, <1>9, <1>10, <1>11, <1>12
       DEF VInv, TypeOK, strategies, switches, settings, world
  <1>. QED  BY <1>9, <1>13 DEF VInv

(* A payout of a strategy.                                                  *)
LEMMA WithdrawTypes ==
    ASSUME TypeOK, NEW s \in Strats, NEW amount \in Nat, NEW got \in Nat,
           NEW to \in Users \cup {Vault}, withdraw(s, amount, got, to)
    PROVE  /\ funds' \in [Strats -> Nat] /\ allocatedAmt' \in [Strats -> Nat]
           /\ claimable' \in [Strats -> Nat]
           /\ colla' \in [Colls -> [Users \cup {Vault} -> Nat]]
  <1>1. Supports[s] \in Colls
    BY VaultAssumption
  <1>2. principalLess(s, amount, got) \in Nat
    BY DEF principalLess, trySub, TypeOK
  <1>. HIDE DEF principalLess
  <1>3. allocatedAmt' \in [Strats -> Nat]
    BY <1>2 DEF withdraw, TypeOK
  <1>4. funds' \in [Strats -> Nat]
    BY DEF withdraw, TypeOK
  <1>5. colla' \in [Colls -> [Users \cup {Vault} -> Nat]]
    <2>1. colla \in Ledger /\ colla' = [colla EXCEPT ![Supports[s]][to] = @ + got]
      BY DEF withdraw, TypeOK, Ledger
    <2>2. colla' \in Ledger
      BY <1>1, <2>1, Credited
    <2>. QED  BY <2>2 DEF Ledger
  <1>. QED  BY <1>3, <1>4, <1>5 DEF withdraw, TypeOK

LEMMA SlipTypes ==
    ASSUME NEW amount \in Nat, NEW got \in trySub(amount, Slip) .. amount + Slip
    PROVE  got \in Nat /\ got + Slip >= amount
  BY VaultAssumption DEF trySub

LEMMA PayoutTypes ==
    ASSUME TypeOK, NEW u \in Users, NEW c \in Colls, NEW amount \in Nat,
           \/ fromVault(u, c, amount)
           \/ fromStrategy(u, c, amount)
           \/ fromNowhere(c, amount)
    PROVE  /\ funds' \in [Strats -> Nat] /\ allocatedAmt' \in [Strats -> Nat]
           /\ claimable' \in [Strats -> Nat]
           /\ colla' \in [Colls -> [Users \cup {Vault} -> Nat]]
  <1>1. CASE fromVault(u, c, amount)
    <2>1. /\ colla \in Ledger /\ Vault # u /\ amount <= colla[c][Vault]
          /\ colla' = [colla EXCEPT ![c][Vault] = @ - amount, ![c][u] = @ + amount]
      BY <1>1, HolderFacts DEF fromVault, TypeOK, Ledger
    <2>2. colla' \in Ledger
      BY <2>1, MovedColla
    <2>. QED  BY <1>1, <2>2 DEF Ledger, fromVault, strategies, TypeOK
  <1>2. CASE fromStrategy(u, c, amount)
    <2>1. strategyOf(c) \in Strats
      BY <1>2 DEF TypeOK, fromStrategy, employed, strategyOf, Info
    <2>2. PICK got \in trySub(amount, Slip) .. amount + Slip :
             withdraw(strategyOf(c), amount, got, u)
      BY <1>2 DEF fromStrategy
    <2>3. got \in Nat
      BY SlipTypes
    <2>. QED  BY <2>1, <2>2, <2>3, WithdrawTypes
  <1>3. CASE fromNowhere(c, amount)
    BY <1>3 DEF fromNowhere, strategies, TypeOK
  <1>. QED  BY <1>1, <1>2, <1>3

LEMMA RedeemInv ==
    ASSUME VInv, NEW u \in Users, NEW c \in Colls, NEW n \in Amounts, Redeem(u, c, n)
    PROVE  VInv'
  <1>. DEFINE q == RedeemQuote(c, n)
              b == q.swapFeeAmount
              s == q.SPAMintAmt
              k == q.collaUnlockAmt
              d == q.USDsBurntAmt
  <1>1. /\ b \in Nat /\ s \in Nat /\ k \in Nat /\ d \in Nat /\ d + b = n
    BY RedeemQuoteFacts DEF VInv, Redeem
  <1>2. /\ calls < MaxCalls /\ n <= usds[u]
        /\ spa' = [spa EXCEPT ![u] = @ + s]
        /\ SPAminted' = SPAminted + s
        /\ fromVault(u, c, k) \/ fromStrategy(u, c, k) \/ fromNowhere(c, k)
        /\ usds' = [usds EXCEPT ![u] = @ - n, ![FeeVault] = @ + b]
        /\ totalSupply' = totalSupply - d
        /\ calls' = calls + 1
        /\ UNCHANGED <<SPAburnt, switches, settings, world, params>>
    BY DEF Redeem
  <1>. HIDE DEF b, s, k, q, d
  <1>3. /\ u \in Holders /\ FeeVault \in Holders /\ u # FeeVault /\ n \in Nat
    BY HolderFacts, VaultAssumption
  <1>4. usds \in [Holders -> Nat] /\ totalSupply \in Nat
    BY DEF VInv, TypeOK
  <1>5. /\ usds' \in [Holders -> Nat]
        /\ usds'[u] = usds[u] - n /\ usds'[FeeVault] = usds[FeeVault] + b
        /\ \A h \in Holders \ {u, FeeVault} : usds'[h] = usds[h]
    <2>1. usds[u] - n \in Nat
      BY <1>2, <1>3, <1>4
    <2>. QED  BY <1>1, <1>2, <1>3, <1>4, <2>1
  <1>6. SumFunctionOnSet(usds', Holders)
           = SumFunctionOnSet(usds, Holders) + usds'[u] - usds[u]
                + usds'[FeeVault] - usds[FeeVault]
    BY <1>3, <1>4, <1>5, HolderFacts, SumChangeTwo
  <1>7. SumFunctionOnSet(usds, Holders) \in Nat /\ SumFunctionOnSet(usds', Holders) \in Nat
    BY <1>4, <1>5, HolderFacts, SumNat
  <1>8. usds[u] \in Nat /\ usds[FeeVault] \in Nat
    BY <1>3, <1>4
  <1>9. SumFunctionOnSet(usds', Holders) <= totalSupply' /\ totalSupply' \in Nat
    BY <1>1, <1>2, <1>3, <1>4, <1>5, <1>6, <1>7, <1>8 DEF VInv
  <1>10. spa' \in [Users -> Nat] /\ SPAminted' \in Nat
    BY <1>1, <1>2 DEF VInv, TypeOK
  <1>11. /\ funds' \in [Strats -> Nat] /\ allocatedAmt' \in [Strats -> Nat]
         /\ claimable' \in [Strats -> Nat]
         /\ colla' \in [Colls -> [Users \cup {Vault} -> Nat]]
    BY <1>1, <1>2, PayoutTypes DEF VInv
  <1>12. calls' \in 0 .. MaxCalls
    BY <1>2, BoundTypes DEF VInv, TypeOK
  <1>13. TypeOK'
    BY <1>2, <1>5, <1>9, <1>10, <1>11, <1>12 DEF VInv, TypeOK, switches, settings, world
  <1>. QED  BY <1>9, <1>13 DEF VInv

LEMMA SellInv ==
    ASSUME VInv, NEW u \in Users, NEW n \in Sales, Sell(u, n)
    PROVE  VInv'
  <1>1. /\ u \in Holders /\ Pool \in Holders /\ u # Pool /\ n \in Nat
    BY HolderFacts, VaultAssumption
  <1>2. usds \in [Holders -> Nat] /\ totalSupply \in Nat
    BY DEF VInv, TypeOK
  <1>3. usds[u] - n \in Nat /\ usds[u] \in Nat /\ usds[Pool] \in Nat
    BY <1>1, <1>2 DEF Sell
  <1>4. /\ usds' \in [Holders -> Nat]
        /\ usds'[u] = usds[u] - n /\ usds'[Pool] = usds[Pool] + n
        /\ \A h \in Holders \ {u, Pool} : usds'[h] = usds[h]
    BY <1>1, <1>2, <1>3 DEF Sell, moved
  <1>5. SumFunctionOnSet(usds', Holders)
           = SumFunctionOnSet(usds, Holders) + usds'[u] - usds[u] + usds'[Pool] - usds[Pool]
    BY <1>1, <1>2, <1>4, HolderFacts, SumChangeTwo
  <1>6. SumFunctionOnSet(usds, Holders) \in Nat
    BY <1>2, HolderFacts, SumNat
  <1>7. SumFunctionOnSet(usds', Holders) <= totalSupply'
    BY <1>1, <1>2, <1>3, <1>4, <1>5, <1>6 DEF VInv, Sell
  <1>8. TypeOK'
    BY <1>4 DEF VInv, TypeOK, Sell, strategies, switches, settings, world
  <1>. QED  BY <1>7, <1>8 DEF VInv

-----------------------------------------------------------------------------
(* What a rebase does to the wallets: each is scaled, rounding down, so the *)
(* scaled ones make up less than one unit per wallet too little.            *)

(* All wallets are those that rebase and two more.                          *)
LEMMA HoldersSum ==
    ASSUME NEW f, \A h \in Holders : f[h] \in Int
    PROVE  /\ SumFunctionOnSet(f, Holders)
                = SumFunctionOnSet(f, Rebasing) + f[Vault] + f[Pool]
           /\ SumFunctionOnSet(f, Holders) \in Int
           /\ SumFunctionOnSet(f, Rebasing) \in Int
  <1>1. IsFiniteSet(Holders \ {Vault})
    BY HolderFacts, FS_Subset
  <1>2. SumFunctionOnSet(f, Holders) = f[Vault] + SumFunctionOnSet(f, Holders \ {Vault})
    BY HolderFacts, SumRemove
  <1>3. SumFunctionOnSet(f, Holders \ {Vault}) = f[Pool] + SumFunctionOnSet(f, Rebasing)
    BY <1>1, HolderFacts, SumRemove
  <1>4. /\ SumFunctionOnSet(f, Holders) \in Int /\ SumFunctionOnSet(f, Rebasing) \in Int
        /\ f[Vault] \in Int /\ f[Pool] \in Int
    BY HolderFacts, SumInt
  <1>. QED  BY <1>2, <1>3, <1>4

LEMMA ScaledWallet ==
    ASSUME NEW x \in Nat, NEW before \in Nat, before > 0, NEW after \in Nat,
           before <= after
    PROVE  LET y == (x * after) \div before
           IN  /\ y \in Nat /\ x <= y
               /\ y * before <= x * after
               /\ x * after <= (y + 1) * before
  <1>. DEFINE y == (x * after) \div before
  <1>1. x * after \in Nat /\ x * before \in Nat /\ x * before <= x * after
    <2>1. x * before \in Nat /\ before * x = x * before /\ after * x = x * after
      BY SMT
    <2>. QED  BY <2>1, MulNat, MulMono
  <1>2. y \in Nat /\ y * before <= x * after /\ x * after < y * before + before
    BY <1>1, DivFacts
  <1>. HIDE DEF y
  <1>3. (y + 1) * before = y * before + before /\ y * before \in Nat
    BY <1>2, SMT
  <1>4. x * before < (y + 1) * before
    BY <1>1, <1>2, <1>3
  <1>5. x < y + 1
    BY <1>2, <1>4, CancelFactor
  <1>6. y \in Nat /\ x <= y /\ y * before <= x * after /\ x * after <= (y + 1) * before
    BY <1>1, <1>2, <1>3, <1>5
  <1>. QED  BY <1>6 DEF y

LEMMA ScaledFacts ==
    ASSUME NEW f \in [Holders -> Nat], NEW n \in Nat,
           SumFunctionOnSet(f, Rebasing) > 0,
           SumFunctionOnSet(f, Holders) <= n
    PROVE  LET g == scaled(f, n)
           IN  /\ g \in [Holders -> Nat]
               /\ g[Vault] = f[Vault] /\ g[Pool] = f[Pool]
               /\ \A h \in Rebasing : f[h] <= g[h]
               /\ SumFunctionOnSet(g, Holders) <= n
               /\ n <= SumFunctionOnSet(g, Holders) + Cardinality(Rebasing)
  <1>. DEFINE before == SumFunctionOnSet(f, Rebasing)
              after == n - f[Vault] - f[Pool]
              g == scaled(f, n)
              g1 == [h \in Rebasing |-> g[h] + 1]
              one == [h \in Rebasing |-> 1]
  <1>1. /\ f[Vault] \in Nat /\ f[Pool] \in Nat /\ \A h \in Rebasing : f[h] \in Nat
        /\ Vault \notin Rebasing /\ Pool \notin Rebasing
    BY HolderFacts
  <1>2. before \in Nat
    BY <1>1, HolderFacts, SumNat
  <1>3. SumFunctionOnSet(f, Holders) = before + f[Vault] + f[Pool]
    BY HoldersSum
  <1>4. after \in Nat /\ before <= after
    BY <1>1, <1>2, <1>3
  <1>5. g = [h \in Holders |-> IF h \in Rebasing THEN (f[h] * after) \div before ELSE f[h]]
    BY DEF scaled
  <1>. HIDE DEF before, after, g
  <1>6. \A h \in Rebasing : /\ g[h] \in Nat /\ f[h] <= g[h]
                            /\ g[h] * before <= f[h] * after
                            /\ f[h] * after <= (g[h] + 1) * before
    <2>. SUFFICES ASSUME NEW h \in Rebasing
         PROVE  /\ g[h] \in Nat /\ f[h] <= g[h]
                /\ g[h] * before <= f[h] * after
                /\ f[h] * after <= (g[h] + 1) * before
      OBVIOUS
    <2>1. g[h] = (f[h] * after) \div before
      BY <1>5, HolderFacts
    <2>2. before > 0
      BY DEF before
    <2>. QED  BY <1>1, <1>2, <1>4, <2>1, <2>2, ScaledWallet
  <1>7. /\ g[Vault] = f[Vault] /\ g[Pool] = f[Pool]
        /\ g \in [Holders -> Nat]
    <2>1. /\ g[Vault] = f[Vault] /\ g[Pool] = f[Pool]
      BY <1>1, <1>5, HolderFacts
    <2>2. \A h \in Holders : g[h] \in Nat
      BY <1>1, <1>6, <2>1, HolderFacts
    <2>. QED  BY <1>5, <2>1, <2>2
  <1>8. SumFunctionOnSet(g, Rebasing) \in Nat
    BY <1>6, HolderFacts, SumNat
  <1>. DEFINE sum == SumFunctionOnSet(g, Rebasing)
              sum1 == SumFunctionOnSet(g1, Rebasing)
  <1>9. sum <= after
    <2>0. \A h \in Rebasing : f[h] \in Int /\ g[h] \in Int /\ g[h] * before <= f[h] * after
      BY <1>1, <1>6
    <2>1. sum * before <= SumFunctionOnSet(f, Rebasing) * after
      BY <1>2, <1>4, <2>0, HolderFacts, SumScaled
    <2>2. before > 0 /\ before = SumFunctionOnSet(f, Rebasing)
      BY DEF before
    <2>. HIDE DEF sum
    <2>3. sum \in Nat
      BY <1>8 DEF sum
    <2>4. sum * before <= after * before /\ after * before = before * after
      BY <1>2, <1>4, <2>1, <2>2, <2>3, SMT
    <2>. QED  BY <1>2, <1>4, <2>2, <2>3, <2>4, CancelLe
  <1>10. sum1 = sum + Cardinality(Rebasing) /\ Cardinality(Rebasing) \in Nat
    <2>1. SumFunctionOnSet(one, Rebasing) = Cardinality(Rebasing)
      BY HolderFacts, SumOnes
    <2>2. \A h \in Rebasing : g[h] \in Int /\ one[h] \in Int /\ g1[h] = g[h] + one[h]
      BY <1>6
    <2>. HIDE DEF one, g1
    <2>3. SumFunctionOnSet(g1, Rebasing) = sum + SumFunctionOnSet(one, Rebasing)
      BY <2>2, HolderFacts, SumAdd
    <2>. QED  BY <2>1, <2>3, HolderFacts, FS_CardinalityType
  <1>11. after <= sum1
    <2>1. \A h \in Rebasing : f[h] \in Int /\ g1[h] \in Int /\ f[h] * after <= g1[h] * before
      BY <1>1, <1>6
    <2>2. before > 0 /\ before = SumFunctionOnSet(f, Rebasing)
      BY DEF before
    <2>. HIDE DEF g1
    <2>3. SumFunctionOnSet(f, Rebasing) * after <= sum1 * before
      BY <1>2, <1>4, <2>1, HolderFacts, SumScaled
    <2>4. sum1 \in Int
      BY <1>8, <1>10
    <2>. HIDE DEF sum1
    <2>5. after * before <= sum1 * before
      BY <1>2, <1>4, <2>2, <2>3, <2>4, SMT
    <2>. QED  BY <1>2, <1>4, <2>2, <2>4, <2>5, CancelLe
  <1>12. SumFunctionOnSet(g, Holders) = sum + g[Vault] + g[Pool]
    BY <1>7, HoldersSum
  <1>. HIDE DEF sum, sum1
  <1>13. /\ SumFunctionOnSet(g, Holders) <= n
         /\ n <= SumFunctionOnSet(g, Holders) + Cardinality(Rebasing)
    <2>1. sum \in Nat
      BY <1>8 DEF sum
    <2>. QED  BY <1>1, <1>7, <1>9, <1>10, <1>11, <1>12, <2>1 DEF after
  <1>. QED  BY <1>6, <1>7, <1>13 DEF g

LEMMA InterestTyped ==
    ASSUME TypeOK, NEW s \in Strats
    PROVE  /\ interestOf(s) \in Nat /\ interestOf(s) <= funds[s]
           /\ funds[s] - interestOf(s) \in Nat
  <1>1. funds[s] \in Nat /\ allocatedAmt[s] \in Nat
    BY DEF TypeOK
  <1>. QED  BY <1>1 DEF interestOf, trySub

LEMMA ProceedsTyped == ASSUME TypeOK PROVE proceeds \in Nat
  <1>. DEFINE value == [s \in Strats |-> valueOf(interestOf(s), Supports[s])]
              sold == {s \in Strats : collects(s)}
              claimed == {s \in Strats : claims(s)}
  <1>1. \A s \in Strats : value[s] \in Nat
    <2>. SUFFICES ASSUME NEW s \in Strats  PROVE valueOf(interestOf(s), Supports[s]) \in Nat
      OBVIOUS
    <2>1. Supports[s] \in Colls
      BY VaultAssumption
    <2>. QED  BY <2>1, InterestTyped, ValueTyped
  <1>2. \A s \in Strats : claimable[s] \in Nat
    BY DEF TypeOK
  <1>3. /\ sold \subseteq Strats /\ IsFiniteSet(sold)
        /\ claimed \subseteq Strats /\ IsFiniteSet(claimed)
    BY FS_Subset, VaultAssumption
  <1>4. proceeds = SumFunctionOnSet(value, sold) + SumFunctionOnSet(claimable, claimed)
    BY DEF proceeds
  <1>. HIDE DEF value, sold, claimed
  <1>5. SumFunctionOnSet(value, sold) \in Nat /\ SumFunctionOnSet(claimable, claimed) \in Nat
    BY <1>1, <1>2, <1>3, SumNat
  <1>. QED  BY <1>4, <1>5

(* Buying x and burning it leaves the vault and the wallets that rebase as  *)
(* they were.                                                               *)
LEMMA BoughtFacts ==
    ASSUME NEW f \in [Holders -> Nat], NEW x \in Nat, x <= f[Pool]
    PROVE  LET g == burntByVault([f EXCEPT ![Pool] = @ - x, ![Vault] = @ + x], x)
           IN  /\ g \in [Holders -> Nat]
               /\ g[Vault] = f[Vault] /\ g[Pool] = f[Pool] - x
               /\ \A h \in Rebasing : g[h] = f[h]
  <1>1. /\ Vault \in Holders /\ Pool \in Holders /\ Vault # Pool
        /\ f[Vault] \in Nat /\ f[Pool] \in Nat /\ f[Pool] - x \in Nat
        /\ Vault \notin Rebasing /\ Pool \notin Rebasing /\ Rebasing \subseteq Holders
    BY HolderFacts
  <1>. HIDE DEF Rebasing, Holders
  <1>. QED  BY <1>1 DEF burntByVault

LEMMA RebaseFacts ==
    ASSUME VInv, Rebase
    PROVE  \E inc \in Nat :
             /\ usds' \in [Holders -> Nat]
             /\ usds'[Vault] = usds[Vault] /\ usds'[Pool] = usds[Pool] - inc
             /\ \A h \in Rebasing : usds[h] <= usds'[h]
             /\ totalSupply' = totalSupply + inc
             /\ SumFunctionOnSet(usds', Holders) <= totalSupply'
             /\ inc > 0 => totalSupply' <= SumFunctionOnSet(usds', Holders)
                                            + Cardinality(Rebasing)
  <1>1. /\ usds \in [Holders -> Nat] /\ totalSupply \in Nat
        /\ SumFunctionOnSet(usds, Holders) <= totalSupply
    BY DEF VInv, TypeOK
  <1>2. PICK f \in Fills :
          LET inc == (proceeds * f) \div 100
          IN  \/ inc = 0 /\ UNCHANGED <<usds, totalSupply>>
              \/ /\ 0 < inc /\ inc <= usds[Pool]
                 /\ \E h \in Rebasing : usds[h] > 0
                 /\ usds' = scaled(burntByVault(moved(Pool, Vault, inc), inc), newSupply(inc))
                 /\ totalSupply' = newSupply(inc)
    BY DEF Rebase
  <1>. DEFINE inc == (proceeds * f) \div 100
  <1>3. inc \in Nat
    <2>1. proceeds \in Nat /\ f \in Nat
      BY ProceedsTyped, VaultAssumption DEF VInv
    <2>2. proceeds * f \in Nat
      BY <2>1, MulNat
    <2>. QED  BY <2>2, DivFacts
  <1>. HIDE DEF inc
  <1>4. CASE inc = 0 /\ UNCHANGED <<usds, totalSupply>>
    <2>1. \A h \in Rebasing : usds[h] \in Nat
      BY <1>1, HolderFacts
    <2>2. usds[Pool] \in Nat
      BY <1>1, HolderFacts
    <2>. QED  BY <1>1, <1>3, <1>4, <2>1, <2>2
  <1>5. CASE /\ 0 < inc /\ inc <= usds[Pool]
             /\ \E h \in Rebasing : usds[h] > 0
             /\ usds' = scaled(burntByVault(moved(Pool, Vault, inc), inc), newSupply(inc))
             /\ totalSupply' = newSupply(inc)
    <2>. DEFINE b == burntByVault([usds EXCEPT ![Pool] = @ - inc, ![Vault] = @ + inc], inc)
    <2>1. PICK g : /\ g = b
                   /\ g \in [Holders -> Nat]
                   /\ g[Vault] = usds[Vault] /\ g[Pool] = usds[Pool] - inc
                   /\ \A h \in Rebasing : g[h] = usds[h]
      <3>1. /\ b \in [Holders -> Nat]
            /\ b[Vault] = usds[Vault] /\ b[Pool] = usds[Pool] - inc
            /\ \A h \in Rebasing : b[h] = usds[h]
        BY <1>1, <1>3, <1>5, BoughtFacts
      <3>. HIDE DEF b
      <3>. QED  BY <3>1
    <2>2. b = burntByVault(moved(Pool, Vault, inc), inc)
      BY DEF moved
    <2>3. usds' = scaled(g, totalSupply + inc) /\ totalSupply' = totalSupply + inc
      BY <1>5, <2>1, <2>2 DEF newSupply
    <2>. HIDE DEF b
    <2>4. /\ \A h \in Rebasing : g[h] \in Int /\ g[h] = usds[h]
          /\ usds[Vault] \in Nat /\ usds[Pool] \in Nat
      BY <1>1, <2>1, HolderFacts
    <2>5. SumFunctionOnSet(g, Rebasing) = SumFunctionOnSet(usds, Rebasing)
      BY <2>4, HolderFacts, SumSame
    <2>6. /\ SumFunctionOnSet(g, Holders)
                = SumFunctionOnSet(g, Rebasing) + g[Vault] + g[Pool]
          /\ SumFunctionOnSet(usds, Holders)
                = SumFunctionOnSet(usds, Rebasing) + usds[Vault] + usds[Pool]
          /\ SumFunctionOnSet(usds, Rebasing) \in Int
      BY <1>1, <2>1, HoldersSum
    <2>7. SumFunctionOnSet(g, Holders) <= totalSupply + inc
      BY <1>1, <1>3, <2>1, <2>4, <2>5, <2>6
    <2>8. SumFunctionOnSet(g, Rebasing) > 0
      <3>1. PICK h \in Rebasing : usds[h] > 0
        BY <1>5
      <3>2. g[h] > 0 /\ g[h] \in Nat /\ \A k \in Rebasing : g[k] \in Nat
        BY <2>1, <3>1, HolderFacts
      <3>3. g[h] <= SumFunctionOnSet(g, Rebasing)
        BY <3>2, HolderFacts, SumMember
      <3>. QED  BY <2>5, <2>6, <3>2, <3>3
    <2>9. totalSupply + inc \in Nat
      BY <1>1, <1>3
    <2>10. PICK r : r = scaled(g, totalSupply + inc)
      OBVIOUS
    <2>11. /\ r \in [Holders -> Nat]
           /\ r[Vault] = g[Vault] /\ r[Pool] = g[Pool]
           /\ \A h \in Rebasing : g[h] <= r[h]
           /\ SumFunctionOnSet(r, Holders) <= totalSupply + inc
           /\ totalSupply + inc <= SumFunctionOnSet(r, Holders) + Cardinality(Rebasing)
      BY <2>1, <2>7, <2>8, <2>9, <2>10, ScaledFacts
    <2>12. usds' = r
      BY <2>3, <2>10
    <2>. QED  BY <1>3, <2>1, <2>3, <2>11, <2>12
  <1>. QED  BY <1>2, <1>4, <1>5 DEF inc

LEMMA RebaseInv == ASSUME VInv, Rebase PROVE VInv'
  <1>1. PICK inc \in Nat :
          /\ usds' \in [Holders -> Nat]
          /\ totalSupply' = totalSupply + inc
          /\ SumFunctionOnSet(usds', Holders) <= totalSupply'
    BY RebaseFacts
  <1>2. TypeOK
    BY DEF VInv
  <1>3. totalSupply' \in Nat
    BY <1>1, <1>2 DEF TypeOK
  <1>4. funds' \in [Strats -> Nat]
    <2>1. \A s \in Strats : funds[s] \in Nat /\ funds[s] - interestOf(s) \in Nat
      BY <1>2, InterestTyped DEF TypeOK
    <2>2. funds' = [s \in Strats |-> IF collects(s) THEN funds[s] - interestOf(s)
                                     ELSE funds[s]]
      BY DEF Rebase
    <2>. QED  BY <2>1, <2>2
  <1>5. claimable' \in [Strats -> Nat]
    <2>1. claimable' = [s \in Strats |-> IF claims(s) THEN 0 ELSE claimable[s]]
      BY DEF Rebase
    <2>. QED  BY <1>2, <2>1 DEF TypeOK
  <1>6. calls' \in 0 .. MaxCalls
    BY <1>2, BoundTypes DEF Rebase, TypeOK
  <1>7. UNCHANGED <<spa, SPAminted, SPAburnt, colla, allocatedAmt,
                    switches, settings, world, params>>
    BY DEF Rebase
  <1>8. TypeOK'
    BY <1>1, <1>2, <1>3, <1>4, <1>5, <1>6, <1>7 DEF TypeOK, switches, settings, world
  <1>. QED  BY <1>1, <1>8 DEF VInv

LEMMA AllocateTypes ==
    ASSUME TypeOK
    PROVE  /\ \A c \in Colls : toAllocate(c) \in Nat
           /\ \A s \in Strats : allocatedTo(s) \in Nat
  <1>1. ASSUME NEW c \in Colls  PROVE toAllocate(c) \in Nat
    <2>1. CASE c \in added /\ employed(c) /\ collateralsInfo[c].allocationAllowed
      <3>1. strategyOf(c) \in Strats /\ collateralsInfo[c].allocatePercentage \in Nat
        <4>1. collateralsInfo[c] \in Info
          BY DEF TypeOK
        <4>2. /\ collateralsInfo[c].defaultStrategyAddr \in Strats \cup {NoStrat}
              /\ collateralsInfo[c].allocatePercentage \in 0 .. 255
          BY <4>1 DEF Info
        <4>. QED  BY <2>1, <4>2 DEF employed, strategyOf
      <3>2. funds[strategyOf(c)] \in Nat /\ colla[c][Vault] \in Nat
        BY <3>1 DEF TypeOK
      <3>3. funds[strategyOf(c)] + colla[c][Vault] \in Nat
        BY <3>2
      <3>4. (funds[strategyOf(c)] + colla[c][Vault]) * collateralsInfo[c].allocatePercentage \in Nat
        BY <3>1, <3>3, MulNat
      <3>5. optimal(c) \in Nat
        BY <3>4, DivFacts DEF optimal
      <3>. QED  BY <2>1, <3>2, <3>5 DEF toAllocate, trySub
    <2>2. CASE ~(c \in added /\ employed(c) /\ collateralsInfo[c].allocationAllowed)
      BY <2>2 DEF toAllocate
    <2>. QED  BY <2>1, <2>2
  <1>2. ASSUME NEW s \in Strats  PROVE allocatedTo(s) \in Nat
    <2>1. Supports[s] \in Colls
      BY VaultAssumption
    <2>. QED  BY <1>1, <2>1 DEF allocatedTo
  <1>. QED  BY <1>1, <1>2

LEMMA AllocateInv == ASSUME VInv, Allocate PROVE VInv'
  <1>1. TypeOK
    BY DEF VInv
  <1>2. /\ \A c \in Colls : toAllocate(c) \in Nat /\ toAllocate(c) <= colla[c][Vault]
        /\ \A s \in Strats : allocatedTo(s) \in Nat
    BY <1>1, AllocateTypes DEF Allocate
  <1>3. colla' \in [Colls -> [Users \cup {Vault} -> Nat]]
    <2>1. colla' = [c \in Colls |-> [colla[c] EXCEPT ![Vault] = @ - toAllocate(c)]]
      BY DEF Allocate
    <2>2. ASSUME NEW c \in Colls
          PROVE  [colla[c] EXCEPT ![Vault] = @ - toAllocate(c)] \in [Users \cup {Vault} -> Nat]
      <3>1. colla[c] \in [Users \cup {Vault} -> Nat]
        BY <1>1 DEF TypeOK
      <3>2. colla[c][Vault] - toAllocate(c) \in Nat
        BY <1>2, <3>1
      <3>. QED  BY <3>1, <3>2
    <2>. QED  BY <2>1, <2>2
  <1>4. allocatedAmt' \in [Strats -> Nat]
    BY <1>1, <1>2 DEF Allocate, TypeOK
  <1>5. funds' \in [Strats -> Nat]
    <2>1. PICK lost \in [Strats -> 0 .. Slip] :
             funds' = [s \in Strats |-> funds[s] + trySub(allocatedTo(s), lost[s])]
      BY DEF Allocate
    <2>2. \A s \in Strats : trySub(allocatedTo(s), lost[s]) \in Nat
      BY <1>2, BoundTypes DEF trySub
    <2>. QED  BY <1>1, <2>1, <2>2 DEF TypeOK
  <1>6. UNCHANGED <<usds, totalSupply, spa, SPAminted, SPAburnt, claimable,
                    switches, settings, world, params, calls>>
    BY DEF Allocate
  <1>7. TypeOK'
    BY <1>1, <1>3, <1>4, <1>5, <1>6 DEF TypeOK, switches, settings, world
  <1>. QED  BY <1>6, <1>7, QuietStep

-----------------------------------------------------------------------------
(* The operations of the owner and of the world outside.                    *)

LEMMA OwnerInv ==
    ASSUME VInv,
           \/ \E c \in Colls : \E i \in Infos[c] :
                  AddCollateral(c, i) \/ UpdateCollateralInfo(c, i)
           \/ \E s \in Strats : \/ AddStrategy(s)
                                \/ \E b \in BOOLEAN : UpdateStrategyRwdBuybackAddr(s, b)
           \/ \E b \in BOOLEAN : \/ UpdateMintBurnPermission(b)
                                 \/ UpdateAllocationPermission(b)
                                 \/ UpdateRebasePermission(b)
           \/ \E p \in Settings : UpdateParameters(p)
           \/ \E in, out \in BOOLEAN : UpdateSwapInOutFeePermission(in, out)
           \/ \E m \in Markets : MarketMoves(m)
           \/ BlocksPass
    PROVE  VInv'
  <1>1. TypeOK
    BY DEF VInv
  <1>2. ASSUME NEW c \in Colls, NEW i \in Infos[c],
               AddCollateral(c, i) \/ UpdateCollateralInfo(c, i)
        PROVE  VInv'
    <2>1. i \in Info
      BY VaultAssumption
    <2>2. collateralsInfo' = [collateralsInfo EXCEPT ![c] = i]
      BY <1>2 DEF AddCollateral, UpdateCollateralInfo
    <2>3. collateralsInfo' \in [Colls -> Info]
      BY <1>1, <2>1, <2>2 DEF TypeOK
    <2>4. UNCHANGED <<tokens, strategies, switches, strategiesInfo, world, params, calls>>
      BY <1>2 DEF AddCollateral, UpdateCollateralInfo
    <2>5. TypeOK'
      BY <1>1, <2>3, <2>4 DEF TypeOK, tokens, strategies, switches, world
    <2>. QED  BY <2>4, <2>5, QuietStep DEF tokens
  <1>3. ASSUME NEW s \in Strats, NEW state \in {"added", "buyback"}, setStrategy(s, state)
        PROVE  VInv'
    <2>1. TypeOK'
      BY <1>1, <1>3 DEF setStrategy, TypeOK, tokens, strategies, switches, world
    <2>. QED  BY <1>3, <2>1, QuietStep DEF setStrategy, tokens
  <1>4. ASSUME NEW s \in Strats, AddStrategy(s)  PROVE VInv'
    BY <1>3, <1>4 DEF AddStrategy
  <1>5. ASSUME NEW s \in Strats, NEW b \in BOOLEAN, UpdateStrategyRwdBuybackAddr(s, b)
        PROVE  VInv'
    BY <1>3, <1>5 DEF UpdateStrategyRwdBuybackAddr
  <1>6. ASSUME NEW b \in BOOLEAN,
               \/ UpdateMintBurnPermission(b)
               \/ UpdateAllocationPermission(b)
               \/ UpdateRebasePermission(b)
        PROVE  VInv'
    <2>1. TypeOK'
      BY <1>1, <1>6 DEF UpdateMintBurnPermission, UpdateAllocationPermission,
                        UpdateRebasePermission, TypeOK, tokens, strategies, settings, world
    <2>2. usds' = usds /\ totalSupply' = totalSupply
      BY <1>6 DEF UpdateMintBurnPermission, UpdateAllocationPermission,
                  UpdateRebasePermission, tokens
    <2>. QED  BY <2>1, <2>2, QuietStep
  <1>7. ASSUME params' \in Settings,
               UNCHANGED <<tokens, strategies, switches, settings, world, calls>>
        PROVE  VInv'
    <2>1. TypeOK'
      BY <1>1, <1>7 DEF TypeOK, tokens, strategies, switches, settings, world
    <2>. QED  BY <1>7, <2>1, QuietStep DEF tokens
  <1>8. ASSUME NEW p \in Settings, UpdateParameters(p)  PROVE VInv'
    BY <1>7, <1>8 DEF UpdateParameters
  <1>9. ASSUME NEW in \in BOOLEAN, NEW out \in BOOLEAN, UpdateSwapInOutFeePermission(in, out)
        PROVE  VInv'
    BY <1>7, <1>9 DEF UpdateSwapInOutFeePermission
  <1>10. ASSUME NEW m \in Markets, MarketMoves(m)  PROVE VInv'
    <2>1. TypeOK'
      BY <1>1, <1>10 DEF MarketMoves, TypeOK, tokens, strategies, switches, settings
    <2>. QED  BY <1>10, <2>1, QuietStep DEF MarketMoves, tokens
  <1>11. ASSUME BlocksPass  PROVE VInv'
    <2>1. blocks' \in 0 .. MaxAge
      BY <1>1, <1>11, BoundTypes DEF BlocksPass, TypeOK
    <2>2. TypeOK'
      BY <1>1, <1>11, <2>1 DEF BlocksPass, TypeOK, tokens, strategies, switches, settings
    <2>. QED  BY <1>11, <2>2, QuietStep DEF BlocksPass, tokens
  <1>. QED  BY <1>2, <1>4, <1>5, <1>6, <1>8, <1>9, <1>10, <1>11

LEMMA StrategyInv ==
    ASSUME VInv, NEW s \in Strats,
           \/ \E n \in Recalls : WithdrawToVault(s, n)
           \/ \E n \in Worths : CurveMoves(s, n)
           \/ RewardsAccrue(s)
    PROVE  VInv'
  <1>1. TypeOK
    BY DEF VInv
  <1>2. ASSUME NEW n \in Recalls, WithdrawToVault(s, n)  PROVE VInv'
    <2>1. n \in Nat
      BY VaultAssumption
    <2>2. PICK got \in trySub(n, Slip) .. n + Slip : withdraw(s, n, got, Vault)
      BY <1>2 DEF WithdrawToVault
    <2>3. got \in Nat /\ Vault \in Users \cup {Vault}
      BY <2>1, SlipTypes
    <2>4. /\ funds' \in [Strats -> Nat] /\ allocatedAmt' \in [Strats -> Nat]
          /\ claimable' \in [Strats -> Nat]
          /\ colla' \in [Colls -> [Users \cup {Vault} -> Nat]]
      BY <1>1, <2>1, <2>2, <2>3, WithdrawTypes
    <2>5. UNCHANGED <<usds, totalSupply, spa, SPAminted, SPAburnt,
                      switches, settings, world, params, calls>>
      BY <1>2 DEF WithdrawToVault
    <2>6. TypeOK'
      BY <1>1, <2>4, <2>5 DEF TypeOK, switches, settings, world
    <2>. QED  BY <2>5, <2>6, QuietStep
  <1>3. ASSUME NEW n \in Worths, CurveMoves(s, n)  PROVE VInv'
    <2>1. n \in Nat
      BY VaultAssumption
    <2>2. TypeOK'
      BY <1>1, <1>3, <2>1 DEF CurveMoves, TypeOK, tokens, switches, settings, world
    <2>. QED  BY <1>3, <2>2, QuietStep DEF CurveMoves, tokens
  <1>4. ASSUME RewardsAccrue(s)  PROVE VInv'
    <2>1. TypeOK'
      BY <1>1, <1>4, BoundTypes DEF RewardsAccrue, TypeOK, tokens, switches, settings, world
    <2>. QED  BY <1>4, <2>1, QuietStep DEF RewardsAccrue, tokens
  <1>. QED  BY <1>2, <1>3, <1>4

LEMMA NextInv == VInv /\ [Next]_vars => VInv'
  <1>. SUFFICES ASSUME VInv, [Next]_vars  PROVE VInv'
    OBVIOUS
  <1>1. ASSUME NEW u \in Users, NEW c \in Colls, NEW n \in Amounts, NEW type \in ValueTypes,
               Mint(u, c, type, n)
        PROVE  VInv'
    BY <1>1, MintInv
  <1>2. ASSUME NEW u \in Users, NEW c \in Colls, NEW n \in Amounts, Redeem(u, c, n)
        PROVE  VInv'
    BY <1>2, RedeemInv
  <1>3. ASSUME NEW u \in Users, NEW n \in Sales, Sell(u, n)  PROVE VInv'
    BY <1>3, SellInv
  <1>4. CASE Allocate
    BY <1>4, AllocateInv
  <1>5. CASE Rebase
    BY <1>5, RebaseInv
  <1>6. CASE UNCHANGED vars
    <2>1. TypeOK'
      BY <1>6 DEF VInv, TypeOK, vars, tokens, strategies, switches, settings, world
    <2>. QED  BY <1>6, <2>1, QuietStep DEF vars, tokens
  <1>7. CASE \/ \E c \in Colls : \E i \in Infos[c] :
                  AddCollateral(c, i) \/ UpdateCollateralInfo(c, i)
             \/ \E s \in Strats : \/ AddStrategy(s)
                                  \/ \E b \in BOOLEAN : UpdateStrategyRwdBuybackAddr(s, b)
             \/ \E b \in BOOLEAN : \/ UpdateMintBurnPermission(b)
                                   \/ UpdateAllocationPermission(b)
                                   \/ UpdateRebasePermission(b)
             \/ \E p \in Settings : UpdateParameters(p)
             \/ \E in, out \in BOOLEAN : UpdateSwapInOutFeePermission(in, out)
             \/ \E m \in Markets : MarketMoves(m)
             \/ BlocksPass
    BY <1>7, OwnerInv
  <1>8. ASSUME NEW s \in Strats,
               \/ \E n \in Recalls : WithdrawToVault(s, n)
               \/ \E n \in Worths : CurveMoves(s, n)
               \/ RewardsAccrue(s)
        PROVE  VInv'
    BY <1>8, StrategyInv
  <1>. QED  BY <1>1, <1>2, <1>3, <1>4, <1>5, <1>6, <1>7, <1>8 DEF Next

LEMMA VInvHolds == Spec => []VInv
  BY InitInv, NextInv, PTL DEF Spec

(* No amount ever falls below zero, no entry is one the vault does not      *)
(* know, whatever users, owners and the market do (VaultCore).              *)
THEOREM TypesCorrect == Spec => []TypeOK
  <1>1. VInv => TypeOK
    BY DEF VInv
  <1>. QED  BY <1>1, VInvHolds, PTL

-----------------------------------------------------------------------------
(* What the operations promise.                                             *)

(* Collateral the users brought is never lost track of: what is in nobody's *)
(* hands is some strategy's principal.  Curve's slippage and gains do not   *)
(* touch the sum, for a principal falls by what was delivered.              *)
Supporting(c) == {s \in Strats : Supports[s] = c}
principal(c) == SumFunctionOnSet(allocatedAmt, Supporting(c))
Accounted == \A c \in Colls : brought <= inHands(c) + principal(c)

LEMMA HandsFinite == IsFiniteSet(Users \cup {Vault})
  <1>1. IsFiniteSet(Users) /\ IsFiniteSet({Vault})
    BY VaultAssumption, FS_Singleton
  <1>. QED  BY <1>1, FS_Union

LEMMA AccountFacts ==
    ASSUME TypeOK, NEW c \in Colls
    PROVE  /\ Supporting(c) \subseteq Strats /\ IsFiniteSet(Supporting(c))
           /\ IsFiniteSet(Users \cup {Vault})
           /\ inHands(c) \in Nat /\ principal(c) \in Nat /\ brought \in Nat
  <1>1. Supporting(c) \subseteq Strats /\ IsFiniteSet(Supporting(c))
    BY FS_Subset, VaultAssumption DEF Supporting
  <1>2. IsFiniteSet(Users \cup {Vault})
    BY HandsFinite
  <1>3. \A h \in Users \cup {Vault} : colla[c][h] \in Nat
    BY DEF TypeOK
  <1>4. inHands(c) \in Nat
    BY <1>2, <1>3, SumNat DEF inHands
  <1>5. \A s \in Supporting(c) : allocatedAmt[s] \in Nat
    BY <1>1 DEF TypeOK
  <1>6. principal(c) \in Nat
    BY <1>1, <1>5, SumNat DEF principal
  <1>7. brought \in Nat
    BY BoundTypes, VaultAssumption, FS_CardinalityType, MulNat DEF brought
  <1>. QED  BY <1>1, <1>2, <1>4, <1>6, <1>7

(* The sums after a step, by the ledgers after it.                          *)
LEMMA SumsAfter ==
    ASSUME NEW c \in Colls, NEW f, NEW g, colla' = f, allocatedAmt' = g
    PROVE  /\ inHands(c)' = SumFunctionOnSet(f[c], Users \cup {Vault})
           /\ principal(c)' = SumFunctionOnSet(g, Supporting(c))
           /\ brought' = brought
  BY DEF inHands, principal, brought, Supporting

LEMMA AccountedNext ==
    ASSUME TypeOK, TypeOK', Accounted,
           \A c \in Colls : inHands(c) + principal(c) <= inHands(c)' + principal(c)'
    PROVE  Accounted'
  <1>. SUFFICES ASSUME NEW c \in Colls
       PROVE  brought' <= inHands(c)' + principal(c)'
    BY DEF Accounted
  <1>1. /\ inHands(c) \in Nat /\ principal(c) \in Nat /\ brought \in Nat
        /\ inHands(c) + principal(c) <= inHands(c)' + principal(c)'
        /\ brought <= inHands(c) + principal(c)
    BY AccountFacts DEF Accounted
  <1>2. inHands(c)' \in Nat /\ principal(c)' \in Nat
    <2>1. /\ \A h \in Users \cup {Vault} : colla'[c][h] \in Nat
          /\ \A s \in Supporting(c) : allocatedAmt'[s] \in Nat
          /\ IsFiniteSet(Users \cup {Vault}) /\ IsFiniteSet(Supporting(c))
      BY AccountFacts DEF TypeOK
    <2>2. /\ SumFunctionOnSet(colla'[c], Users \cup {Vault}) \in Nat
          /\ SumFunctionOnSet(allocatedAmt', Supporting(c)) \in Nat
      BY <2>1, SumNat
    <2>3. /\ inHands(c)' = SumFunctionOnSet(colla'[c], Users \cup {Vault})
          /\ principal(c)' = SumFunctionOnSet(allocatedAmt', Supporting(c))
      BY DEF inHands, principal, Supporting
    <2>. QED  BY <2>2, <2>3
  <1>3. brought' = brought
    BY DEF brought
  <1>. QED  BY <1>1, <1>2, <1>3

LEMMA AccountedKept ==
    ASSUME Accounted, colla' = colla, allocatedAmt' = allocatedAmt PROVE Accounted'
  BY DEF Accounted, inHands, principal, brought, Supporting

(* What is put into a sum, or taken from it.                                *)
LEMMA SumPut ==
    ASSUME NEW S, IsFiniteSet(S), NEW f, NEW g, NEW x \in S, NEW k \in Int,
           \A z \in S : f[z] \in Nat /\ g[z] \in Nat,
           g[x] = f[x] + k, \A z \in S : z # x => g[z] = f[z]
    PROVE  /\ SumFunctionOnSet(g, S) = SumFunctionOnSet(f, S) + k
           /\ SumFunctionOnSet(f, S) \in Nat
  <1>1. SumFunctionOnSet(g, S) = SumFunctionOnSet(f, S) + g[x] - f[x]
    <2>1. \A z \in S : f[z] \in Int /\ g[z] \in Int
      OBVIOUS
    <2>2. \A z \in S \ {x} : g[z] = f[z]
      OBVIOUS
    <2>. QED  BY <2>1, <2>2, SumChange
  <1>2. SumFunctionOnSet(f, S) \in Nat
    BY SumNat
  <1>. QED  BY <1>1, <1>2

inRow(f, c) == SumFunctionOnSet(f[c], Users \cup {Vault})

(* ... in a row of the ledger.                                              *)
LEMMA RowPut ==
    ASSUME NEW f \in Ledger, NEW g \in Ledger, NEW c \in Colls, NEW x \in Users \cup {Vault},
           \A h \in Users \cup {Vault} : h # x => g[c][h] = f[c][h]
    PROVE  /\ inRow(g, c) = inRow(f, c) + (g[c][x] - f[c][x])
           /\ inRow(f, c) \in Nat
  <1>. DEFINE hands == Users \cup {Vault}
  <1>1. PICK a, b : a = f[c] /\ b = g[c]
    OBVIOUS
  <1>2. /\ \A z \in hands : a[z] \in Nat /\ b[z] \in Nat
        /\ \A z \in hands : z # x => b[z] = a[z]
    BY <1>1 DEF Ledger
  <1>3. IsFiniteSet(hands) /\ x \in hands
    BY HandsFinite
  <1>4. PICK k \in Int : k = b[x] - a[x] /\ b[x] = a[x] + k
    BY <1>2, <1>3
  <1>. HIDE DEF hands
  <1>5. /\ SumFunctionOnSet(b, hands) = SumFunctionOnSet(a, hands) + k
        /\ SumFunctionOnSet(a, hands) \in Nat
    BY <1>2, <1>3, <1>4, SumPut
  <1>. QED  BY <1>1, <1>4, <1>5 DEF hands, inRow

LEMMA RowMoved ==
    ASSUME NEW f \in Ledger, NEW g \in Ledger, NEW c \in Colls, NEW x \in Users \cup {Vault},
           NEW y \in Users \cup {Vault}, x # y,
           g[c][x] + g[c][y] = f[c][x] + f[c][y],
           \A h \in Users \cup {Vault} : h # x /\ h # y => g[c][h] = f[c][h]
    PROVE  inRow(g, c) = inRow(f, c)
  <1>1. f[c][x] \in Nat /\ f[c][y] \in Nat /\ g[c][x] \in Nat /\ g[c][y] \in Nat
    BY DEF Ledger
  <1>2. PICK e \in Ledger : /\ e[c][x] = g[c][x]
                            /\ \A h \in Users \cup {Vault} : h # x => e[c][h] = f[c][h]
    <2>1. PICK e : e = [f EXCEPT ![c][x] = g[c][x]]
      OBVIOUS
    <2>2. /\ e \in Ledger /\ e[c][x] = g[c][x]
          /\ \A h \in Users \cup {Vault} : h # x => e[c][h] = f[c][h]
      BY <1>1, <2>1 DEF Ledger
    <2>. QED  BY <2>2
  <1>3. inRow(e, c) = inRow(f, c) + (g[c][x] - f[c][x]) /\ inRow(f, c) \in Nat
    <2>1. inRow(e, c) = inRow(f, c) + (e[c][x] - f[c][x]) /\ inRow(f, c) \in Nat
      BY <1>2, RowPut
    <2>. QED  BY <1>2, <2>1
  <1>4. inRow(g, c) = inRow(e, c) + (g[c][y] - f[c][y])
    <2>1. \A h \in Users \cup {Vault} : h # y => g[c][h] = e[c][h]
      BY <1>2
    <2>2. inRow(g, c) = inRow(e, c) + (g[c][y] - e[c][y])
      BY <2>1, RowPut
    <2>. QED  BY <1>2, <2>2
  <1>. QED  BY <1>1, <1>3, <1>4

(* A transfer between two holders leaves what is in hands.                  *)
LEMMA HandsMoved ==
    ASSUME TypeOK, NEW c \in Colls, NEW x \in Users \cup {Vault},
           NEW y \in Users \cup {Vault}, x # y, NEW k \in Nat, k <= colla[c][x],
           colla' = [colla EXCEPT ![c][x] = @ - k, ![c][y] = @ + k],
           allocatedAmt' = allocatedAmt
    PROVE  \A d \in Colls : inHands(d)' = inHands(d) /\ principal(d)' = principal(d)
  <1>1. PICK f, g : f = colla /\ g = colla'
    OBVIOUS
  <1>2. f \in Ledger /\ k \in Nat /\ k <= f[c][x]
        /\ g = [f EXCEPT ![c][x] = @ - k, ![c][y] = @ + k]
    BY <1>1 DEF TypeOK, Ledger
  <1>3. f[c][x] \in Nat /\ f[c][y] \in Nat /\ f[c][x] - k \in Nat /\ f[c][y] + k \in Nat
    BY <1>2 DEF Ledger
  <1>4. /\ g \in Ledger
        /\ g[c][x] = f[c][x] - k /\ g[c][y] = f[c][y] + k
        /\ \A h \in Users \cup {Vault} : h # x /\ h # y => g[c][h] = f[c][h]
        /\ \A e \in Colls \ {c} : g[e] = f[e]
    BY <1>2, <1>3 DEF Ledger
  <1>5. g[c][x] + g[c][y] = f[c][x] + f[c][y]
    BY <1>3, <1>4
  <1>6. inRow(g, c) = inRow(f, c)
    <2>1. /\ f \in Ledger /\ g \in Ledger /\ c \in Colls
          /\ x \in Users \cup {Vault} /\ y \in Users \cup {Vault} /\ x # y
      BY <1>2, <1>4
    <2>2. \A h \in Users \cup {Vault} : h # x /\ h # y => g[c][h] = f[c][h]
      BY <1>4
    <2>. QED  BY ONLY <1>5, <2>1, <2>2, RowMoved
  <1>7. \A d \in Colls : inRow(g, d) = inRow(f, d)
    BY <1>4, <1>6 DEF inRow
  <1>. QED  BY <1>1, <1>7 DEF inRow, inHands, principal, Supporting

(* A payout of a strategy puts into somebody's hands what the principal     *)
(* falls by, or more.                                                       *)
LEMMA WithdrawalAccounted ==
    ASSUME TypeOK, TypeOK', Accounted, NEW s \in Strats, NEW amount \in Nat, NEW got \in Nat,
           NEW to \in Users \cup {Vault}, withdraw(s, amount, got, to)
    PROVE  Accounted'
  <1>. DEFINE hands == Users \cup {Vault}
  <1>1. colla \in Ledger /\ Supports[s] \in Colls
    BY VaultAssumption DEF TypeOK, Ledger
  <1>2. PICK g : g = colla' /\ g = [colla EXCEPT ![Supports[s]][to] = @ + got]
    BY DEF withdraw
  <1>3. PICK a : a = allocatedAmt'
    OBVIOUS
  <1>4. \A c \in Colls :
           SumFunctionOnSet(g[c], hands) =
              IF c = Supports[s] THEN SumFunctionOnSet(colla[c], hands) + got
                                 ELSE SumFunctionOnSet(colla[c], hands)
    <2>1. PICK f, c : f = colla /\ c = Supports[s]
      OBVIOUS
    <2>2. f \in Ledger /\ c \in Colls /\ g = [f EXCEPT ![c][to] = @ + got]
      BY <1>1, <1>2, <2>1
    <2>3. f[c][to] \in Nat /\ f[c][to] + got \in Nat
      BY <2>2 DEF Ledger
    <2>4. /\ g \in Ledger /\ g[c][to] = f[c][to] + got
          /\ \A h \in Users \cup {Vault} : h # to => g[c][h] = f[c][h]
          /\ \A e \in Colls \ {c} : g[e] = f[e]
      BY <2>2, <2>3 DEF Ledger
    <2>5. inRow(g, c) = inRow(f, c) + (g[c][to] - f[c][to]) /\ inRow(f, c) \in Nat
      <3>1. /\ f \in Ledger /\ g \in Ledger /\ c \in Colls
            /\ to \in Users \cup {Vault}
        BY <2>2, <2>4
      <3>2. \A h \in Users \cup {Vault} : h # to => g[c][h] = f[c][h]
        BY <2>4
      <3>. QED  BY ONLY <3>1, <3>2, RowPut
    <2>6. inRow(g, c) = inRow(f, c) + got
      BY <2>3, <2>4, <2>5
    <2>. QED  BY <2>1, <2>4, <2>6 DEF inRow
  <1>5. /\ allocatedAmt \in [Strats -> Nat]
        /\ a = [allocatedAmt EXCEPT ![s] = principalLess(s, amount, got)]
    BY <1>3 DEF withdraw, TypeOK
  <1>6. principalLess(s, amount, got) \in Nat
        /\ allocatedAmt[s] <= principalLess(s, amount, got) + got
    BY <1>5 DEF principalLess, trySub
  <1>. HIDE DEF principalLess
  <1>7. /\ a \in [Strats -> Nat] /\ allocatedAmt[s] <= a[s] + got
        /\ \A r \in Strats \ {s} : a[r] = allocatedAmt[r]
    BY <1>5, <1>6
  <1>8. ASSUME NEW c \in Colls
        PROVE  inHands(c) + principal(c) <= inHands(c)' + principal(c)'
    <2>1. /\ inHands(c)' = SumFunctionOnSet(g[c], hands)
          /\ principal(c)' = SumFunctionOnSet(a, Supporting(c))
      BY <1>2, <1>3, SumsAfter
    <2>2. /\ IsFiniteSet(hands) /\ IsFiniteSet(Supporting(c)) /\ Supporting(c) \subseteq Strats
          /\ inHands(c) \in Nat /\ principal(c) \in Nat
      BY AccountFacts
    <2>3. inHands(c) = SumFunctionOnSet(colla[c], hands)
          /\ principal(c) = SumFunctionOnSet(allocatedAmt, Supporting(c))
      BY DEF inHands, principal
    <2>4. \A r \in Supporting(c) : allocatedAmt[r] \in Nat /\ a[r] \in Nat
      BY <1>5, <1>7, <2>2
    <2>. HIDE DEF hands
    <2>5. CASE c = Supports[s]
      <3>1. s \in Supporting(c) /\ a[s] - allocatedAmt[s] \in Int
            /\ a[s] = allocatedAmt[s] + (a[s] - allocatedAmt[s])
            /\ \A r \in Supporting(c) : r # s => a[r] = allocatedAmt[r]
        BY <1>5, <1>7, <2>2, <2>5 DEF Supporting
      <3>2. PICK k \in Int : k = a[s] - allocatedAmt[s] /\ a[s] = allocatedAmt[s] + k
        BY <3>1
      <3>3. SumFunctionOnSet(a, Supporting(c))
               = SumFunctionOnSet(allocatedAmt, Supporting(c)) + k
        BY <2>2, <2>4, <3>1, <3>2, SumPut
      <3>4. 0 <= k + got
        BY <1>5, <1>7, <3>2
      <3>5. SumFunctionOnSet(g[c], hands) = SumFunctionOnSet(colla[c], hands) + got
        BY <1>4, <2>5
      <3>6. inHands(c)' = inHands(c) + got /\ principal(c)' = principal(c) + k
        BY <2>1, <2>3, <3>3, <3>5
      <3>. QED  BY <2>2, <3>4, <3>6
    <2>6. CASE c # Supports[s]
      <3>1. inHands(c)' = inHands(c)
        BY <1>4, <2>1, <2>3, <2>6
      <3>2. \A r \in Supporting(c) : allocatedAmt[r] \in Int /\ a[r] = allocatedAmt[r]
        BY <1>7, <2>2, <2>4, <2>6 DEF Supporting
      <3>3. SumFunctionOnSet(allocatedAmt, Supporting(c)) = SumFunctionOnSet(a, Supporting(c))
        BY <2>2, <3>2, SumSame
      <3>. QED  BY <2>1, <2>2, <2>3, <3>1, <3>3
    <2>. QED  BY <2>5, <2>6
  <1>. QED  BY <1>8, AccountedNext

(* allocate makes principal of what leaves the vault.                       *)
LEMMA AllocateAccounted ==
    ASSUME TypeOK, TypeOK', Accounted, Allocate
    PROVE  Accounted'
  <1>. DEFINE hands == Users \cup {Vault}
  <1>1. /\ \A c \in Colls : toAllocate(c) \in Nat
        /\ \A s \in Strats : allocatedTo(s) \in Nat
    BY AllocateTypes
  <1>2. PICK g : g = colla' /\ g = [c \in Colls |-> [colla[c] EXCEPT ![Vault] = @ - toAllocate(c)]]
    BY DEF Allocate
  <1>3. PICK a : a = allocatedAmt' /\ a = [s \in Strats |-> allocatedAmt[s] + allocatedTo(s)]
    BY DEF Allocate
  <1>4. ASSUME NEW c \in Colls
        PROVE  inHands(c) + principal(c) <= inHands(c)' + principal(c)'
    <2>. DEFINE n == toAllocate(c)
                before == colla[c]
                after == g[c]
    <2>1. /\ inHands(c)' = SumFunctionOnSet(after, hands)
          /\ principal(c)' = SumFunctionOnSet(a, Supporting(c))
      BY <1>2, <1>3, SumsAfter
    <2>2. /\ IsFiniteSet(hands) /\ IsFiniteSet(Supporting(c)) /\ Supporting(c) \subseteq Strats
          /\ inHands(c) \in Nat /\ principal(c) \in Nat
      BY AccountFacts
    <2>3. n \in Nat /\ before \in [hands -> Nat] /\ after = [before EXCEPT ![Vault] = @ - n]
      BY <1>1, <1>2 DEF TypeOK
    <2>4. inHands(c) = SumFunctionOnSet(before, hands)
      BY DEF inHands
    <2>. HIDE DEF n, before, after
    <2>5. SumFunctionOnSet(after, hands) = SumFunctionOnSet(before, hands) - n
      <3>1. /\ \A h \in hands : before[h] \in Int /\ after[h] \in Int
            /\ \A h \in hands \ {Vault} : after[h] = before[h]
            /\ after[Vault] = before[Vault] - n /\ before[Vault] \in Int /\ Vault \in hands
        BY <2>3
      <3>2. SumFunctionOnSet(after, hands)
               = SumFunctionOnSet(before, hands) + after[Vault] - before[Vault]
        BY <2>2, <3>1, SumChange
      <3>. QED  BY <2>2, <2>3, <2>4, <3>1, <3>2
    <2>6. /\ \A s \in Supporting(c) : allocatedAmt[s] \in Nat /\ a[s] \in Nat
          /\ \A s \in Supporting(c) : a[s] = allocatedAmt[s] + allocatedTo(s)
          /\ \A s \in Supporting(c) : allocatedTo(s) \in Nat
      BY <1>1, <1>3, <2>2 DEF TypeOK
    <2>7. SumFunctionOnSet(allocatedAmt, Supporting(c)) + n
             <= SumFunctionOnSet(a, Supporting(c))
      <3>1. CASE n = 0
        <4>1. \A s \in Supporting(c) : allocatedAmt[s] \in Int /\ a[s] \in Int
                                        /\ allocatedAmt[s] <= a[s]
          BY <2>6
        <4>2. SumFunctionOnSet(allocatedAmt, Supporting(c))
                 <= SumFunctionOnSet(a, Supporting(c))
          BY <2>2, <4>1, SumMono
        <4>. QED  BY <2>2, <3>1, <4>2 DEF principal
      <3>2. CASE n # 0
        <4>. DEFINE s == strategyOf(c)
        <4>1. s \in Supporting(c) /\ allocatedTo(s) = n
          <5>1. employed(c)
            BY <3>2 DEF n, toAllocate
          <5>2. s \in Strats /\ Supports[s] = c
            BY <5>1 DEF TypeOK, employed, strategyOf, Info
          <5>. QED  BY <5>2 DEF Supporting, allocatedTo, n
        <4>. HIDE DEF s
        <4>. DEFINE b == [r \in Supporting(c) |->
                             IF r = s THEN allocatedAmt[r] + n ELSE allocatedAmt[r]]
        <4>2. /\ \A r \in Supporting(c) : allocatedAmt[r] \in Int /\ b[r] \in Int
              /\ \A r \in Supporting(c) \ {s} : b[r] = allocatedAmt[r]
              /\ b[s] = allocatedAmt[s] + n
              /\ \A r \in Supporting(c) : b[r] \in Int /\ a[r] \in Int /\ b[r] <= a[r]
          BY <2>3, <2>6, <4>1
        <4>. HIDE DEF b
        <4>3. SumFunctionOnSet(b, Supporting(c))
                 = SumFunctionOnSet(allocatedAmt, Supporting(c)) + b[s] - allocatedAmt[s]
          BY <2>2, <4>1, <4>2, SumChange
        <4>4. SumFunctionOnSet(b, Supporting(c)) <= SumFunctionOnSet(a, Supporting(c))
          BY <2>2, <4>2, SumMono
        <4>5. SumFunctionOnSet(a, Supporting(c)) \in Int /\ allocatedAmt[s] \in Int
          BY <2>2, <4>1, <4>2, SumInt
        <4>. QED  BY <2>2, <2>3, <4>2, <4>3, <4>4, <4>5 DEF principal
      <3>. QED  BY <3>1, <3>2
    <2>8. SumFunctionOnSet(a, Supporting(c)) \in Int
      BY <2>2, <2>6, SumInt
    <2>. QED  BY <2>1, <2>2, <2>3, <2>4, <2>5, <2>7, <2>8 DEF principal
  <1>. QED  BY <1>4, AccountedNext

LEMMA PayoutAccounted ==
    ASSUME TypeOK, TypeOK', Accounted, NEW u \in Users, NEW c \in Colls, NEW amount \in Nat,
           \/ fromVault(u, c, amount)
           \/ fromStrategy(u, c, amount)
           \/ fromNowhere(c, amount)
    PROVE  Accounted'
  <1>1. CASE fromVault(u, c, amount)
    <2>1. /\ Vault # u /\ amount <= colla[c][Vault] /\ allocatedAmt' = allocatedAmt
          /\ colla' = [colla EXCEPT ![c][Vault] = @ - amount, ![c][u] = @ + amount]
      BY <1>1, HolderFacts DEF fromVault, TypeOK, strategies
    <2>2. \A d \in Colls : inHands(d)' = inHands(d) /\ principal(d)' = principal(d)
      BY <2>1, HandsMoved
    <2>3. \A d \in Colls : inHands(d) \in Nat /\ principal(d) \in Nat
      BY AccountFacts
    <2>. QED  BY <2>2, <2>3, AccountedNext
  <1>2. CASE fromStrategy(u, c, amount)
    <2>1. strategyOf(c) \in Strats
      BY <1>2 DEF TypeOK, fromStrategy, employed, strategyOf, Info
    <2>2. PICK got \in trySub(amount, Slip) .. amount + Slip :
             withdraw(strategyOf(c), amount, got, u)
      BY <1>2 DEF fromStrategy
    <2>3. got \in Nat
      BY SlipTypes
    <2>. QED  BY <2>1, <2>2, <2>3, WithdrawalAccounted
  <1>3. CASE fromNowhere(c, amount)
    BY <1>3, AccountedKept DEF fromNowhere, strategies
  <1>. QED  BY <1>1, <1>2, <1>3

LEMMA InitAccounted == ASSUME Init, TypeOK PROVE Accounted
  <1>. SUFFICES ASSUME NEW c \in Colls  PROVE brought <= inHands(c) + principal(c)
    BY DEF Accounted
  <1>. DEFINE f == colla[c]
              ones == [u \in Users |-> 1]
              hands == Users \cup {Vault}
              others == hands \ {Vault}
  <1>1. /\ IsFiniteSet(Users \cup {Vault}) /\ inHands(c) \in Nat /\ principal(c) \in Nat
        /\ brought \in Nat /\ IsFiniteSet(Users) /\ Vault \notin Users /\ PurseColla \in Nat
    BY AccountFacts, HolderFacts, BoundTypes, VaultAssumption
  <1>2. f = [h \in Users \cup {Vault} |-> IF h = Vault THEN 0 ELSE PurseColla]
    BY DEF Init
  <1>. HIDE DEF f
  <1>3. SumFunctionOnSet(f, hands) = f[Vault] + SumFunctionOnSet(f, others)
    <2>1. \A h \in hands : f[h] \in Int
      BY <1>1, <1>2
    <2>2. IsFiniteSet(hands) /\ Vault \in hands
      BY <1>1
    <2>. HIDE DEF hands
    <2>. QED  BY <2>1, <2>2, SumRemove
  <1>4. others = Users /\ f[Vault] = 0
    BY <1>1, <1>2
  <1>5. SumFunctionOnSet(ones, Users) * PurseColla <= SumFunctionOnSet(f, Users) * 1
    <2>1. \A u \in Users : f[u] \in Int /\ ones[u] \in Int /\ ones[u] * PurseColla <= f[u] * 1
      BY <1>1, <1>2
    <2>. HIDE DEF ones
    <2>. QED  BY <1>1, <2>1, SumScaled
  <1>6. SumFunctionOnSet(ones, Users) = Cardinality(Users)
    BY <1>1, SumOnes
  <1>7. SumFunctionOnSet(f, Users) \in Int
    <2>1. \A u \in Users : f[u] \in Int
      BY <1>1, <1>2
    <2>. QED  BY <1>1, <2>1, SumInt
  <1>8. inHands(c) = SumFunctionOnSet(f, Users)
    <2>1. inHands(c) = SumFunctionOnSet(f, hands)
      BY DEF inHands, f
    <2>. HIDE DEF hands, others
    <2>. QED  BY <1>3, <1>4, <1>7, <2>1
  <1>9. brought <= SumFunctionOnSet(f, Users)
    BY <1>5, <1>6, <1>7 DEF brought
  <1>. QED  BY <1>1, <1>7, <1>8, <1>9

AccountInv == VInv /\ Accounted

LEMMA NextAccount == AccountInv /\ [Next]_vars => AccountInv'
  <1>. SUFFICES ASSUME AccountInv, [Next]_vars  PROVE AccountInv'
    OBVIOUS
  <1>1. VInv' /\ TypeOK /\ TypeOK' /\ Accounted
    BY NextInv DEF AccountInv, VInv
  <1>. SUFFICES Accounted'
    BY <1>1 DEF AccountInv
  <1>2. ASSUME NEW u \in Users, NEW c \in Colls, NEW n \in Amounts, NEW type \in ValueTypes,
               Mint(u, c, type, n)
        PROVE  Accounted'
    <2>. DEFINE k == MintQuote(c, type, n).collaDeptAmt
    <2>1. k \in Nat
      BY <1>1, <1>2, MintQuoteFacts DEF Mint
    <2>2. /\ k <= colla[c][u] /\ allocatedAmt' = allocatedAmt /\ u # Vault
          /\ colla' = [colla EXCEPT ![c][u] = @ - k, ![c][Vault] = @ + k]
      BY <1>2, HolderFacts DEF Mint, strategies
    <2>. HIDE DEF k
    <2>3. \A d \in Colls : inHands(d)' = inHands(d) /\ principal(d)' = principal(d)
      BY <1>1, <2>1, <2>2, HandsMoved
    <2>4. \A d \in Colls : inHands(d) \in Nat /\ principal(d) \in Nat
      BY <1>1, AccountFacts
    <2>. QED  BY <1>1, <2>3, <2>4, AccountedNext
  <1>3. ASSUME NEW u \in Users, NEW c \in Colls, NEW n \in Amounts, Redeem(u, c, n)
        PROVE  Accounted'
    <2>. DEFINE k == RedeemQuote(c, n).collaUnlockAmt
    <2>1. k \in Nat
      BY <1>1, <1>3, RedeemQuoteFacts DEF Redeem
    <2>2. fromVault(u, c, k) \/ fromStrategy(u, c, k) \/ fromNowhere(c, k)
      BY <1>3 DEF Redeem
    <2>. HIDE DEF k
    <2>. QED  BY <1>1, <2>1, <2>2, PayoutAccounted
  <1>4. ASSUME NEW s \in Strats, NEW n \in Recalls, WithdrawToVault(s, n)  PROVE Accounted'
    <2>1. n \in Nat
      BY VaultAssumption
    <2>2. PICK got \in trySub(n, Slip) .. n + Slip : withdraw(s, n, got, Vault)
      BY <1>4 DEF WithdrawToVault
    <2>3. got \in Nat /\ Vault \in Users \cup {Vault}
      BY <2>1, SlipTypes
    <2>. QED  BY <1>1, <2>1, <2>2, <2>3, WithdrawalAccounted
  <1>5. CASE Allocate
    BY <1>1, <1>5, AllocateAccounted
  <1>6. ASSUME colla' = colla, allocatedAmt' = allocatedAmt  PROVE Accounted'
    BY <1>1, <1>6, AccountedKept
  <1>7. CASE Rebase
    BY <1>6, <1>7 DEF Rebase
  <1>8. ASSUME NEW u \in Users, NEW n \in Sales, Sell(u, n)  PROVE Accounted'
    BY <1>6, <1>8 DEF Sell, strategies
  <1>9. ASSUME NEW c \in Colls, NEW i \in Infos[c],
               AddCollateral(c, i) \/ UpdateCollateralInfo(c, i)
        PROVE  Accounted'
    BY <1>6, <1>9 DEF AddCollateral, UpdateCollateralInfo, tokens, strategies
  <1>10. ASSUME NEW s \in Strats,
                \/ AddStrategy(s)
                \/ \E b \in BOOLEAN : UpdateStrategyRwdBuybackAddr(s, b)
                \/ \E n \in Worths : CurveMoves(s, n)
                \/ RewardsAccrue(s)
         PROVE  Accounted'
    <2>1. colla' = colla /\ allocatedAmt' = allocatedAmt
      BY <1>10 DEF AddStrategy, UpdateStrategyRwdBuybackAddr, setStrategy, CurveMoves,
                   RewardsAccrue, tokens, strategies
    <2>. QED  BY <1>6, <2>1
  <1>11. ASSUME \/ \E b \in BOOLEAN : \/ UpdateMintBurnPermission(b)
                                      \/ UpdateAllocationPermission(b)
                                      \/ UpdateRebasePermission(b)
                \/ \E p \in Settings : UpdateParameters(p)
                \/ \E in, out \in BOOLEAN : UpdateSwapInOutFeePermission(in, out)
                \/ \E m \in Markets : MarketMoves(m)
                \/ BlocksPass
                \/ UNCHANGED vars
         PROVE  Accounted'
    <2>1. colla' = colla /\ allocatedAmt' = allocatedAmt
      BY <1>11 DEF UpdateMintBurnPermission, UpdateAllocationPermission,
                   UpdateRebasePermission, UpdateParameters, UpdateSwapInOutFeePermission,
                   MarketMoves, BlocksPass, vars, tokens, strategies
    <2>. QED  BY <1>6, <2>1
  <1>. QED  BY <1>1, <1>2, <1>3, <1>4, <1>5, <1>7, <1>8, <1>9, <1>10, <1>11
            DEF Next

(* A harvest leaves a strategy all that users brought and that is neither   *)
(* in hands nor another strategy's principal: interest is told from         *)
(* principal over any sequence of allocations, recalls, redemptions, gains  *)
(* and losses (_harvestInterest, TwoPoolStrategy._withdraw).                *)
THEOREM HarvestsSpareDeposits == Spec => HarvestSparesDeposits
  <1>1. Spec => []AccountInv
    <2>1. Init => AccountInv
      BY InitInv, InitAccounted DEF AccountInv, VInv
    <2>. QED  BY <2>1, NextAccount, PTL DEF Spec
  <1>2. ASSUME AccountInv, Rebase, NEW s \in Strats, collects(s)
        PROVE  funds'[s] + principalElsewhere(s) + inHands(Supports[s]) >= brought
    <2>. DEFINE c == Supports[s]
    <2>1. TypeOK /\ c \in Colls /\ Accounted
      BY <1>2, VaultAssumption DEF AccountInv, VInv
    <2>2. funds'[s] = allocatedAmt[s] /\ allocatedAmt[s] \in Nat
      <3>1. funds[s] \in Nat /\ allocatedAmt[s] \in Nat /\ interestOf(s) > 0
        <4>1. interestOf(s) \in Nat /\ interestOf(s) > InterestThreshold
          BY <1>2, <2>1, InterestTyped DEF collects
        <4>2. funds[s] \in Nat /\ allocatedAmt[s] \in Nat
          BY <2>1 DEF TypeOK
        <4>. QED  BY <4>1, <4>2, BoundTypes
      <3>2. funds[s] - interestOf(s) = allocatedAmt[s]
        BY <3>1 DEF interestOf, trySub
      <3>3. funds'[s] = funds[s] - interestOf(s)
        BY <1>2 DEF Rebase
      <3>. QED  BY <3>1, <3>2, <3>3
    <2>3. principal(c) = allocatedAmt[s] + principalElsewhere(s)
          /\ principalElsewhere(s) \in Int
      <3>1. s \in Supporting(c) /\ IsFiniteSet(Supporting(c)) /\ Supporting(c) \subseteq Strats
        BY <2>1, AccountFacts DEF Supporting
      <3>2. \A r \in Supporting(c) : allocatedAmt[r] \in Int
        BY <2>1, <3>1 DEF TypeOK
      <3>3. Supporting(c) \ {s} = {r \in Strats \ {s} : Supports[r] = Supports[s]}
        BY DEF Supporting
      <3>4. principal(c) = allocatedAmt[s] + SumFunctionOnSet(allocatedAmt, Supporting(c) \ {s})
        BY <3>1, <3>2, SumRemove DEF principal
      <3>5. SumFunctionOnSet(allocatedAmt, Supporting(c) \ {s}) \in Int
        BY <3>1, <3>2, SumInt
      <3>. QED  BY <3>3, <3>4, <3>5 DEF principalElsewhere
    <2>4. brought <= inHands(c) + principal(c) /\ inHands(c) \in Nat /\ brought \in Nat
      BY <2>1, AccountFacts DEF Accounted
    <2>. HIDE DEF c
    <2>5. funds'[s] + principalElsewhere(s) + inHands(c) >= brought
      BY <2>2, <2>3, <2>4
    <2>. QED  BY <2>5 DEF c
  <1>3. AccountInv /\ [Next]_vars => [Rebase => \A s \in Strats : collects(s) =>
            funds'[s] + principalElsewhere(s) + inHands(Supports[s]) >= brought]_vars
    BY <1>2
  <1>. QED  BY <1>1, <1>3, PTL DEF Spec, HarvestSparesDeposits

(* What a rebase buys reaches the wallets that rebase but for one unit of   *)
(* each, and takes nothing from anybody but the pool (rebase).              *)
THEOREM RebaseDistributes == Spec => EarningsReachHolders
  <1>1. ASSUME VInv, Rebase
        PROVE  /\ gained + Cardinality(Rebasing) >= bought
               /\ \A h \in Holders \ {Pool} : usds'[h] >= usds[h]
               /\ usds'[Vault] = usds[Vault]
    <2>1. PICK inc \in Nat :
             /\ usds' \in [Holders -> Nat]
             /\ usds'[Vault] = usds[Vault] /\ usds'[Pool] = usds[Pool] - inc
             /\ \A h \in Rebasing : usds[h] <= usds'[h]
             /\ totalSupply' = totalSupply + inc
             /\ inc > 0 => totalSupply' <= SumFunctionOnSet(usds', Holders)
                                            + Cardinality(Rebasing)
      BY <1>1, RebaseFacts
    <2>2. /\ usds \in [Holders -> Nat] /\ totalSupply \in Nat
          /\ SumFunctionOnSet(usds, Holders) <= totalSupply
      BY <1>1 DEF VInv, TypeOK
    <2>3. usds[Pool] \in Nat /\ usds[Vault] \in Nat
      BY <2>2, HolderFacts
    <2>4. PICK r, g : r = usds' /\ g = [h \in Rebasing |-> usds'[h] - usds[h]]
      OBVIOUS
    <2>5. \A h \in Rebasing : /\ usds[h] \in Int /\ g[h] \in Int
                              /\ r[h] = usds[h] + g[h] /\ 0 <= g[h]
      BY <2>1, <2>2, <2>4, HolderFacts
    <2>6. SumFunctionOnSet(r, Rebasing)
             = SumFunctionOnSet(usds, Rebasing) + SumFunctionOnSet(g, Rebasing)
      BY <2>5, HolderFacts, SumAdd
    <2>7. /\ SumFunctionOnSet(r, Holders) = SumFunctionOnSet(r, Rebasing) + r[Vault] + r[Pool]
          /\ SumFunctionOnSet(usds, Holders)
                = SumFunctionOnSet(usds, Rebasing) + usds[Vault] + usds[Pool]
          /\ SumFunctionOnSet(usds, Rebasing) \in Int
      BY <2>1, <2>2, <2>4, HoldersSum
    <2>8. SumFunctionOnSet(g, Rebasing) \in Nat
      BY <2>5, HolderFacts, SumNat
    <2>9. Cardinality(Rebasing) \in Nat
      BY HolderFacts, FS_CardinalityType
    <2>10. gained = SumFunctionOnSet(g, Rebasing) /\ bought = inc
      BY <2>1, <2>3, <2>4 DEF gained, bought
    <2>11. SumFunctionOnSet(g, Rebasing) + Cardinality(Rebasing) >= inc
      <3>1. CASE inc = 0
        BY <2>8, <2>9, <3>1
      <3>2. CASE inc > 0
        BY <2>1, <2>2, <2>3, <2>4, <2>6, <2>7, <2>8, <2>9, <3>2
      <3>. QED  BY <3>1, <3>2
    <2>12. \A h \in Holders \ {Pool} : usds'[h] >= usds[h]
      BY <2>1, <2>3, HolderFacts
    <2>. QED  BY <2>1, <2>10, <2>11, <2>12
  <1>2. VInv /\ [Next]_vars =>
           [Rebase => /\ gained + Cardinality(Rebasing) >= bought
                      /\ \A h \in Holders \ {Pool} : usds'[h] >= usds[h]
                      /\ usds'[Vault] = usds[Vault]]_vars
    BY <1>1
  <1>. QED  BY <1>2, VInvHolds, PTL DEF Spec, EarningsReachHolders

(* A redemption that finds its collateral in the vault or in a default      *)
(* strategy which supports it pays what it quotes, but for what Curve may   *)
(* keep (_redeem).                                                          *)
THEOREM RedemptionsPay == Spec => RedeemPays
  <1>1. ASSUME VInv, NEW u \in Users, NEW c \in Colls, NEW n \in Amounts, Redeem(u, c, n),
               strategyOf(c) # NoStrat => employed(c)
        PROVE  paid(u, c) + Slip >= RedeemQuote(c, n).collaUnlockAmt
    <2>. DEFINE k == RedeemQuote(c, n).collaUnlockAmt
    <2>1. k \in Nat
      BY <1>1, RedeemQuoteFacts DEF VInv, Redeem
    <2>2. fromVault(u, c, k) \/ fromStrategy(u, c, k) \/ fromNowhere(c, k)
      BY <1>1 DEF Redeem
    <2>. HIDE DEF k
    <2>3. colla \in Ledger /\ Vault # u /\ Slip \in Nat /\ colla[c][u] \in Nat
      <3>1. colla \in Ledger
        BY <1>1 DEF VInv, TypeOK, Ledger
      <3>2. Vault # u /\ Slip \in Nat
        BY HolderFacts, BoundTypes
      <3>. QED  BY <3>1, <3>2 DEF Ledger
    <2>4. CASE fromVault(u, c, k)
      <3>1. /\ k <= colla[c][Vault]
            /\ colla' = [colla EXCEPT ![c][Vault] = @ - k, ![c][u] = @ + k]
        BY <2>4 DEF fromVault
      <3>2. colla'[c][u] = colla[c][u] + k
        BY <2>1, <2>3, <3>1 DEF Ledger
      <3>. QED  BY <2>1, <2>3, <3>2 DEF paid, k
    <2>5. CASE fromStrategy(u, c, k)
      <3>1. Supports[strategyOf(c)] = c
        BY <2>5 DEF fromStrategy, employed
      <3>2. PICK got \in trySub(k, Slip) .. k + Slip : withdraw(strategyOf(c), k, got, u)
        BY <2>5 DEF fromStrategy
      <3>3. got \in Nat /\ got + Slip >= k
        BY <2>1, SlipTypes
      <3>4. colla' = [colla EXCEPT ![c][u] = @ + got]
        BY <3>1, <3>2 DEF withdraw
      <3>5. colla'[c][u] = colla[c][u] + got
        BY <2>3, <3>3, <3>4, Credited
      <3>. QED  BY <2>1, <2>3, <3>3, <3>5 DEF paid, k
    <2>6. CASE fromNowhere(c, k)
      BY <1>1, <2>6 DEF fromNowhere
    <2>. QED  BY <2>2, <2>4, <2>5, <2>6
  <1>2. VInv /\ [Next]_vars =>
           [\A u \in Users, c \in Colls, n \in Amounts :
               (Redeem(u, c, n) /\ (strategyOf(c) # NoStrat => employed(c))) =>
                   paid(u, c) + Slip >= RedeemQuote(c, n).collaUnlockAmt]_vars
    BY <1>1
  <1>. QED  BY <1>2, VInvHolds, PTL DEF Spec, RedeemPays

(* The share p of what strategy (f) and vault (v) hold, after t of the      *)
(* vault has moved and up to x of it got lost.                              *)
LEMMA ShareSettles ==
    ASSUME NEW f \in Nat, NEW v \in Nat, NEW p \in Nat, NEW x \in Nat, NEW lost \in 0 .. x,
           NEW t, t = trySub(((f + v) * p) \div 100, f), t <= v
    PROVE  LET g == f + trySub(t, lost)
               w == v - t
           IN  /\ trySub(((g + w) * p) \div 100, g) <= x
               /\ t > 0 => w * 100 >= (100 - p) * (v + f)
  <1>. DEFINE o == ((f + v) * p) \div 100
              g == f + trySub(t, lost)
              w == v - t
              o2 == ((g + w) * p) \div 100
  <1>1. f + v \in Nat /\ (f + v) * p \in Nat
    BY MulNat
  <1>2. o \in Nat /\ o * 100 <= (f + v) * p
    BY <1>1, DivFacts
  <1>3. t = trySub(o, f)
    OBVIOUS
  <1>. HIDE DEF o
  <1>4. t \in Nat
    BY <1>2, <1>3 DEF trySub
  <1>5. g \in Nat /\ w \in Nat /\ g + w \in Nat /\ g + w <= f + v
    BY <1>4 DEF trySub
  <1>6. g >= f /\ g + x >= f + t
    BY <1>4 DEF trySub
  <1>. HIDE DEF g, w
  <1>7. (g + w) * p \in Nat /\ (g + w) * p <= (f + v) * p
    BY <1>1, <1>5, MulNat, MulMono
  <1>8. o2 \in Nat /\ o2 <= o
    BY <1>1, <1>7, DivMono, DivFacts DEF o
  <1>. HIDE DEF o2
  <1>9. trySub(o2, g) <= x
    BY <1>2, <1>3, <1>4, <1>5, <1>6, <1>8 DEF trySub
  <1>10. ASSUME t > 0  PROVE w * 100 >= (100 - p) * (v + f)
    <2>1. t = o - f
      BY <1>2, <1>3, <1>10 DEF trySub
    <2>2. w * 100 = (v + f) * 100 - o * 100
      BY <1>2, <2>1 DEF w
    <2>3. (100 - p) * (v + f) = (v + f) * 100 - (f + v) * p
      BY SMT
    <2>4. (v + f) * 100 \in Nat
      BY MulNat
    <2>. QED  BY <1>1, <1>2, <2>2, <2>3, <2>4
  <1>. QED  BY <1>9, <1>10 DEF g, w, o2

(* After allocate nothing more is to be allocated but for what Curve kept,  *)
(* and of what it moved from the vault keeps its share (allocate).          *)
THEOREM AllocationSettles == Spec => AllocateSettles
  <1>1. ASSUME VInv, Allocate, NEW c \in Colls
        PROVE  /\ toAllocate(c)' <= Slip
               /\ toAllocate(c) > 0 =>
                     colla'[c][Vault] * 100 >=
                        (100 - collateralsInfo[c].allocatePercentage)
                           * (colla[c][Vault] + funds[strategyOf(c)])
    <2>0. TypeOK /\ Slip \in Nat /\ collateralsInfo' = collateralsInfo
      BY <1>1, BoundTypes DEF VInv, Allocate, settings
    <2>. DEFINE works == c \in added /\ employed(c) /\ collateralsInfo[c].allocationAllowed
    <2>1. CASE ~works
      <3>1. toAllocate(c) = 0
        BY <2>1 DEF toAllocate
      <3>2. toAllocate(c)' = 0
        BY <2>0, <2>1 DEF toAllocate, added, employed, strategyOf
      <3>. QED  BY <2>0, <3>1, <3>2
    <2>2. CASE works
      <3>. DEFINE s == strategyOf(c)
                  p == collateralsInfo[c].allocatePercentage
                  t == toAllocate(c)
                  f == funds[s]
                  v == colla[c][Vault]
      <3>1. s \in Strats /\ Supports[s] = c /\ p \in Nat
        <4>1. collateralsInfo[c] \in Info
          BY <2>0 DEF TypeOK
        <4>2. /\ collateralsInfo[c].defaultStrategyAddr \in Strats \cup {NoStrat}
              /\ collateralsInfo[c].allocatePercentage \in 0 .. 255
          BY <4>1 DEF Info
        <4>. QED  BY <2>2, <4>2 DEF employed, strategyOf
      <3>2. f \in Nat /\ v \in Nat
        BY <2>0, <3>1 DEF TypeOK
      <3>3. t = trySub(((f + v) * p) \div 100, f) /\ t <= v
        BY <1>1, <2>2 DEF toAllocate, optimal, Allocate
      <3>4. allocatedTo(s) = t
        BY <3>1 DEF allocatedTo
      <3>5. PICK lost \in [Strats -> 0 .. Slip] :
               funds' = [k \in Strats |-> funds[k] + trySub(allocatedTo(k), lost[k])]
        BY <1>1 DEF Allocate
      <3>6. funds'[s] = f + trySub(t, lost[s])
        BY <3>1, <3>4, <3>5
      <3>7. colla'[c][Vault] = v - t
        <4>1. colla' = [d \in Colls |-> [colla[d] EXCEPT ![Vault] = @ - toAllocate(d)]]
          BY <1>1 DEF Allocate
        <4>2. colla'[c] = [colla[c] EXCEPT ![Vault] = @ - t]
          BY <4>1
        <4>3. colla[c] \in [Users \cup {Vault} -> Nat]
          BY <2>0 DEF TypeOK
        <4>. HIDE DEF t
        <4>. QED  BY <4>2, <4>3
      <3>8. toAllocate(c)' = trySub(((funds'[s] + colla'[c][Vault]) * p) \div 100, funds'[s])
        BY <2>0, <2>2 DEF toAllocate, optimal, added, employed, strategyOf
      <3>9. lost[s] \in 0 .. Slip
        BY <3>1, <3>5
      <3>. HIDE DEF s, p, t, f, v
      <3>10. /\ toAllocate(c)' <= Slip
             /\ t > 0 => colla'[c][Vault] * 100 >= (100 - p) * (v + f)
        BY <2>0, <3>1, <3>2, <3>3, <3>6, <3>7, <3>8, <3>9, ShareSettles
      <3>. QED  BY <3>10 DEF s, p, t, f, v
    <2>. QED  BY <2>1, <2>2
  <1>2. VInv /\ [Next]_vars =>
           [Allocate => \A c \in Colls :
               /\ toAllocate(c)' <= Slip
               /\ toAllocate(c) > 0 =>
                     colla'[c][Vault] * 100 >=
                        (100 - collateralsInfo[c].allocatePercentage)
                           * (colla[c][Vault] + funds[strategyOf(c)])]_vars
    BY <1>1
  <1>. QED  BY <1>2, VInvHolds, PTL DEF Spec, AllocateSettles

-----------------------------------------------------------------------------
(* What amounts are worth.                                                  *)

(* No price of a token moves; that of USDs and the flows may.               *)
SteadyPrices == \A m1, m2 \in Markets : /\ m1.priceSPA = m2.priceSPA
                                        /\ m1.priceColla = m2.priceColla

LEMMA WorthFacts ==
    ASSUME TypeOK, NEW c \in Colls, NEW x \in Int, NEW y \in Int
    PROVE  /\ worthOfColla(x, reading(c)) \in Int /\ worthOfSPA(x, reading(c)) \in Int
           /\ worthOfUSDs(x) \in Int
           /\ x >= 0 => /\ worthOfColla(x, reading(c)) \in Nat
                        /\ worthOfSPA(x, reading(c)) \in Nat
                        /\ worthOfUSDs(x) \in Nat
           /\ worthOfColla(x + y, reading(c))
                 = worthOfColla(x, reading(c)) + worthOfColla(y, reading(c))
           /\ worthOfSPA(x + y, reading(c))
                 = worthOfSPA(x, reading(c)) + worthOfSPA(y, reading(c))
           /\ worthOfUSDs(x + y) = worthOfUSDs(x) + worthOfUSDs(y)
           /\ Dust(reading(c)) \in Nat
  <1>. DEFINE a == reading(c).priceSPA
              b == reading(c).priceColla
  <1>1. a \in Nat /\ b \in Nat
    BY ReadingNow, MarketTypes
  <1>. HIDE DEF a, b
  <1>. DEFINE e == CollaScale * b * SPAPrec
              f == a * CollaPrec
              g == CollaPrec * SPAPrec
  <1>2. e \in Nat /\ f \in Nat /\ g \in Nat
    BY <1>1, PrecisionTypes, MulNat
  <1>3. \A n \in Int : /\ n * CollaScale * b * SPAPrec = n * e
                       /\ n * a * CollaPrec = n * f
                       /\ n * CollaPrec * SPAPrec = n * g
    BY <1>1, PrecisionTypes, SMT
  <1>. HIDE DEF e, f, g
  <1>4. \A n \in Int : /\ worthOfColla(n, reading(c)) = n * e
                       /\ worthOfSPA(n, reading(c)) = n * f
                       /\ worthOfUSDs(n) = n * g
    BY <1>3 DEF worthOfColla, worthOfSPA, worthOfUSDs, a, b
  <1>5. \A d \in Nat : /\ x * d \in Int /\ (x + y) * d = x * d + y * d
                       /\ x >= 0 => x * d \in Nat
    BY SMT
  <1>6. Dust(reading(c)) = 1 * e + 1 * f
    BY <1>4 DEF Dust
  <1>7. x + y \in Int
    OBVIOUS
  <1>. QED  BY <1>2, <1>4, <1>5, <1>6, <1>7

LEMMA PricesKept ==
    ASSUME SteadyPrices, TypeOK, TypeOK', NEW c \in Colls
    PROVE  /\ \A n : worthOfColla(n, reading(c))' = worthOfColla(n, reading(c))
           /\ \A n : worthOfSPA(n, market)' = worthOfSPA(n, market)
           /\ \A n : worthOfSPA(n, market) = worthOfSPA(n, reading(c))
           /\ Dust(reading(c))' = Dust(reading(c))
  <1>1. market \in Markets /\ market' \in Markets
    BY DEF TypeOK
  <1>2. market'.priceSPA = market.priceSPA /\ market'.priceColla = market.priceColla
    BY <1>1 DEF SteadyPrices
  <1>3. \A m \in Markets :
           /\ [m EXCEPT !.priceColla = m.priceColla[c]].priceSPA = m.priceSPA
           /\ [m EXCEPT !.priceColla = m.priceColla[c]].priceColla = m.priceColla[c]
    BY VaultAssumption
  <1>4. /\ reading(c).priceSPA = market.priceSPA
        /\ reading(c).priceColla = market.priceColla[c]
        /\ reading(c)'.priceSPA = market'.priceSPA
        /\ reading(c)'.priceColla = market'.priceColla[c]
    BY <1>1, <1>3 DEF reading
  <1>. QED  BY <1>2, <1>4 DEF worthOfColla, worthOfSPA, Dust

LEMMA SteadySums ==
    ASSUME SteadyPrices, TypeOK, TypeOK'
    PROVE  dust' = dust /\ purse' = purse
  <1>1. PICK d, e, f, g :
          /\ d = [c \in Colls |-> 3 * Dust(reading(c))]
          /\ e = [c \in Colls |-> 3 * Dust(reading(c))']
          /\ f = [c \in Colls |-> worthOfColla(PurseColla, reading(c))]
          /\ g = [c \in Colls |-> worthOfColla(PurseColla, reading(c))']
    OBVIOUS
  <1>2. d = e /\ f = g
    BY <1>1, PricesKept
  <1>3. /\ dust = SumFunctionOnSet(d, Colls) /\ dust' = SumFunctionOnSet(e, Colls)
    BY <1>1 DEF dust
  <1>4. /\ purse = worthOfSPA(PurseSPA, market) + SumFunctionOnSet(f, Colls)
        /\ purse' = worthOfSPA(PurseSPA, market)' + SumFunctionOnSet(g, Colls)
    BY <1>1 DEF purse
  <1>5. worthOfSPA(PurseSPA, market)' = worthOfSPA(PurseSPA, market)
    <2>1. market \in Markets /\ market' \in Markets
      BY DEF TypeOK
    <2>2. market'.priceSPA = market.priceSPA
      BY <2>1 DEF SteadyPrices
    <2>. QED  BY <2>2 DEF worthOfSPA
  <1>. QED  BY <1>2, <1>3, <1>4, <1>5

LEMMA DustFacts ==
    ASSUME TypeOK
    PROVE  /\ dust \in Nat
           /\ \A c \in Colls : Dust(reading(c)) \in Nat /\ 3 * Dust(reading(c)) <= dust
  <1>1. PICK d : d = [c \in Colls |-> 3 * Dust(reading(c))]
    OBVIOUS
  <1>2. \A c \in Colls : Dust(reading(c)) \in Nat
    BY WorthFacts
  <1>3. \A c \in Colls : d[c] \in Nat /\ d[c] = 3 * Dust(reading(c))
    BY <1>1, <1>2
  <1>4. dust = SumFunctionOnSet(d, Colls)
    BY <1>1 DEF dust
  <1>5. IsFiniteSet(Colls)
    BY VaultAssumption
  <1>. QED  BY <1>2, <1>3, <1>4, <1>5, SumNat, SumMember

(* What Curve may add to a payment is steady too.                           *)
LEMMA WindfallSteady ==
    ASSUME SteadyPrices, TypeOK, TypeOK' PROVE windfall' = windfall
  <1>1. PICK d, e : /\ d = [c \in Colls |-> worthOfColla(Slip, reading(c))]
                    /\ e = [c \in Colls |-> worthOfColla(Slip, reading(c))']
    OBVIOUS
  <1>2. d = e
    BY <1>1, PricesKept
  <1>. QED  BY <1>1, <1>2 DEF windfall

LEMMA WindfallFacts ==
    ASSUME TypeOK
    PROVE  /\ windfall \in Nat
           /\ \A c \in Colls : /\ worthOfColla(Slip, reading(c)) \in Nat
                               /\ worthOfColla(Slip, reading(c)) <= windfall
  <1>1. PICK d : d = [c \in Colls |-> worthOfColla(Slip, reading(c))]
    OBVIOUS
  <1>2. \A c \in Colls : worthOfColla(Slip, reading(c)) \in Nat
    BY BoundTypes, WorthFacts
  <1>3. \A c \in Colls : d[c] \in Nat /\ d[c] = worthOfColla(Slip, reading(c))
    BY <1>1, <1>2
  <1>4. windfall = SumFunctionOnSet(d, Colls)
    BY <1>1 DEF windfall
  <1>5. IsFiniteSet(Colls)
    BY VaultAssumption
  <1>. QED  BY <1>2, <1>3, <1>4, <1>5, SumNat, SumMember

(* What a user's collateral is worth when only that in c has changed.       *)
LEMMA CollaStep ==
    ASSUME SteadyPrices, TypeOK, TypeOK', NEW u \in Users, NEW c \in Colls,
           \A d \in Colls \ {c} : colla'[d][u] = colla[d][u]
    PROVE  /\ collaOf(u) \in Nat
           /\ collaOf(u)' = collaOf(u) + worthOfColla(colla'[c][u], reading(c))
                                - worthOfColla(colla[c][u], reading(c))
  <1>1. PICK f, g :
          /\ f = [d \in Colls |-> worthOfColla(colla[d][u], reading(d))]
          /\ g = [d \in Colls |-> worthOfColla(colla'[d][u], reading(d))]
    OBVIOUS
  <1>2. \A d \in Colls : colla[d][u] \in Nat /\ colla'[d][u] \in Nat
    BY DEF TypeOK
  <1>3. \A d \in Colls : /\ f[d] \in Nat /\ g[d] \in Nat
                         /\ f[d] = worthOfColla(colla[d][u], reading(d))
                         /\ g[d] = worthOfColla(colla'[d][u], reading(d))
    <2>1. ASSUME NEW d \in Colls, NEW n \in Nat  PROVE worthOfColla(n, reading(d)) \in Nat
      BY WorthFacts
    <2>2. \A d \in Colls : /\ worthOfColla(colla[d][u], reading(d)) \in Nat
                           /\ worthOfColla(colla'[d][u], reading(d)) \in Nat
      BY <1>2, <2>1
    <2>. QED  BY <1>1, <2>2
  <1>4. collaOf(u) = SumFunctionOnSet(f, Colls)
    BY <1>1 DEF collaOf
  <1>5. collaOf(u)' = SumFunctionOnSet(g, Colls)
    <2>1. \A d \in Colls : worthOfColla(colla'[d][u], reading(d)')
                               = worthOfColla(colla'[d][u], reading(d))
      BY PricesKept
    <2>2. g = [d \in Colls |-> worthOfColla(colla'[d][u], reading(d)')]
      BY <1>1, <2>1
    <2>3. collaOf(u)' = SumFunctionOnSet(
                           [d \in Colls |-> worthOfColla(colla'[d][u], reading(d)')], Colls)
      BY DEF collaOf
    <2>. QED  BY <2>2, <2>3
  <1>6. \A d \in Colls \ {c} : g[d] = f[d]
    BY <1>3
  <1>7. IsFiniteSet(Colls)
    BY VaultAssumption
  <1>8. SumFunctionOnSet(g, Colls) = SumFunctionOnSet(f, Colls) + g[c] - f[c]
    BY <1>3, <1>6, <1>7, SumChange
  <1>9. SumFunctionOnSet(f, Colls) \in Nat
    BY <1>3, <1>7, SumNat
  <1>. QED  BY <1>3, <1>4, <1>5, <1>8, <1>9

LEMMA WealthStep ==
    ASSUME SteadyPrices, TypeOK, TypeOK', NEW u \in Users, NEW c \in Colls,
           \A d \in Colls \ {c} : colla'[d][u] = colla[d][u]
    PROVE  /\ wealth(u) \in Int
           /\ wealth(u)' = wealth(u)
                 + worthOfUSDs(usds'[u]) - worthOfUSDs(usds[u])
                 + worthOfSPA(spa'[u], reading(c)) - worthOfSPA(spa[u], reading(c))
                 + worthOfColla(colla'[c][u], reading(c)) - worthOfColla(colla[c][u], reading(c))
  <1>1. /\ usds[u] \in Nat /\ usds'[u] \in Nat /\ spa[u] \in Nat /\ spa'[u] \in Nat
        /\ colla[c][u] \in Nat /\ colla'[c][u] \in Nat
    BY HolderFacts DEF TypeOK
  <1>2. /\ worthOfUSDs(usds[u]) \in Int /\ worthOfUSDs(usds'[u]) \in Int
        /\ worthOfSPA(spa[u], reading(c)) \in Int /\ worthOfSPA(spa'[u], reading(c)) \in Int
        /\ worthOfColla(colla[c][u], reading(c)) \in Int
        /\ worthOfColla(colla'[c][u], reading(c)) \in Int
    <2>1. ASSUME NEW n \in Nat
          PROVE  /\ worthOfUSDs(n) \in Int /\ worthOfSPA(n, reading(c)) \in Int
                 /\ worthOfColla(n, reading(c)) \in Int
      BY WorthFacts
    <2>. QED  BY <1>1, <2>1
  <1>3. /\ collaOf(u) \in Nat
        /\ collaOf(u)' = collaOf(u) + worthOfColla(colla'[c][u], reading(c))
                             - worthOfColla(colla[c][u], reading(c))
    BY CollaStep
  <1>4. wealth(u) = worthOfUSDs(usds[u]) + worthOfSPA(spa[u], reading(c)) + collaOf(u)
    BY PricesKept DEF wealth
  <1>5. wealth(u)' = worthOfUSDs(usds'[u]) + worthOfSPA(spa'[u], reading(c)) + collaOf(u)'
    <2>1. wealth(u)' = worthOfUSDs(usds'[u]) + worthOfSPA(spa'[u], market') + collaOf(u)'
      BY DEF wealth
    <2>2. worthOfSPA(spa'[u], market') = worthOfSPA(spa'[u], reading(c))
      BY PricesKept
    <2>. QED  BY <2>1, <2>2
  <1>. QED  BY <1>2, <1>3, <1>4, <1>5

(* A user whose SPA and collateral stay where they are.                     *)
LEMMA WealthKept ==
    ASSUME SteadyPrices, TypeOK, TypeOK', NEW u \in Users, usds'[u] <= usds[u],
           spa'[u] = spa[u], \A d \in Colls : colla'[d][u] = colla[d][u]
    PROVE  wealth(u)' <= wealth(u) /\ wealth(u) \in Int /\ wealth(u)' \in Int
  <1>1. /\ usds[u] \in Nat /\ usds'[u] \in Nat /\ spa[u] \in Nat
        /\ market \in Markets /\ market' \in Markets
    BY HolderFacts DEF TypeOK
  <1>2. /\ worthOfUSDs(usds'[u]) <= worthOfUSDs(usds[u])
        /\ worthOfUSDs(usds[u]) \in Nat /\ worthOfUSDs(usds'[u]) \in Nat
    <2>. DEFINE g == CollaPrec * SPAPrec
    <2>1. g \in Nat
      BY MulNat, PrecisionTypes
    <2>2. \A n \in Nat : n * CollaPrec * SPAPrec = n * g
      BY PrecisionTypes, SMT
    <2>. HIDE DEF g
    <2>3. \A n \in Nat : worthOfUSDs(n) = n * g
      BY <2>2 DEF worthOfUSDs
    <2>. QED  BY <1>1, <2>1, <2>3, MulNat, MulMono
  <1>3. /\ worthOfSPA(spa'[u], market') = worthOfSPA(spa[u], market)
        /\ worthOfSPA(spa[u], market) \in Nat
    <2>1. market'.priceSPA = market.priceSPA
      BY <1>1 DEF SteadyPrices
    <2>2. market.priceSPA \in Nat
      BY <1>1, VaultAssumption
    <2>3. spa[u] * market.priceSPA * CollaPrec \in Nat
      BY <1>1, <2>2, MulNat, PrecisionTypes
    <2>. QED  BY <2>1, <2>3 DEF worthOfSPA
  <1>4. collaOf(u)' = collaOf(u) /\ collaOf(u) \in Nat
    <2>1. PICK f, g :
            /\ f = [d \in Colls |-> worthOfColla(colla[d][u], reading(d))]
            /\ g = [d \in Colls |-> worthOfColla(colla'[d][u], reading(d)')]
      OBVIOUS
    <2>2. \A d \in Colls : worthOfColla(colla'[d][u], reading(d)')
                               = worthOfColla(colla[d][u], reading(d))
      BY PricesKept
    <2>3. f = g
      BY <2>1, <2>2
    <2>4. collaOf(u) = SumFunctionOnSet(f, Colls) /\ collaOf(u)' = SumFunctionOnSet(g, Colls)
      BY <2>1 DEF collaOf
    <2>5. \A d \in Colls : f[d] \in Nat
      <3>1. \A d \in Colls : colla[d][u] \in Nat
        BY DEF TypeOK
      <3>2. ASSUME NEW d \in Colls, NEW n \in Nat  PROVE worthOfColla(n, reading(d)) \in Nat
        BY WorthFacts
      <3>. QED  BY <2>1, <3>1, <3>2
    <2>6. IsFiniteSet(Colls)
      BY VaultAssumption
    <2>. QED  BY <2>3, <2>4, <2>5, <2>6, SumNat
  <1>5. /\ wealth(u) = worthOfUSDs(usds[u]) + worthOfSPA(spa[u], market) + collaOf(u)
        /\ wealth(u)' = worthOfUSDs(usds'[u]) + worthOfSPA(spa'[u], market') + collaOf(u)'
    BY DEF wealth
  <1>. QED  BY <1>2, <1>3, <1>4, <1>5

LEMMA PurseTyped == ASSUME TypeOK PROVE purse \in Nat
  <1>1. PICK f : f = [c \in Colls |-> worthOfColla(PurseColla, reading(c))]
    OBVIOUS
  <1>2. ASSUME NEW c \in Colls  PROVE worthOfColla(PurseColla, reading(c)) \in Nat
    BY BoundTypes, WorthFacts
  <1>3. IsFiniteSet(Colls) /\ market.priceSPA \in Nat
    BY VaultAssumption DEF TypeOK
  <1>4. SumFunctionOnSet(f, Colls) \in Nat
    BY <1>1, <1>2, <1>3, SumNat
  <1>5. PurseSPA * market.priceSPA * CollaPrec \in Nat
    BY <1>3, BoundTypes, MulNat, PrecisionTypes
  <1>. QED  BY <1>1, <1>4, <1>5 DEF purse, worthOfSPA

LEMMA CollaPaid ==
    ASSUME TypeOK, NEW c \in Colls, NEW x \in Users \cup {Vault}, NEW k \in Nat,
           colla' = [colla EXCEPT ![c][x] = @ + k]
    PROVE  /\ colla'[c][x] = colla[c][x] + k
           /\ \A h \in (Users \cup {Vault}) \ {x} : colla'[c][h] = colla[c][h]
           /\ \A d \in Colls \ {c} : colla'[d] = colla[d]
  <1>1. colla \in [Colls -> [Users \cup {Vault} -> Nat]]
    BY DEF TypeOK
  <1>. QED  BY <1>1

(* A mint makes a user richer by the dust of one collateral at most.        *)
LEMMA MintWealth ==
    ASSUME SteadyPrices, TypeOK, TypeOK', NEW u \in Users, NEW c \in Colls,
           NEW type \in ValueTypes, NEW v \in Amounts, Mint(u, c, type, v)
    PROVE  \A w \in Users : /\ wealth(w)' <= wealth(w) + dust
                            /\ wealth(w) \in Int /\ wealth(w)' \in Int
  <1>. DEFINE q == MintQuote(c, type, v)
              a == q.USDsAmt
              b == q.swapFeeAmount
              s == q.SPABurnAmt
              k == q.collaDeptAmt
  <1>1. /\ a \in Nat /\ b \in Nat /\ s \in Nat /\ k \in Nat
        /\ worthOfUSDs(a + b) <= worthOfColla(k, reading(c)) + worthOfSPA(s, reading(c))
                                    + 3 * Dust(reading(c))
    BY MintQuoteFacts DEF Mint
  <1>2. /\ spa' = [spa EXCEPT ![u] = @ - s]
        /\ colla' = [colla EXCEPT ![c][u] = @ - k, ![c][Vault] = @ + k]
        /\ usds' = [usds EXCEPT ![u] = @ + a, ![FeeVault] = @ + b]
    BY DEF Mint
  <1>. HIDE DEF a, b, s, k, q
  <1>3. /\ u \in Users \cup {Vault} /\ Vault \in Users \cup {Vault} /\ u # Vault
        /\ u \in Holders /\ u # FeeVault /\ FeeVault \notin Users /\ Vault \notin Users
    BY HolderFacts
  <1>4. /\ usds \in [Holders -> Nat] /\ spa \in [Users -> Nat]
    BY DEF TypeOK
  <1>5. /\ usds'[u] = usds[u] + a /\ spa'[u] = spa[u] - s
        /\ \A w \in Users \ {u} : usds'[w] = usds[w] /\ spa'[w] = spa[w]
    BY <1>1, <1>2, <1>3, <1>4, HolderFacts
  <1>6. /\ colla'[c][u] = colla[c][u] - k
        /\ \A w \in Users \ {u} : \A d \in Colls : colla'[d][w] = colla[d][w]
        /\ \A d \in Colls \ {c} : colla'[d][u] = colla[d][u]
    <2>1. /\ colla'[c][u] = colla[c][u] - k
          /\ \A h \in (Users \cup {Vault}) \ {u, Vault} : colla'[c][h] = colla[c][h]
          /\ \A d \in Colls \ {c} : colla'[d] = colla[d]
      <3>1. colla \in [Colls -> [Users \cup {Vault} -> Nat]]
        BY DEF TypeOK
      <3>. QED  BY <1>1, <1>2, <1>3, <3>1
    <2>. QED  BY <1>3, <2>1
  <1>7. dust \in Nat /\ 3 * Dust(reading(c)) <= dust /\ Dust(reading(c)) \in Nat
    BY DustFacts
  <1>8. wealth(u)' <= wealth(u) + dust /\ wealth(u) \in Int /\ wealth(u)' \in Int
    <2>1. /\ usds[u] \in Nat /\ spa[u] \in Nat /\ colla[c][u] \in Nat
          /\ spa'[u] \in Nat /\ colla'[c][u] \in Nat
      BY <1>3, <1>4 DEF TypeOK
    <2>2. /\ worthOfUSDs(usds'[u]) = worthOfUSDs(usds[u]) + worthOfUSDs(a)
          /\ worthOfUSDs(usds[u]) \in Int /\ worthOfUSDs(a) \in Int
          /\ worthOfUSDs(a + b) = worthOfUSDs(a) + worthOfUSDs(b) /\ worthOfUSDs(b) \in Nat
      <3>1. usds[u] \in Int /\ a \in Int /\ b \in Int /\ a >= 0 /\ b >= 0
        BY <1>1, <2>1
      <3>2. worthOfUSDs(usds[u] + a) = worthOfUSDs(usds[u]) + worthOfUSDs(a)
        BY <3>1, WorthFacts
      <3>3. worthOfUSDs(a + b) = worthOfUSDs(a) + worthOfUSDs(b)
        BY <3>1, WorthFacts
      <3>4. worthOfUSDs(usds[u]) \in Int /\ worthOfUSDs(a) \in Int /\ worthOfUSDs(b) \in Nat
        BY <3>1, WorthFacts
      <3>. QED  BY <1>5, <3>2, <3>3, <3>4
    <2>3. /\ worthOfSPA(spa[u], reading(c))
                = worthOfSPA(spa'[u], reading(c)) + worthOfSPA(s, reading(c))
          /\ worthOfSPA(spa'[u], reading(c)) \in Int /\ worthOfSPA(s, reading(c)) \in Int
      <3>1. spa[u] = spa'[u] + s
        BY <1>1, <1>5, <2>1
      <3>. QED  BY <1>1, <2>1, <3>1, WorthFacts
    <2>4. /\ worthOfColla(colla[c][u], reading(c))
                = worthOfColla(colla'[c][u], reading(c)) + worthOfColla(k, reading(c))
          /\ worthOfColla(colla'[c][u], reading(c)) \in Int
          /\ worthOfColla(k, reading(c)) \in Int
      <3>1. colla[c][u] = colla'[c][u] + k
        BY <1>1, <1>6, <2>1
      <3>2. /\ worthOfColla(colla'[c][u] + k, reading(c))
                 = worthOfColla(colla'[c][u], reading(c)) + worthOfColla(k, reading(c))
            /\ worthOfColla(colla'[c][u], reading(c)) \in Int
            /\ worthOfColla(k, reading(c)) \in Int
        BY <1>1, <2>1, WorthFacts
      <3>. QED  BY <3>1, <3>2
    <2>5. /\ wealth(u) \in Int
          /\ wealth(u)' = wealth(u)
                + worthOfUSDs(usds'[u]) - worthOfUSDs(usds[u])
                + worthOfSPA(spa'[u], reading(c)) - worthOfSPA(spa[u], reading(c))
                + worthOfColla(colla'[c][u], reading(c)) - worthOfColla(colla[c][u], reading(c))
      BY <1>6, WealthStep
    <2>. QED  BY <1>1, <1>7, <2>2, <2>3, <2>4, <2>5
  <1>9. ASSUME NEW w \in Users \ {u}
        PROVE  wealth(w)' <= wealth(w) + dust /\ wealth(w) \in Int /\ wealth(w)' \in Int
    <2>1. usds'[w] <= usds[w]
      BY <1>3, <1>4, <1>5, HolderFacts
    <2>2. wealth(w)' <= wealth(w) /\ wealth(w) \in Int /\ wealth(w)' \in Int
      BY <1>5, <1>6, <2>1, WealthKept
    <2>. QED  BY <1>7, <2>2
  <1>. QED  BY <1>8, <1>9

(* Where a redemption's collateral goes: to the user, with what Curve adds, *)
(* or nowhere.                                                              *)
LEMMA PayoutFacts ==
    ASSUME TypeOK, NEW u \in Users, NEW c \in Colls, NEW k \in Nat,
           \/ fromVault(u, c, k)
           \/ fromStrategy(u, c, k)
           \/ fromNowhere(c, k)
    PROVE  /\ \E x \in 0 .. k + Slip : colla'[c][u] = colla[c][u] + x
           /\ \A w \in Users \ {u} : \A d \in Colls : colla'[d][w] = colla[d][w]
           /\ \A d \in Colls \ {c} : colla'[d][u] = colla[d][u]
  <1>1. /\ u \in Users \cup {Vault} /\ Vault \in Users \cup {Vault} /\ u # Vault
        /\ Vault \notin Users /\ Slip \in Nat /\ colla[c][u] \in Nat
    BY HolderFacts, BoundTypes DEF TypeOK
  <1>2. CASE fromVault(u, c, k)
    <2>1. colla' = [colla EXCEPT ![c][Vault] = @ - k, ![c][u] = @ + k]
      BY <1>2 DEF fromVault
    <2>2. /\ colla'[c][u] = colla[c][u] + k
          /\ \A h \in (Users \cup {Vault}) \ {Vault, u} : colla'[c][h] = colla[c][h]
          /\ \A d \in Colls \ {c} : colla'[d] = colla[d]
      <3>1. colla \in [Colls -> [Users \cup {Vault} -> Nat]]
        BY DEF TypeOK
      <3>. QED  BY <1>1, <2>1, <3>1
    <2>3. k \in 0 .. k + Slip
      BY <1>1
    <2>. QED  BY <1>1, <2>2, <2>3
  <1>3. CASE fromStrategy(u, c, k)
    <2>1. Supports[strategyOf(c)] = c
      BY <1>3 DEF fromStrategy, employed
    <2>2. PICK got \in trySub(k, Slip) .. k + Slip : withdraw(strategyOf(c), k, got, u)
      BY <1>3 DEF fromStrategy
    <2>3. got \in Nat /\ got \in 0 .. k + Slip
      BY <1>1, SlipTypes
    <2>4. colla' = [colla EXCEPT ![c][u] = @ + got]
      BY <2>1, <2>2 DEF withdraw
    <2>. QED  BY <1>1, <2>3, <2>4, CollaPaid
  <1>4. CASE fromNowhere(c, k)
    <2>1. colla' = colla
      BY <1>4 DEF fromNowhere
    <2>2. 0 \in 0 .. k + Slip /\ colla[c][u] + 0 = colla[c][u]
      BY <1>1
    <2>. QED  BY <2>1, <2>2
  <1>. QED  BY <1>2, <1>3, <1>4

(* A redemption makes nobody richer than what Curve adds.                   *)
LEMMA RedeemWealth ==
    ASSUME SteadyPrices, TypeOK, TypeOK', NEW u \in Users, NEW c \in Colls,
           NEW n \in Amounts, Redeem(u, c, n)
    PROVE  \A w \in Users : /\ wealth(w)' <= wealth(w) + windfall
                            /\ wealth(w) \in Int /\ wealth(w)' \in Int
  <1>. DEFINE q == RedeemQuote(c, n)
              s == q.SPAMintAmt
              k == q.collaUnlockAmt
              b == q.swapFeeAmount
  <1>1. /\ s \in Nat /\ k \in Nat /\ b \in Nat
        /\ worthOfColla(k, reading(c)) + worthOfSPA(s, reading(c)) <= worthOfUSDs(n)
    BY RedeemQuoteFacts DEF Redeem
  <1>2. /\ spa' = [spa EXCEPT ![u] = @ + s]
        /\ usds' = [usds EXCEPT ![u] = @ - n, ![FeeVault] = @ + b]
        /\ fromVault(u, c, k) \/ fromStrategy(u, c, k) \/ fromNowhere(c, k)
    BY DEF Redeem
  <1>. HIDE DEF s, k, q, b
  <1>3. /\ u \in Holders /\ u # FeeVault /\ FeeVault \notin Users /\ n \in Nat
    BY HolderFacts, VaultAssumption
  <1>4. /\ usds \in [Holders -> Nat] /\ usds' \in [Holders -> Nat]
        /\ spa \in [Users -> Nat]
    BY DEF TypeOK
  <1>5. /\ usds'[u] = usds[u] - n /\ spa'[u] = spa[u] + s
        /\ \A w \in Users \ {u} : usds'[w] = usds[w] /\ spa'[w] = spa[w]
    BY <1>1, <1>2, <1>3, <1>4, HolderFacts
  <1>6. /\ \E x \in 0 .. k + Slip : colla'[c][u] = colla[c][u] + x
        /\ \A w \in Users \ {u} : \A d \in Colls : colla'[d][w] = colla[d][w]
        /\ \A d \in Colls \ {c} : colla'[d][u] = colla[d][u]
    BY <1>1, <1>2, PayoutFacts
  <1>7. /\ wealth(u)' <= wealth(u) + windfall
        /\ wealth(u) \in Int /\ wealth(u)' \in Int
    <2>1. /\ usds[u] \in Nat /\ usds'[u] \in Nat /\ spa[u] \in Nat /\ colla[c][u] \in Nat
      BY <1>3, <1>4 DEF TypeOK
    <2>2. /\ worthOfUSDs(usds[u]) = worthOfUSDs(usds'[u]) + worthOfUSDs(n)
          /\ worthOfUSDs(usds'[u]) \in Int /\ worthOfUSDs(n) \in Int
      <3>1. usds[u] = usds'[u] + n
        BY <1>3, <1>5, <2>1
      <3>. QED  BY <1>3, <2>1, <3>1, WorthFacts
    <2>3. /\ worthOfSPA(spa'[u], reading(c))
                = worthOfSPA(spa[u], reading(c)) + worthOfSPA(s, reading(c))
          /\ worthOfSPA(spa[u], reading(c)) \in Int /\ worthOfSPA(s, reading(c)) \in Int
      BY <1>1, <1>5, <2>1, WorthFacts
    <2>4. /\ worthOfColla(colla'[c][u], reading(c))
                <= worthOfColla(colla[c][u], reading(c)) + worthOfColla(k, reading(c))
                      + windfall
          /\ worthOfColla(colla'[c][u], reading(c)) \in Int
          /\ worthOfColla(colla[c][u], reading(c)) \in Int
          /\ worthOfColla(k, reading(c)) \in Int
          /\ windfall \in Int
      <3>1. PICK x \in 0 .. k + Slip : colla'[c][u] = colla[c][u] + x
        BY <1>6
      <3>2. /\ Slip \in Int /\ k \in Int /\ x \in Int /\ k + Slip \in Int
            /\ k + Slip - x \in Int /\ k + Slip - x >= 0
            /\ x + (k + Slip - x) = k + Slip
        BY <1>1, BoundTypes
      <3>3. /\ worthOfColla(colla[c][u] + x, reading(c))
                  = worthOfColla(colla[c][u], reading(c)) + worthOfColla(x, reading(c))
            /\ worthOfColla(colla[c][u], reading(c)) \in Int
            /\ worthOfColla(x, reading(c)) \in Int
        BY <2>1, <3>2, WorthFacts
      <3>4. /\ worthOfColla(k + Slip, reading(c))
                  = worthOfColla(k, reading(c)) + worthOfColla(Slip, reading(c))
            /\ worthOfColla(k, reading(c)) \in Int
        BY <3>2, WorthFacts
      <3>5. /\ worthOfColla(x + (k + Slip - x), reading(c))
                  = worthOfColla(x, reading(c)) + worthOfColla(k + Slip - x, reading(c))
            /\ worthOfColla(k + Slip - x, reading(c)) \in Nat
        BY <3>2, WorthFacts
      <3>6. /\ windfall \in Nat
            /\ worthOfColla(Slip, reading(c)) \in Nat
            /\ worthOfColla(Slip, reading(c)) <= windfall
        BY WindfallFacts
      <3>7. worthOfColla(x, reading(c))
               <= worthOfColla(k, reading(c)) + worthOfColla(Slip, reading(c))
        BY <3>2, <3>3, <3>4, <3>5, <3>6
      <3>. QED  BY <3>1, <3>3, <3>4, <3>6, <3>7
    <2>5. /\ wealth(u) \in Int
          /\ wealth(u)' = wealth(u)
                + worthOfUSDs(usds'[u]) - worthOfUSDs(usds[u])
                + worthOfSPA(spa'[u], reading(c)) - worthOfSPA(spa[u], reading(c))
                + worthOfColla(colla'[c][u], reading(c)) - worthOfColla(colla[c][u], reading(c))
      BY <1>6, WealthStep
    <2>. QED  BY <1>1, <2>2, <2>3, <2>4, <2>5
  <1>8. ASSUME NEW w \in Users \ {u}
        PROVE  /\ wealth(w)' <= wealth(w) + windfall
               /\ wealth(w) \in Int /\ wealth(w)' \in Int
    <2>1. usds'[w] <= usds[w]
      BY <1>3, <1>4, <1>5, HolderFacts
    <2>2. wealth(w)' <= wealth(w) /\ wealth(w) \in Int /\ wealth(w)' \in Int
      BY <1>5, <1>6, <2>1, WealthKept
    <2>3. windfall \in Nat
      BY WindfallFacts
    <2>. QED  BY <2>2, <2>3
  <1>. QED  BY <1>7, <1>8

(* What neither mints nor redeems nor rebases gives a user nothing.         *)
LEMMA OthersGiveNothing ==
    ASSUME TypeOK, ~rebaseAllowed, "rebase" \notin Toggled, [Next]_vars,
           ~\E u \in Users, c \in Colls, n \in Amounts :
               \/ \E type \in ValueTypes : Mint(u, c, type, n)
               \/ Redeem(u, c, n)
    PROVE  /\ ~rebaseAllowed' /\ calls' = calls
           /\ \A u \in Users : /\ usds'[u] <= usds[u] /\ spa'[u] = spa[u]
                               /\ \A d \in Colls : colla'[d][u] = colla[d][u]
  <1>1. /\ \A h \in Holders : usds[h] \in Nat
        /\ usds \in [Holders -> Nat]
        /\ colla \in [Colls -> [Users \cup {Vault} -> Nat]]
    BY DEF TypeOK
  <1>2. /\ Vault \notin Users /\ Pool \notin Users /\ Users \subseteq Holders
        /\ Pool \in Holders
    BY HolderFacts
  <1>3. ASSUME NEW u \in Users, NEW n \in Sales, Sell(u, n)
        PROVE  /\ ~rebaseAllowed' /\ calls' = calls
               /\ \A w \in Users : usds'[w] <= usds[w]
               /\ spa' = spa /\ colla' = colla
    <2>1. usds' = [usds EXCEPT ![u] = @ - n, ![Pool] = @ + n] /\ n \in Nat
      BY <1>3, VaultAssumption DEF Sell, moved
    <2>2. usds'[u] = usds[u] - n /\ \A w \in Users \ {u} : usds'[w] = usds[w]
      BY <1>1, <1>2, <2>1
    <2>3. \A w \in Users : usds'[w] <= usds[w]
      BY <1>1, <1>2, <2>1, <2>2
    <2>. QED  BY <1>3, <2>3 DEF Sell, switches
  <1>4. ASSUME Allocate
        PROVE  /\ ~rebaseAllowed' /\ calls' = calls
               /\ usds' = usds /\ spa' = spa
               /\ \A u \in Users : \A d \in Colls : colla'[d][u] = colla[d][u]
    <2>1. colla' = [c \in Colls |-> [colla[c] EXCEPT ![Vault] = @ - toAllocate(c)]]
      BY <1>4 DEF Allocate
    <2>2. \A u \in Users : \A d \in Colls : colla'[d][u] = colla[d][u]
      BY <1>1, <1>2, <2>1
    <2>. QED  BY <1>4, <2>2 DEF Allocate, switches
  <1>5. ASSUME NEW s \in Strats, NEW n \in Recalls, WithdrawToVault(s, n)
        PROVE  /\ ~rebaseAllowed' /\ calls' = calls
               /\ usds' = usds /\ spa' = spa
               /\ \A u \in Users : \A d \in Colls : colla'[d][u] = colla[d][u]
    <2>1. PICK got \in trySub(n, Slip) .. n + Slip : withdraw(s, n, got, Vault)
      BY <1>5 DEF WithdrawToVault
    <2>2. /\ colla' = [colla EXCEPT ![Supports[s]][Vault] = @ + got]
          /\ Supports[s] \in Colls
      BY <2>1, VaultAssumption DEF withdraw
    <2>3. \A u \in Users : \A d \in Colls : colla'[d][u] = colla[d][u]
      BY <1>1, <1>2, <2>2
    <2>. QED  BY <1>5, <2>3 DEF WithdrawToVault, switches
  <1>6. ASSUME \/ \E s \in Strats : \/ AddStrategy(s)
                                    \/ \E b \in BOOLEAN : UpdateStrategyRwdBuybackAddr(s, b)
                                    \/ \E n \in Worths : CurveMoves(s, n)
                                    \/ RewardsAccrue(s)
               \/ \E c \in Colls : \E i \in Infos[c] :
                      AddCollateral(c, i) \/ UpdateCollateralInfo(c, i)
               \/ \E b \in BOOLEAN : \/ UpdateMintBurnPermission(b)
                                     \/ UpdateAllocationPermission(b)
                                     \/ UpdateRebasePermission(b)
               \/ \E p \in Settings : UpdateParameters(p)
               \/ \E in, out \in BOOLEAN : UpdateSwapInOutFeePermission(in, out)
               \/ \E m \in Markets : MarketMoves(m)
               \/ BlocksPass
               \/ UNCHANGED vars
        PROVE  /\ ~rebaseAllowed' /\ calls' = calls
               /\ usds' = usds /\ spa' = spa /\ colla' = colla
    <2>1. ASSUME NEW s \in Strats,
                 \/ AddStrategy(s)
                 \/ \E b \in BOOLEAN : UpdateStrategyRwdBuybackAddr(s, b)
                 \/ \E n \in Worths : CurveMoves(s, n)
                 \/ RewardsAccrue(s)
          PROVE  UNCHANGED <<tokens, switches, calls>>
      BY <2>1 DEF AddStrategy, UpdateStrategyRwdBuybackAddr, setStrategy, CurveMoves,
                  RewardsAccrue
    <2>2. ASSUME NEW c \in Colls, NEW i \in Infos[c],
                 AddCollateral(c, i) \/ UpdateCollateralInfo(c, i)
          PROVE  UNCHANGED <<tokens, switches, calls>>
      BY <2>2 DEF AddCollateral, UpdateCollateralInfo
    <2>3. ASSUME NEW b \in BOOLEAN, UpdateMintBurnPermission(b) \/ UpdateAllocationPermission(b)
          PROVE  UNCHANGED <<tokens, rebaseAllowed, calls>>
      BY <2>3 DEF UpdateMintBurnPermission, UpdateAllocationPermission
    <2>4. ASSUME NEW b \in BOOLEAN PROVE ~UpdateRebasePermission(b)
      BY DEF UpdateRebasePermission
    <2>5. ASSUME NEW p \in Settings, UpdateParameters(p)
          PROVE  UNCHANGED <<tokens, switches, calls>>
      BY <2>5 DEF UpdateParameters
    <2>6. ASSUME NEW in \in BOOLEAN, NEW out \in BOOLEAN, UpdateSwapInOutFeePermission(in, out)
          PROVE  UNCHANGED <<tokens, switches, calls>>
      BY <2>6 DEF UpdateSwapInOutFeePermission
    <2>7. ASSUME NEW m \in Markets, MarketMoves(m)
          PROVE  UNCHANGED <<tokens, switches, calls>>
      BY <2>7 DEF MarketMoves
    <2>8. ASSUME BlocksPass PROVE UNCHANGED <<tokens, switches, calls>>
      BY <2>8 DEF BlocksPass
    <2>9. ASSUME UNCHANGED vars PROVE UNCHANGED <<tokens, switches, calls>>
      BY <2>9 DEF vars
    <2>10. UNCHANGED <<tokens, switches, calls>> \/ UNCHANGED <<tokens, rebaseAllowed, calls>>
      BY <1>6, <2>1, <2>2, <2>3, <2>4, <2>5, <2>6, <2>7, <2>8, <2>9
    <2>. QED  BY <2>10 DEF tokens, switches
  <1>7. ~Rebase
    BY DEF Rebase
  <1>8. \/ \E u \in Users, n \in Sales : Sell(u, n)
        \/ Allocate
        \/ \E s \in Strats, n \in Recalls : WithdrawToVault(s, n)
        \/ \/ \E s \in Strats : \/ AddStrategy(s)
                                \/ \E b \in BOOLEAN : UpdateStrategyRwdBuybackAddr(s, b)
                                \/ \E n \in Worths : CurveMoves(s, n)
                                \/ RewardsAccrue(s)
           \/ \E c \in Colls : \E i \in Infos[c] :
                  AddCollateral(c, i) \/ UpdateCollateralInfo(c, i)
           \/ \E b \in BOOLEAN : \/ UpdateMintBurnPermission(b)
                                 \/ UpdateAllocationPermission(b)
                                 \/ UpdateRebasePermission(b)
           \/ \E p \in Settings : UpdateParameters(p)
           \/ \E in, out \in BOOLEAN : UpdateSwapInOutFeePermission(in, out)
           \/ \E m \in Markets : MarketMoves(m)
           \/ BlocksPass
           \/ UNCHANGED vars
    <2>1. CASE Next
      BY <1>7, <2>1 DEF Next
    <2>2. CASE UNCHANGED vars
      BY <2>2, Zenon
    <2>. QED  BY <2>1, <2>2
  <1>9. \A u \in Users : usds[u] \in Nat
    BY <1>1, <1>2
  <1>. QED  BY <1>3, <1>4, <1>5, <1>6, <1>8, <1>9

LEMMA OneMoreCall ==
    ASSUME NEW a \in Int, NEW b \in Int, NEW p \in Int, NEW n \in Nat, NEW d \in Nat,
           a <= p + n * d, b <= a + d
    PROVE  b <= p + (n + 1) * d
  <1>1. (n + 1) * d = n * d + d /\ n * d \in Nat
    BY SMT
  <1>. QED  BY <1>1

(* Calls that mint or redeem move no switch and count.                      *)
LEMMA CallsCount ==
    ASSUME NEW u \in Users, NEW c \in Colls, NEW n \in Amounts,
           \/ \E type \in ValueTypes : Mint(u, c, type, n)
           \/ Redeem(u, c, n)
    PROVE  calls' = calls + 1 /\ rebaseAllowed' = rebaseAllowed
  BY DEF Mint, Redeem, switches

WealthInv == VInv /\ ~rebaseAllowed /\ NoValueFromNothing

(* With steady prices and no rebase, nobody becomes richer by minting and   *)
(* redeeming than by rounding and by what Curve adds, whatever the order,   *)
(* the collateral, the flows and the settings (_mint, _redeem).             *)
THEOREM NobodyGains ==
    ASSUME SteadyPrices, "rebase" \notin Toggled
    PROVE  Spec => []NoValueFromNothing
  <1>. DEFINE gift == dust + windfall
  <1>1. Init => WealthInv
    <2>. SUFFICES ASSUME Init  PROVE WealthInv
      OBVIOUS
    <2>1. VInv /\ TypeOK
      BY InitInv DEF VInv
    <2>2. ASSUME NEW u \in Users  PROVE wealth(u) <= purse + calls * gift
      <3>1. /\ usds[u] = 0 /\ spa[u] = PurseSPA /\ calls = 0
            /\ \A c \in Colls : colla[c][u] = PurseColla
        BY HolderFacts DEF Init
      <3>2. worthOfUSDs(0) = 0
        BY PrecisionTypes DEF worthOfUSDs
      <3>3. PICK f, g :
              /\ f = [c \in Colls |-> worthOfColla(colla[c][u], reading(c))]
              /\ g = [c \in Colls |-> worthOfColla(PurseColla, reading(c))]
        OBVIOUS
      <3>4. f = g
        BY <3>1, <3>3
      <3>5. /\ wealth(u) = 0 + worthOfSPA(PurseSPA, market) + SumFunctionOnSet(f, Colls)
            /\ purse = worthOfSPA(PurseSPA, market) + SumFunctionOnSet(g, Colls)
        BY <3>1, <3>2, <3>3 DEF wealth, collaOf, purse
      <3>6. purse \in Nat /\ gift \in Nat
        BY <2>1, PurseTyped, DustFacts, WindfallFacts
      <3>7. worthOfSPA(PurseSPA, market) \in Int /\ SumFunctionOnSet(f, Colls) \in Int
        <4>1. worthOfSPA(PurseSPA, market) \in Int
          <5>1. market.priceSPA \in Nat
            BY <2>1, VaultAssumption DEF TypeOK
          <5>. QED  BY <5>1, BoundTypes, MulNat, PrecisionTypes DEF worthOfSPA
        <4>2. \A c \in Colls : f[c] \in Int
          <5>1. ASSUME NEW c \in Colls  PROVE worthOfColla(PurseColla, reading(c)) \in Int
            BY <2>1, BoundTypes, WorthFacts
          <5>. QED  BY <3>3, <3>4, <5>1
        <4>3. IsFiniteSet(Colls)
          BY VaultAssumption
        <4>. QED  BY <4>1, <4>2, <4>3, SumInt
      <3>8. wealth(u) = purse
        BY <3>4, <3>5, <3>7
      <3>. QED  BY <3>1, <3>6, <3>8
    <2>3. ~rebaseAllowed
      BY DEF Init
    <2>. QED  BY <2>1, <2>2, <2>3 DEF WealthInv, NoValueFromNothing
  <1>2. WealthInv /\ [Next]_vars => WealthInv'
    <2>. SUFFICES ASSUME WealthInv, [Next]_vars  PROVE WealthInv'
      OBVIOUS
    <2>1. VInv /\ VInv' /\ TypeOK /\ TypeOK' /\ ~rebaseAllowed
      BY NextInv DEF WealthInv, VInv
    <2>2. /\ gift' = gift /\ purse' = purse /\ gift \in Nat /\ purse \in Nat
          /\ dust \in Nat /\ windfall \in Nat /\ gift = dust + windfall
          /\ calls \in Nat
      <3>1. dust' = dust /\ purse' = purse /\ windfall' = windfall
        BY <2>1, SteadySums, WindfallSteady
      <3>2. dust \in Nat /\ purse \in Nat /\ windfall \in Nat
        BY <2>1, DustFacts, PurseTyped, WindfallFacts
      <3>3. calls \in Nat
        BY <2>1, BoundTypes DEF TypeOK
      <3>. QED  BY <3>1, <3>2, <3>3
    <2>3. \A u \in Users : wealth(u) <= purse + calls * gift
      BY DEF WealthInv, NoValueFromNothing
    <2>4. CASE \E u \in Users, c \in Colls, n \in Amounts :
                  \/ \E type \in ValueTypes : Mint(u, c, type, n)
                  \/ Redeem(u, c, n)
      <3>1. \A w \in Users : /\ wealth(w)' <= wealth(w) + gift
                             /\ wealth(w) \in Int /\ wealth(w)' \in Int
        <4>1. \A w \in Users : /\ \/ wealth(w)' <= wealth(w) + dust
                                  \/ wealth(w)' <= wealth(w) + windfall
                               /\ wealth(w) \in Int /\ wealth(w)' \in Int
          BY <2>1, <2>4, MintWealth, RedeemWealth
        <4>. QED  BY <2>2, <4>1
      <3>2. calls' = calls + 1 /\ ~rebaseAllowed'
        BY <2>1, <2>4, CallsCount
      <3>3. \A w \in Users : wealth(w)' <= purse + (calls + 1) * gift
        BY <2>2, <2>3, <3>1, OneMoreCall
      <3>4. NoValueFromNothing'
        BY <2>2, <3>2, <3>3 DEF NoValueFromNothing
      <3>. QED  BY <2>1, <3>2, <3>4 DEF WealthInv
    <2>5. CASE ~\E u \in Users, c \in Colls, n \in Amounts :
                  \/ \E type \in ValueTypes : Mint(u, c, type, n)
                  \/ Redeem(u, c, n)
      <3>1. /\ ~rebaseAllowed' /\ calls' = calls
            /\ \A u \in Users : /\ usds'[u] <= usds[u] /\ spa'[u] = spa[u]
                                /\ \A d \in Colls : colla'[d][u] = colla[d][u]
        BY <2>1, <2>5, OthersGiveNothing
      <3>2. \A w \in Users : /\ wealth(w)' <= wealth(w)
                             /\ wealth(w) \in Int /\ wealth(w)' \in Int
        BY <2>1, <3>1, WealthKept
      <3>3. calls * gift \in Nat
        BY <2>2, MulNat
      <3>4. \A w \in Users : wealth(w)' <= purse + calls * gift
        BY <2>2, <2>3, <3>2, <3>3
      <3>5. NoValueFromNothing'
        BY <2>2, <3>1, <3>4 DEF NoValueFromNothing
      <3>. QED  BY <2>1, <3>1, <3>5 DEF WealthInv
    <2>. QED  BY <2>4, <2>5
  <1>3. WealthInv => NoValueFromNothing
    BY DEF WealthInv
  <1>. QED  BY <1>1, <1>2, <1>3, PTL DEF Spec

-----------------------------------------------------------------------------
(* What stands behind the supply.                                           *)

(* The collateral c of vault and strategies.                                *)
stock(c) == colla[c][Vault] + held(c)

LEMMA HeldFacts ==
    ASSUME TypeOK, NEW c \in Colls
    PROVE  /\ Supporting(c) \subseteq Strats /\ IsFiniteSet(Supporting(c))
           /\ held(c) = SumFunctionOnSet(funds, Supporting(c))
           /\ held(c) \in Nat /\ stock(c) \in Nat
  <1>1. Supporting(c) \subseteq Strats /\ IsFiniteSet(Supporting(c))
    BY FS_Subset, VaultAssumption DEF Supporting
  <1>2. held(c) = SumFunctionOnSet(funds, Supporting(c))
    BY DEF held, Supporting
  <1>3. \A s \in Supporting(c) : funds[s] \in Nat
    BY <1>1 DEF TypeOK
  <1>4. held(c) \in Nat
    BY <1>1, <1>2, <1>3, SumNat
  <1>5. colla[c][Vault] \in Nat
    BY DEF TypeOK
  <1>. QED  BY <1>1, <1>2, <1>4, <1>5 DEF stock

LEMMA HeldKept ==
    ASSUME NEW c \in Colls, funds' = funds PROVE held(c)' = held(c)
  BY DEF held

(* A strategy's funds change by x.                                          *)
LEMMA HeldStep ==
    ASSUME TypeOK, TypeOK', NEW s \in Strats, NEW x \in Int, funds'[s] = funds[s] + x,
           \A k \in Strats \ {s} : funds'[k] = funds[k]
    PROVE  /\ held(Supports[s])' = held(Supports[s]) + x
           /\ \A c \in Colls \ {Supports[s]} : held(c)' = held(c)
  <1>1. ASSUME NEW c \in Colls
        PROVE  /\ held(c)' = SumFunctionOnSet(funds', Supporting(c))
               /\ held(c) = SumFunctionOnSet(funds, Supporting(c))
               /\ Supporting(c) \subseteq Strats /\ IsFiniteSet(Supporting(c))
               /\ held(c) \in Nat
    BY HeldFacts DEF held, Supporting
  <1>2. \A k \in Strats : funds[k] \in Nat /\ funds'[k] \in Nat
    BY DEF TypeOK
  <1>3. Supports[s] \in Colls /\ s \in Supporting(Supports[s])
    BY VaultAssumption DEF Supporting
  <1>4. held(Supports[s])' = held(Supports[s]) + x
    <2>. DEFINE c == Supports[s]
    <2>1. /\ s \in Supporting(c)
          /\ \A k \in Supporting(c) : funds[k] \in Int /\ funds'[k] \in Int
          /\ \A k \in Supporting(c) \ {s} : funds'[k] = funds[k]
      BY <1>1, <1>2, <1>3
    <2>2. PICK g : g = funds'
      OBVIOUS
    <2>3. SumFunctionOnSet(g, Supporting(c))
             = SumFunctionOnSet(funds, Supporting(c)) + g[s] - funds[s]
      BY <1>1, <1>3, <2>1, <2>2, SumChange
    <2>. QED  BY <1>1, <1>2, <1>3, <2>2, <2>3
  <1>5. ASSUME NEW c \in Colls \ {Supports[s]}  PROVE held(c)' = held(c)
    <2>1. \A k \in Supporting(c) : funds[k] \in Int /\ funds'[k] = funds[k]
      BY <1>1, <1>2 DEF Supporting
    <2>2. SumFunctionOnSet(funds, Supporting(c)) = SumFunctionOnSet(funds', Supporting(c))
      <3>1. PICK g : g = funds'
        OBVIOUS
      <3>2. SumFunctionOnSet(funds, Supporting(c)) = SumFunctionOnSet(g, Supporting(c))
        BY <1>1, <2>1, <3>1, SumSame
      <3>. QED  BY <3>1, <3>2
    <2>. QED  BY <1>1, <2>2
  <1>. QED  BY <1>4, <1>5

LEMMA ReservesStep ==
    ASSUME SteadyPrices, TypeOK, TypeOK', NEW c \in Colls,
           \A d \in Colls \ {c} : stock(d)' = stock(d)
    PROVE  /\ reserves \in Int /\ reserves' \in Int
           /\ reserves' = reserves + worthOfColla(stock(c)', reading(c))
                            - worthOfColla(stock(c), reading(c))
  <1>1. PICK f, g, h :
          /\ f = [d \in Colls |-> worthOfColla(stock(d), reading(d))]
          /\ g = [d \in Colls |-> worthOfColla(stock(d)', reading(d))]
          /\ h = [d \in Colls |-> worthOfColla(stock(d)', reading(d)')]
    OBVIOUS
  <1>2. g = h
    BY <1>1, PricesKept
  <1>3. \A d \in Colls : /\ f[d] \in Int /\ g[d] \in Int
                         /\ f[d] = worthOfColla(stock(d), reading(d))
                         /\ g[d] = worthOfColla(stock(d)', reading(d))
    <2>1. ASSUME NEW d \in Colls, NEW n \in Nat  PROVE worthOfColla(n, reading(d)) \in Int
      BY WorthFacts
    <2>2. ASSUME NEW d \in Colls  PROVE stock(d) \in Nat /\ stock(d)' \in Nat
      <3>1. stock(d) \in Nat
        BY HeldFacts
      <3>2. held(d)' = SumFunctionOnSet(funds', Supporting(d))
        BY DEF held, Supporting
      <3>3. \A s \in Supporting(d) : funds'[s] \in Nat
        BY <3>1, HeldFacts DEF TypeOK
      <3>4. PICK later : later = funds'
        OBVIOUS
      <3>5. held(d)' \in Nat
        BY <3>2, <3>3, <3>4, HeldFacts, SumNat
      <3>6. colla'[d][Vault] \in Nat
        BY DEF TypeOK
      <3>. QED  BY <3>1, <3>5, <3>6 DEF stock
    <2>. QED  BY <1>1, <2>1, <2>2
  <1>4. reserves = SumFunctionOnSet(f, Colls) /\ reserves' = SumFunctionOnSet(h, Colls)
    BY <1>1 DEF reserves, stock
  <1>5. \A d \in Colls \ {c} : g[d] = f[d]
    BY <1>3
  <1>6. IsFiniteSet(Colls)
    BY VaultAssumption
  <1>7. SumFunctionOnSet(g, Colls) = SumFunctionOnSet(f, Colls) + g[c] - f[c]
    BY <1>3, <1>5, <1>6, SumChange
  <1>8. SumFunctionOnSet(f, Colls) \in Int
    BY <1>3, <1>6, SumInt
  <1>. QED  BY <1>2, <1>3, <1>4, <1>7, <1>8

LEMMA ReservesKept ==
    ASSUME SteadyPrices, TypeOK, TypeOK', \A d \in Colls : stock(d)' = stock(d)
    PROVE  reserves' = reserves
  <1>1. PICK f, h :
          /\ f = [d \in Colls |-> worthOfColla(stock(d), reading(d))]
          /\ h = [d \in Colls |-> worthOfColla(stock(d)', reading(d)')]
    OBVIOUS
  <1>2. f = h
    BY <1>1, PricesKept
  <1>3. reserves = SumFunctionOnSet(f, Colls) /\ reserves' = SumFunctionOnSet(h, Colls)
    BY <1>1 DEF reserves, stock
  <1>. QED  BY <1>2, <1>3

(* What the supply is covered by, less the supply.                          *)
cover ==
    worthOfSPA(SPAburnt, market) + reserves
      - worthOfUSDs(totalSupply) - worthOfSPA(SPAminted, market)

LEMMA TallyFacts ==
    ASSUME TypeOK, NEW c \in Colls
    PROVE  /\ totalSupply \in Nat /\ SPAminted \in Nat /\ SPAburnt \in Nat
           /\ totalSupply \in Int /\ SPAminted \in Int /\ SPAburnt \in Int
           /\ worthOfSPA(SPAburnt, reading(c)) \in Int
           /\ worthOfSPA(SPAminted, reading(c)) \in Int
           /\ worthOfUSDs(totalSupply) \in Int
  <1>1. totalSupply \in Nat /\ SPAminted \in Nat /\ SPAburnt \in Nat
    BY DEF TypeOK
  <1>. QED  BY <1>1, WorthFacts

(* How it changes when the stock of one collateral and the tallies do.      *)
LEMMA CoverStep ==
    ASSUME SteadyPrices, TypeOK, TypeOK', NEW c \in Colls,
           NEW supply \in Int, NEW created \in Int, NEW burnt \in Int, NEW stocked \in Int,
           totalSupply' = totalSupply + supply, SPAminted' = SPAminted + created,
           SPAburnt' = SPAburnt + burnt, stock(c)' = stock(c) + stocked,
           \A d \in Colls \ {c} : stock(d)' = stock(d)
    PROVE  /\ cover \in Int /\ cover' \in Int
           /\ cover' = cover + worthOfSPA(burnt, reading(c))
                             + worthOfColla(stocked, reading(c))
                             - worthOfUSDs(supply) - worthOfSPA(created, reading(c))
  <1>1. /\ reserves \in Int /\ reserves' \in Int
        /\ reserves' = reserves + worthOfColla(stock(c) + stocked, reading(c))
                         - worthOfColla(stock(c), reading(c))
    BY ReservesStep
  <1>2. stock(c) \in Int
    BY HeldFacts
  <1>3. /\ worthOfColla(stock(c) + stocked, reading(c))
              = worthOfColla(stock(c), reading(c)) + worthOfColla(stocked, reading(c))
        /\ worthOfColla(stock(c), reading(c)) \in Int
        /\ worthOfColla(stocked, reading(c)) \in Int
    BY <1>2, WorthFacts
  <1>4. /\ worthOfUSDs(totalSupply + supply) = worthOfUSDs(totalSupply) + worthOfUSDs(supply)
        /\ worthOfUSDs(totalSupply) \in Int /\ worthOfUSDs(supply) \in Int
    BY TallyFacts, WorthFacts
  <1>5. /\ worthOfSPA(SPAminted + created, reading(c))
              = worthOfSPA(SPAminted, reading(c)) + worthOfSPA(created, reading(c))
        /\ worthOfSPA(SPAminted, reading(c)) \in Int /\ worthOfSPA(created, reading(c)) \in Int
    BY TallyFacts, WorthFacts
  <1>6. /\ worthOfSPA(SPAburnt + burnt, reading(c))
              = worthOfSPA(SPAburnt, reading(c)) + worthOfSPA(burnt, reading(c))
        /\ worthOfSPA(SPAburnt, reading(c)) \in Int /\ worthOfSPA(burnt, reading(c)) \in Int
    BY TallyFacts, WorthFacts
  <1>7. cover = worthOfSPA(SPAburnt, reading(c)) + reserves
                  - worthOfUSDs(totalSupply) - worthOfSPA(SPAminted, reading(c))
    BY PricesKept DEF cover
  <1>8. cover' = worthOfSPA(SPAburnt + burnt, reading(c)) + reserves'
                   - worthOfUSDs(totalSupply + supply)
                   - worthOfSPA(SPAminted + created, reading(c))
    <2>1. cover' = worthOfSPA(SPAburnt', market') + reserves'
                     - worthOfUSDs(totalSupply') - worthOfSPA(SPAminted', market')
      BY DEF cover
    <2>2. \A n : worthOfSPA(n, market') = worthOfSPA(n, reading(c))
      BY PricesKept
    <2>. QED  BY <2>1, <2>2
  <1>. QED  BY <1>1, <1>3, <1>4, <1>5, <1>6, <1>7, <1>8

LEMMA CoverKept ==
    ASSUME SteadyPrices, TypeOK, TypeOK', UNCHANGED <<totalSupply, SPAminted, SPAburnt>>,
           \A d \in Colls : stock(d)' = stock(d)
    PROVE  cover' = cover
  <1>1. reserves' = reserves
    BY ReservesKept
  <1>2. market'.priceSPA = market.priceSPA
    BY DEF SteadyPrices, TypeOK
  <1>3. \A n : worthOfSPA(n, market') = worthOfSPA(n, market)
    BY <1>2 DEF worthOfSPA
  <1>4. cover' = worthOfSPA(SPAburnt', market') + reserves'
                   - worthOfUSDs(totalSupply') - worthOfSPA(SPAminted', market')
    BY DEF cover
  <1>. QED  BY <1>1, <1>3, <1>4 DEF cover

(* What funds gain or lose by moving to or from the vault.                  *)
LEMMA StockStep ==
    ASSUME TypeOK, TypeOK', NEW s \in Strats, NEW n \in Nat, NEW to \in Users \cup {Vault},
           withdraw(s, n, n, to)
    PROVE  /\ stock(Supports[s])' = stock(Supports[s]) - (IF to = Vault THEN 0 ELSE n)
           /\ \A d \in Colls \ {Supports[s]} : stock(d)' = stock(d)
  <1>1. Supports[s] \in Colls /\ Vault \in Users \cup {Vault}
    BY VaultAssumption
  <1>2. /\ held(Supports[s])' = held(Supports[s]) - n
        /\ \A d \in Colls \ {Supports[s]} : held(d)' = held(d)
    <2>1. funds \in [Strats -> Nat] /\ funds' = [funds EXCEPT ![s] = @ - n]
      BY DEF withdraw, TypeOK
    <2>2. funds'[s] = funds[s] + (0 - n) /\ \A k \in Strats \ {s} : funds'[k] = funds[k]
      BY <2>1
    <2>3. 0 - n \in Int
      OBVIOUS
    <2>4. /\ held(Supports[s])' = held(Supports[s]) + (0 - n)
          /\ \A d \in Colls \ {Supports[s]} : held(d)' = held(d)
      BY <2>2, <2>3, HeldStep
    <2>5. held(Supports[s]) \in Nat
      BY <1>1, HeldFacts
    <2>. QED  BY <2>4, <2>5
  <1>3. /\ colla'[Supports[s]][to] = colla[Supports[s]][to] + n
        /\ \A h \in (Users \cup {Vault}) \ {to} : colla'[Supports[s]][h] = colla[Supports[s]][h]
        /\ \A d \in Colls \ {Supports[s]} : colla'[d] = colla[d]
    <2>1. colla' = [colla EXCEPT ![Supports[s]][to] = @ + n]
      BY DEF withdraw
    <2>. QED  BY <1>1, <2>1, CollaPaid
  <1>4. held(Supports[s]) \in Nat /\ colla[Supports[s]][Vault] \in Nat
    BY <1>1, HeldFacts DEF TypeOK
  <1>5. stock(Supports[s])' = stock(Supports[s]) - (IF to = Vault THEN 0 ELSE n)
    <2>1. colla'[Supports[s]][Vault]
             = colla[Supports[s]][Vault] + (IF to = Vault THEN n ELSE 0)
      BY <1>1, <1>3, <1>4
    <2>. QED  BY <1>2, <1>4, <2>1 DEF stock
  <1>6. \A d \in Colls \ {Supports[s]} : stock(d)' = stock(d)
    BY <1>2, <1>3 DEF stock
  <1>. QED  BY <1>5, <1>6

LEMMA Worthless ==
    ASSUME TypeOK, NEW c \in Colls
    PROVE  /\ worthOfSPA(0, reading(c)) = 0 /\ worthOfColla(0, reading(c)) = 0
           /\ worthOfUSDs(0) = 0
  <1>1. reading(c).priceSPA \in Nat /\ reading(c).priceColla \in Nat
    BY ReadingNow, MarketTypes
  <1>. QED  BY <1>1, PrecisionTypes DEF worthOfSPA, worthOfColla, worthOfUSDs

(* A mint keeps what it creates covered, up to the dust.                    *)
LEMMA MintCovered ==
    ASSUME SteadyPrices, TypeOK, TypeOK', NEW u \in Users, NEW c \in Colls,
           NEW type \in ValueTypes, NEW v \in Amounts, Mint(u, c, type, v)
    PROVE  cover <= cover' + dust /\ cover \in Int /\ cover' \in Int
  <1>. DEFINE q == MintQuote(c, type, v)
              a == q.USDsAmt
              b == q.swapFeeAmount
              s == q.SPABurnAmt
              k == q.collaDeptAmt
  <1>1. /\ a \in Nat /\ b \in Nat /\ s \in Nat /\ k \in Nat
        /\ worthOfUSDs(a + b) <= worthOfColla(k, reading(c)) + worthOfSPA(s, reading(c))
                                    + 3 * Dust(reading(c))
    BY MintQuoteFacts DEF Mint
  <1>2. /\ SPAburnt' = SPAburnt + s /\ totalSupply' = totalSupply + a + b
        /\ colla' = [colla EXCEPT ![c][u] = @ - k, ![c][Vault] = @ + k]
        /\ SPAminted' = SPAminted /\ funds' = funds
    BY DEF Mint, strategies
  <1>. HIDE DEF a, b, s, k, q
  <1>3. /\ u \in Users \cup {Vault} /\ Vault \in Users \cup {Vault} /\ u # Vault
    BY HolderFacts
  <1>4. /\ colla'[c][Vault] = colla[c][Vault] + k
        /\ \A d \in Colls \ {c} : colla'[d] = colla[d]
    <2>1. colla \in [Colls -> [Users \cup {Vault} -> Nat]]
      BY DEF TypeOK
    <2>. QED  BY <1>1, <1>2, <1>3, <2>1
  <1>5. \A d \in Colls : held(d)' = held(d)
    BY <1>2, HeldKept
  <1>6. stock(c)' = stock(c) + k /\ \A d \in Colls \ {c} : stock(d)' = stock(d)
    <2>1. held(c) \in Nat /\ colla[c][Vault] \in Nat
      BY <1>3, HeldFacts DEF TypeOK
    <2>. QED  BY <1>1, <1>4, <1>5, <2>1 DEF stock
  <1>7. /\ totalSupply' = totalSupply + (a + b) /\ SPAminted' = SPAminted + 0
        /\ a + b \in Int /\ s \in Int /\ k \in Int
    BY <1>1, <1>2, TallyFacts
  <1>8. /\ cover \in Int /\ cover' \in Int
        /\ cover' = cover + worthOfSPA(s, reading(c)) + worthOfColla(k, reading(c))
                      - worthOfUSDs(a + b) - worthOfSPA(0, reading(c))
    BY <1>2, <1>6, <1>7, CoverStep
  <1>9. /\ worthOfSPA(s, reading(c)) \in Int /\ worthOfColla(k, reading(c)) \in Int
        /\ worthOfUSDs(a + b) \in Int /\ worthOfSPA(0, reading(c)) = 0
    <2>1. worthOfSPA(0, reading(c)) = 0
      BY Worthless
    <2>. QED  BY <1>7, <2>1, WorthFacts
  <1>10. dust \in Nat /\ Dust(reading(c)) \in Nat /\ 3 * Dust(reading(c)) <= dust
    BY DustFacts
  <1>. QED  BY <1>1, <1>8, <1>9, <1>10

(* A redemption takes the collateral it pays, or nothing.                   *)
LEMMA PayoutStock ==
    ASSUME Slip = 0, TypeOK, TypeOK', NEW u \in Users, NEW c \in Colls, NEW k \in Nat,
           \/ fromVault(u, c, k)
           \/ fromStrategy(u, c, k)
           \/ fromNowhere(c, k)
    PROVE  /\ \E x \in {0, 0 - k} : stock(c)' = stock(c) + x
           /\ \A d \in Colls \ {c} : stock(d)' = stock(d)
  <1>1. /\ u \in Users \cup {Vault} /\ Vault \in Users \cup {Vault} /\ u # Vault
    BY HolderFacts
  <1>2. /\ \A d \in Colls : held(d) \in Nat /\ stock(d) \in Nat
        /\ \A d \in Colls : colla[d][Vault] \in Nat
    BY <1>1, HeldFacts DEF TypeOK
  <1>3. CASE fromVault(u, c, k)
    <2>1. /\ colla' = [colla EXCEPT ![c][Vault] = @ - k, ![c][u] = @ + k]
          /\ funds' = funds
      BY <1>3 DEF fromVault, strategies
    <2>2. /\ colla'[c][Vault] = colla[c][Vault] - k
          /\ \A d \in Colls \ {c} : colla'[d] = colla[d]
      <3>1. colla \in [Colls -> [Users \cup {Vault} -> Nat]]
        BY DEF TypeOK
      <3>. QED  BY <1>1, <2>1, <3>1
    <2>3. \A d \in Colls : held(d)' = held(d)
      BY <2>1, HeldKept
    <2>4. stock(c)' = stock(c) + (0 - k)
      BY <1>2, <2>2, <2>3 DEF stock
    <2>5. \A d \in Colls \ {c} : stock(d)' = stock(d)
      BY <2>2, <2>3 DEF stock
    <2>. QED  BY <2>4, <2>5
  <1>4. CASE fromStrategy(u, c, k)
    <2>1. Supports[strategyOf(c)] = c /\ strategyOf(c) \in Strats
      BY <1>4 DEF fromStrategy, employed, strategyOf, TypeOK, Info
    <2>2. PICK got \in trySub(k, Slip) .. k + Slip : withdraw(strategyOf(c), k, got, u)
      BY <1>4 DEF fromStrategy
    <2>3. got = k
      BY DEF trySub
    <2>4. withdraw(strategyOf(c), k, k, u)
      BY <2>2, <2>3
    <2>5. /\ stock(c)' = stock(c) - k
          /\ \A d \in Colls \ {c} : stock(d)' = stock(d)
      BY <1>1, <2>1, <2>4, StockStep
    <2>6. stock(c)' = stock(c) + (0 - k)
      BY <1>2, <2>5
    <2>. QED  BY <2>5, <2>6
  <1>5. CASE fromNowhere(c, k)
    <2>1. colla' = colla /\ funds' = funds
      BY <1>5 DEF fromNowhere, strategies
    <2>2. \A d \in Colls : stock(d)' = stock(d)
      BY <2>1, HeldKept DEF stock
    <2>3. stock(c)' = stock(c) + 0
      BY <1>2, <2>2
    <2>. QED  BY <2>2, <2>3
  <1>. QED  BY <1>3, <1>4, <1>5

(* A redemption keeps the rest of the supply covered, up to the dust.       *)
LEMMA RedeemCovered ==
    ASSUME SteadyPrices, Slip = 0, TypeOK, TypeOK', NEW u \in Users, NEW c \in Colls,
           NEW n \in Amounts, Redeem(u, c, n)
    PROVE  cover <= cover' + dust /\ cover \in Int /\ cover' \in Int
  <1>. DEFINE q == RedeemQuote(c, n)
              s == q.SPAMintAmt
              k == q.collaUnlockAmt
              d == q.USDsBurntAmt
  <1>1. /\ s \in Nat /\ k \in Nat /\ d \in Nat
        /\ worthOfColla(k, reading(c)) + worthOfSPA(s, reading(c))
              <= worthOfUSDs(d) + Dust(reading(c))
    BY RedeemQuoteFacts DEF Redeem
  <1>2. /\ SPAminted' = SPAminted + s /\ totalSupply' = totalSupply - d
        /\ SPAburnt' = SPAburnt
        /\ fromVault(u, c, k) \/ fromStrategy(u, c, k) \/ fromNowhere(c, k)
    BY DEF Redeem
  <1>. HIDE DEF s, k, d, q
  <1>3. PICK x \in {0, 0 - k} : stock(c)' = stock(c) + x
    BY <1>1, <1>2, PayoutStock
  <1>4. \A e \in Colls \ {c} : stock(e)' = stock(e)
    BY <1>1, <1>2, PayoutStock
  <1>5. /\ totalSupply' = totalSupply + (0 - d) /\ SPAburnt' = SPAburnt + 0
        /\ 0 - d \in Int /\ s \in Int /\ x \in Int /\ k \in Int /\ d \in Int
    BY <1>1, <1>2, <1>3, TallyFacts
  <1>6. /\ cover \in Int /\ cover' \in Int
        /\ cover' = cover + worthOfSPA(0, reading(c)) + worthOfColla(x, reading(c))
                      - worthOfUSDs(0 - d) - worthOfSPA(s, reading(c))
    BY <1>2, <1>3, <1>4, <1>5, CoverStep
  <1>7. /\ worthOfSPA(s, reading(c)) \in Int /\ worthOfUSDs(d) \in Int
        /\ worthOfUSDs(0 - d) = 0 - worthOfUSDs(d)
    <2>1. /\ worthOfUSDs((0 - d) + d) = worthOfUSDs(0 - d) + worthOfUSDs(d)
          /\ worthOfUSDs(d) \in Int /\ worthOfUSDs(0 - d) \in Int
          /\ worthOfSPA(s, reading(c)) \in Int
      BY <1>5, WorthFacts
    <2>2. (0 - d) + d = 0
      BY <1>5
    <2>3. worthOfUSDs(0) = 0
      BY Worthless
    <2>. QED  BY <2>1, <2>2, <2>3
  <1>8. /\ worthOfColla(x, reading(c)) \in Int /\ worthOfColla(k, reading(c)) \in Int
        /\ 0 - worthOfColla(k, reading(c)) <= worthOfColla(x, reading(c))
    <2>1. /\ worthOfColla((0 - k) + k, reading(c))
                = worthOfColla(0 - k, reading(c)) + worthOfColla(k, reading(c))
          /\ worthOfColla(k, reading(c)) \in Nat /\ worthOfColla(0 - k, reading(c)) \in Int
      BY <1>1, <1>5, WorthFacts
    <2>2. (0 - k) + k = 0
      BY <1>5
    <2>3. worthOfColla(0, reading(c)) = 0
      BY Worthless
    <2>. QED  BY <1>3, <2>1, <2>2, <2>3
  <1>9. worthOfSPA(0, reading(c)) = 0
    BY Worthless
  <1>10. dust \in Nat /\ Dust(reading(c)) \in Nat /\ 3 * Dust(reading(c)) <= dust
    BY DustFacts
  <1>. QED  BY <1>1, <1>6, <1>7, <1>8, <1>9, <1>10

(* What allocate takes from the vault is in the strategies.                 *)
LEMMA AllocateStock ==
    ASSUME Slip = 0, TypeOK, TypeOK', Allocate, NEW c \in Colls
    PROVE  stock(c)' = stock(c)
  <1>1. /\ \A d \in Colls : toAllocate(d) \in Nat
        /\ \A s \in Strats : allocatedTo(s) \in Nat
    BY AllocateTypes
  <1>2. \A s \in Strats : funds'[s] = funds[s] + allocatedTo(s)
    <2>1. PICK lost \in [Strats -> 0 .. Slip] :
             funds' = [s \in Strats |-> funds[s] + trySub(allocatedTo(s), lost[s])]
      BY DEF Allocate
    <2>2. \A s \in Strats : trySub(allocatedTo(s), lost[s]) = allocatedTo(s)
      BY <1>1 DEF trySub
    <2>. QED  BY <2>1, <2>2
  <1>3. colla'[c][Vault] = colla[c][Vault] - toAllocate(c)
    <2>1. /\ colla \in [Colls -> [Users \cup {Vault} -> Nat]]
          /\ colla' = [d \in Colls |-> [colla[d] EXCEPT ![Vault] = @ - toAllocate(d)]]
      BY DEF TypeOK, Allocate
    <2>. QED  BY <2>1
  <1>4. /\ Supporting(c) \subseteq Strats /\ IsFiniteSet(Supporting(c))
        /\ held(c) = SumFunctionOnSet(funds, Supporting(c)) /\ held(c) \in Nat
    BY HeldFacts
  <1>5. held(c)' = SumFunctionOnSet(funds', Supporting(c))
    BY DEF held, Supporting
  <1>6. \A s \in Strats : funds[s] \in Nat /\ funds'[s] \in Nat
    BY DEF TypeOK
  <1>7. PICK g : g = funds'
    OBVIOUS
  <1>8. held(c)' = held(c) + toAllocate(c)
    <2>1. CASE employed(c)
      <3>. DEFINE s == strategyOf(c)
      <3>1. s \in Strats /\ Supports[s] = c
        BY <2>1 DEF employed, strategyOf, TypeOK, Info
      <3>2. s \in Supporting(c) /\ allocatedTo(s) = toAllocate(c)
        BY <3>1 DEF Supporting, allocatedTo
      <3>3. \A r \in Supporting(c) \ {s} : allocatedTo(r) = 0
        BY DEF Supporting, allocatedTo
      <3>4. SumFunctionOnSet(g, Supporting(c))
               = SumFunctionOnSet(funds, Supporting(c)) + g[s] - funds[s]
        <4>1. \A r \in Supporting(c) : funds[r] \in Int /\ g[r] \in Int
          BY <1>4, <1>6, <1>7
        <4>2. \A r \in Supporting(c) \ {s} : g[r] = funds[r]
          BY <1>2, <1>4, <1>6, <1>7, <3>3
        <4>. QED  BY <1>4, <3>2, <4>1, <4>2, SumChange
      <3>5. g[s] = funds[s] + toAllocate(c)
        BY <1>2, <1>7, <3>1, <3>2
      <3>. QED  BY <1>1, <1>4, <1>5, <1>6, <1>7, <3>1, <3>4, <3>5
    <2>2. CASE ~employed(c)
      <3>1. toAllocate(c) = 0
        BY <2>2 DEF toAllocate
      <3>2. \A r \in Supporting(c) : allocatedTo(r) = 0
        BY <3>1 DEF Supporting, allocatedTo
      <3>3. \A r \in Supporting(c) : funds[r] \in Int /\ g[r] = funds[r]
        BY <1>2, <1>4, <1>6, <1>7, <3>2
      <3>4. SumFunctionOnSet(funds, Supporting(c)) = SumFunctionOnSet(g, Supporting(c))
        BY <1>4, <3>3, SumSame
      <3>. QED  BY <1>4, <1>5, <1>7, <3>1, <3>4
    <2>. QED  BY <2>1, <2>2
  <1>9. colla[c][Vault] \in Nat
    BY DEF TypeOK
  <1>. QED  BY <1>1, <1>3, <1>4, <1>8, <1>9 DEF stock

(* What neither mints nor redeems nor rebases moves nothing in or out.      *)
LEMMA OthersCover ==
    ASSUME SteadyPrices, Slip = 0, Worths = {}, TypeOK, TypeOK', ~rebaseAllowed, [Next]_vars,
           ~\E u \in Users, c \in Colls, n \in Amounts :
               \/ \E type \in ValueTypes : Mint(u, c, type, n)
               \/ Redeem(u, c, n)
    PROVE  cover' = cover
  <1>1. ASSUME NEW s \in Strats, NEW n \in Recalls, WithdrawToVault(s, n)
        PROVE  /\ UNCHANGED <<totalSupply, SPAminted, SPAburnt>>
               /\ \A d \in Colls : stock(d)' = stock(d)
    <2>1. PICK got \in trySub(n, Slip) .. n + Slip : withdraw(s, n, got, Vault)
      BY <1>1 DEF WithdrawToVault
    <2>2. n \in Nat /\ got = n /\ Vault \in Users \cup {Vault} /\ Supports[s] \in Colls
      BY VaultAssumption DEF trySub
    <2>3. withdraw(s, n, n, Vault)
      BY <2>1, <2>2
    <2>4. /\ stock(Supports[s])' = stock(Supports[s]) - 0
          /\ \A d \in Colls \ {Supports[s]} : stock(d)' = stock(d)
      BY <2>2, <2>3, StockStep
    <2>5. stock(Supports[s]) \in Nat
      BY <2>2, HeldFacts
    <2>. QED  BY <1>1, <2>4, <2>5 DEF WithdrawToVault
  <1>2. ASSUME Allocate
        PROVE  /\ UNCHANGED <<totalSupply, SPAminted, SPAburnt>>
               /\ \A d \in Colls : stock(d)' = stock(d)
    BY <1>2, AllocateStock DEF Allocate
  <1>3. ASSUME UNCHANGED <<totalSupply, SPAminted, SPAburnt, colla, funds>>
        PROVE  /\ UNCHANGED <<totalSupply, SPAminted, SPAburnt>>
               /\ \A d \in Colls : stock(d)' = stock(d)
    BY <1>3, HeldKept DEF stock
  <1>4. ASSUME NEW u \in Users, NEW n \in Sales, Sell(u, n)
        PROVE  UNCHANGED <<totalSupply, SPAminted, SPAburnt, colla, funds>>
    BY <1>4 DEF Sell, strategies
  <1>5. ASSUME NEW s \in Strats,
               \/ AddStrategy(s)
               \/ \E b \in BOOLEAN : UpdateStrategyRwdBuybackAddr(s, b)
               \/ RewardsAccrue(s)
        PROVE  UNCHANGED <<totalSupply, SPAminted, SPAburnt, colla, funds>>
    BY <1>5 DEF AddStrategy, UpdateStrategyRwdBuybackAddr, setStrategy, RewardsAccrue,
                tokens, strategies
  <1>6. ASSUME NEW c \in Colls, NEW i \in Infos[c],
               AddCollateral(c, i) \/ UpdateCollateralInfo(c, i)
        PROVE  UNCHANGED <<totalSupply, SPAminted, SPAburnt, colla, funds>>
    BY <1>6 DEF AddCollateral, UpdateCollateralInfo, tokens, strategies
  <1>7. ASSUME NEW b \in BOOLEAN,
               \/ UpdateMintBurnPermission(b)
               \/ UpdateAllocationPermission(b)
               \/ UpdateRebasePermission(b)
        PROVE  UNCHANGED <<totalSupply, SPAminted, SPAburnt, colla, funds>>
    BY <1>7 DEF UpdateMintBurnPermission, UpdateAllocationPermission,
                UpdateRebasePermission, tokens, strategies
  <1>8. ASSUME \/ \E p \in Settings : UpdateParameters(p)
               \/ \E in, out \in BOOLEAN : UpdateSwapInOutFeePermission(in, out)
        PROVE  UNCHANGED <<totalSupply, SPAminted, SPAburnt, colla, funds>>
    BY <1>8 DEF UpdateParameters, UpdateSwapInOutFeePermission, tokens, strategies
  <1>9. ASSUME \/ \E m \in Markets : MarketMoves(m)
               \/ BlocksPass
               \/ UNCHANGED vars
        PROVE  UNCHANGED <<totalSupply, SPAminted, SPAburnt, colla, funds>>
    BY <1>9 DEF MarketMoves, BlocksPass, vars, tokens, strategies
  <1>10. ~Rebase
    BY DEF Rebase
  <1>11. \/ \E s \in Strats, n \in Recalls : WithdrawToVault(s, n)
         \/ Allocate
         \/ UNCHANGED <<totalSupply, SPAminted, SPAburnt, colla, funds>>
    <2>1. CASE Next
      BY <1>4, <1>5, <1>6, <1>7, <1>8, <1>9, <1>10, <2>1 DEF Next
    <2>2. CASE UNCHANGED vars
      BY <1>9, <2>2, Zenon
    <2>. QED  BY <2>1, <2>2
  <1>12. /\ UNCHANGED <<totalSupply, SPAminted, SPAburnt>>
         /\ \A d \in Colls : stock(d)' = stock(d)
    BY <1>1, <1>2, <1>3, <1>11
  <1>. QED  BY <1>12, CoverKept

(* FullyBacked bounds the cover from below.                                 *)
LEMMA CoverFacts ==
    ASSUME TypeOK
    PROVE  /\ cover \in Int /\ calls \in Nat /\ dust \in Nat
           /\ FullyBacked <=> 0 <= cover + calls * dust
  <1>1. market.priceSPA \in Nat
    BY VaultAssumption DEF TypeOK
  <1>2. \A n \in Nat : worthOfSPA(n, market) \in Int
    BY <1>1, MulNat, PrecisionTypes DEF worthOfSPA
  <1>3. totalSupply \in Nat /\ SPAminted \in Nat /\ SPAburnt \in Nat
    BY DEF TypeOK
  <1>4. worthOfUSDs(totalSupply) \in Int
    BY <1>3, MulNat, PrecisionTypes DEF worthOfUSDs
  <1>5. reserves \in Int
    <2>1. PICK f : f = [d \in Colls |-> worthOfColla(stock(d), reading(d))]
      OBVIOUS
    <2>2. reserves = SumFunctionOnSet(f, Colls)
      BY <2>1 DEF reserves, stock
    <2>3. ASSUME NEW d \in Colls, NEW n \in Nat  PROVE worthOfColla(n, reading(d)) \in Int
      BY WorthFacts
    <2>4. \A d \in Colls : stock(d) \in Nat
      BY HeldFacts
    <2>5. \A d \in Colls : f[d] \in Int
      BY <2>1, <2>3, <2>4
    <2>. QED  BY <2>2, <2>5, VaultAssumption, SumInt
  <1>6. calls \in Nat
    BY BoundTypes DEF TypeOK
  <1>7. dust \in Nat
    BY DustFacts
  <1>8. calls * dust \in Nat
    BY <1>6, <1>7, MulNat
  <1>9. worthOfSPA(SPAburnt, market) \in Int /\ worthOfSPA(SPAminted, market) \in Int
    BY <1>2, <1>3
  <1>. QED  BY <1>4, <1>5, <1>6, <1>7, <1>8, <1>9 DEF cover, FullyBacked

LEMMA CoverNow == TypeOK => (FullyBacked <=> 0 <= cover + calls * dust)
  BY CoverFacts

LEMMA CoverNext == (TypeOK => (FullyBacked <=> 0 <= cover + calls * dust))'
  BY CoverNow, PTL

LEMMA InitCover == ASSUME Init, TypeOK PROVE FullyBacked
  <1>1. /\ totalSupply = 0 /\ SPAminted = 0 /\ SPAburnt = 0 /\ calls = 0
        /\ \A s \in Strats : funds[s] = 0
    BY DEF Init
  <1>2. ASSUME NEW c \in Colls  PROVE stock(c) = 0
    <2>1. Vault \in Users \cup {Vault} /\ colla[c][Vault] = 0
      BY DEF Init
    <2>2. SumFunctionOnSet(funds, Supporting(c)) = 0
      <3>1. \A s \in Supporting(c) : funds[s] = 0
        BY <1>1 DEF Supporting
      <3>. QED  BY <3>1, HeldFacts, SumZero
    <2>. QED  BY <2>1, <2>2, HeldFacts DEF stock
  <1>3. reserves = 0
    <2>1. PICK f : f = [d \in Colls |-> worthOfColla(stock(d), reading(d))]
      OBVIOUS
    <2>2. reserves = SumFunctionOnSet(f, Colls)
      BY <2>1 DEF reserves, stock
    <2>3. \A d \in Colls : f[d] = 0
      BY <1>2, <2>1, Worthless
    <2>. QED  BY <2>2, <2>3, VaultAssumption, SumZero
  <1>4. market.priceSPA \in Nat
    BY VaultAssumption DEF TypeOK
  <1>5. worthOfUSDs(0) = 0 /\ worthOfSPA(0, market) = 0
    BY <1>4, PrecisionTypes DEF worthOfUSDs, worthOfSPA
  <1>6. cover = 0
    BY <1>1, <1>3, <1>5 DEF cover
  <1>7. calls * dust = 0
    BY <1>1, CoverFacts
  <1>. QED  BY <1>6, <1>7, CoverFacts

LEMMA CoveredOnce ==
    ASSUME NEW a \in Int, NEW b \in Int, NEW n \in Nat, NEW d \in Nat,
           0 <= a + n * d, a <= b + d
    PROVE  0 <= b + (n + 1) * d
  <1>1. (n + 1) * d = n * d + d /\ n * d \in Nat
    BY SMT
  <1>. QED  BY <1>1

BackedInv == VInv /\ ~rebaseAllowed /\ FullyBacked

(* With steady prices, no rebase and a Curve that neither keeps nor gives   *)
(* anything, the supply stays backed by what vault and strategies hold and  *)
(* the SPA burnt for it, whatever users and owner do (_mint, _redeem,       *)
(* allocate, withdrawToVault).                                              *)
THEOREM SupplyIsBacked ==
    ASSUME SteadyPrices, "rebase" \notin Toggled, Slip = 0, Worths = {}
    PROVE  Spec => []FullyBacked
  <1>1. Init => BackedInv
    <2>1. ASSUME Init PROVE VInv /\ TypeOK /\ ~rebaseAllowed
      BY <2>1, InitInv DEF VInv, Init
    <2>. QED  BY <2>1, InitCover DEF BackedInv
  <1>2. BackedInv /\ [Next]_vars => BackedInv'
    <2>. SUFFICES ASSUME BackedInv, [Next]_vars  PROVE BackedInv'
      OBVIOUS
    <2>1. VInv /\ VInv' /\ TypeOK /\ TypeOK' /\ ~rebaseAllowed
      BY NextInv DEF BackedInv, VInv
    <2>2. /\ cover \in Int /\ calls \in Nat /\ dust \in Nat
          /\ 0 <= cover + calls * dust
      BY <2>1, CoverFacts DEF BackedInv
    <2>3. dust' = dust
      BY <2>1, SteadySums
    <2>4. FullyBacked' <=> 0 <= cover' + calls' * dust'
      BY <2>1, CoverNext
    <2>5. CASE \E u \in Users, c \in Colls, n \in Amounts :
                  \/ \E type \in ValueTypes : Mint(u, c, type, n)
                  \/ Redeem(u, c, n)
      <3>1. cover <= cover' + dust /\ cover' \in Int
        BY <2>1, <2>5, MintCovered, RedeemCovered
      <3>2. calls' = calls + 1 /\ ~rebaseAllowed'
        BY <2>1, <2>5, CallsCount
      <3>3. 0 <= cover' + (calls + 1) * dust
        BY <2>2, <3>1, CoveredOnce
      <3>4. 0 <= cover' + calls' * dust'
        BY <2>3, <3>2, <3>3
      <3>. QED  BY <2>1, <2>4, <3>2, <3>4 DEF BackedInv
    <2>6. CASE ~\E u \in Users, c \in Colls, n \in Amounts :
                  \/ \E type \in ValueTypes : Mint(u, c, type, n)
                  \/ Redeem(u, c, n)
      <3>1. cover' = cover
        BY <2>1, <2>6, OthersCover
      <3>2. ~rebaseAllowed' /\ calls' = calls
        BY <2>1, <2>6, OthersGiveNothing
      <3>3. 0 <= cover' + calls' * dust'
        BY <2>2, <2>3, <3>1, <3>2
      <3>. QED  BY <2>1, <2>4, <3>2, <3>3 DEF BackedInv
    <2>. QED  BY <2>5, <2>6
  <1>3. BackedInv => FullyBacked
    BY DEF BackedInv
  <1>. QED  BY <1>1, <1>2, <1>3, PTL DEF Spec

=============================================================================
