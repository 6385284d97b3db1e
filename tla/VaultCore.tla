----------------------------- MODULE VaultCore -----------------------------
(***************************************************************************)
(* contracts/vault/VaultCore.sol: users mint USDs for collateral and SPA   *)
(* and redeem them; the owner lets collateral work in strategies; a        *)
(* rebaser sells what the strategies earn for USDs and hands them out.     *)
(*                                                                         *)
(* Beyond the vault itself the module keeps what its calls move: wallets   *)
(* in USDs, SPA and collateral, the strategies seen through IStrategy, and *)
(* the pool where the buybacks trade.  USDs are a ledger in which a        *)
(* rebase scales the wallets of users and of the fee vault (USDsL2 has the *)
(* credits behind it); all collaterals have the same number of decimals.   *)
(* Users have approved the vault.  A call that reverts is no step.         *)
(***************************************************************************)
EXTENDS Integers, VaultCoreTools, FiniteSets, Functions

CONSTANTS
    Users, FeeVault, Vault, Pool,      \* who holds USDs; Pool trades for the buybacks
    Colls, Strats, NoStrat,            \* collaterals, strategies, address(0)
    Supports,                          \* the collateral a strategy supports
    Rewarding,                         \* strategies with a reward token
    InterestThreshold, RewardThreshold,
    Slip,                              \* what Curve may take or add per call
    Amounts, Sales, Recalls,           \* what users mint, redeem; sell; owners recall
    Infos, Toggled, Known,             \* entries per collateral, switches in use,
                                       \* strategies the owner registers
    Markets, Settings,                 \* oracle readings, parameters and fee switches
    Worths, Fills,                     \* what a strategy may come to be worth;
                                       \* percentages of a fair price buybacks get
    PurseSPA, PurseColla,              \* what a user starts with
    MaxCalls, MaxAge, MaxRewards       \* bounds

VARIABLES
    usds, totalSupply,                 \* balances of USDs and their recorded sum
    spa, SPAminted, SPAburnt,          \* SPA of the users; the vault's two tallies
    colla,                             \* collateral of users and vault
    funds, allocatedAmt, claimable,    \* per strategy: checkBalance, principal, rewards
    mintRedeemAllowed, allocationAllowed, rebaseAllowed,
    collateralsInfo,                   \* allCollateralAddr: the added ones
    strategiesInfo,                    \* registered or not, with a reward buyback or not
    market, params, blocks,            \* the oracle, the parameters, the vault's age
    calls                              \* mints, redemptions and rebases so far

tokens == <<usds, totalSupply, spa, SPAminted, SPAburnt, colla>>
strategies == <<funds, allocatedAmt, claimable>>
switches == <<mintRedeemAllowed, allocationAllowed, rebaseAllowed>>
settings == <<collateralsInfo, strategiesInfo>>
world == <<market, blocks>>
vars == <<tokens, strategies, switches, settings, world, params, calls>>

Holders == Users \cup {FeeVault, Vault, Pool}
Rebasing == Users \cup {FeeVault}    \* the others are contracts

Info == [added : BOOLEAN, defaultStrategyAddr : Strats \cup {NoStrat},
         allocationAllowed : BOOLEAN, allocatePercentage : 0 .. 255,
         buyBackSet : BOOLEAN, rebaseAllowed : BOOLEAN]

ASSUME VaultAssumption ==
    /\ IsFiniteSet(Users) /\ IsFiniteSet(Colls) /\ IsFiniteSet(Strats)
    /\ Supports \in [Strats -> Colls] /\ NoStrat \notin Strats
    /\ Rewarding \cup Known \subseteq Strats
    /\ FeeVault # Vault /\ FeeVault # Pool /\ Vault # Pool
    /\ Users \cap {FeeVault, Vault, Pool} = {}
    /\ Markets \subseteq [priceUSDs : Nat, averageUSDs : Nat, inOut : Nat,
                           priceSPA : Nat \ {0}, priceColla : [Colls -> Nat \ {0}]]
    /\ Settings \subseteq ParameterType
    /\ Amounts \cup Sales \cup Recalls \subseteq Nat \ {0} /\ Worths \cup Fills \subseteq Nat
    /\ \A c \in Colls : Infos[c] \subseteq {i \in Info : i.added}
    /\ Toggled \subseteq {"mintRedeem", "allocation", "rebase"}
    /\ {InterestThreshold, RewardThreshold, Slip, PurseSPA, PurseColla,
        MaxCalls, MaxAge, MaxRewards} \subseteq Nat

TypeOK ==
    /\ usds \in [Holders -> Nat] /\ totalSupply \in Nat
    /\ spa \in [Users -> Nat] /\ SPAminted \in Nat /\ SPAburnt \in Nat
    /\ colla \in [Colls -> [Users \cup {Vault} -> Nat]]
    /\ funds \in [Strats -> Nat] /\ allocatedAmt \in [Strats -> Nat]
    /\ claimable \in [Strats -> Nat]
    /\ {mintRedeemAllowed, allocationAllowed, rebaseAllowed} \subseteq BOOLEAN
    /\ collateralsInfo \in [Colls -> Info]
    /\ strategiesInfo \in [Strats -> {"unknown", "added", "buyback"}]
    /\ market \in Markets /\ params \in Settings
    /\ blocks \in 0 .. MaxAge /\ calls \in 0 .. MaxCalls

NotAdded == [added |-> FALSE, defaultStrategyAddr |-> NoStrat,
             allocationAllowed |-> FALSE, allocatePercentage |-> 0,
             buyBackSet |-> FALSE, rebaseAllowed |-> FALSE]

(* initialize, with the token, oracle and tools addresses set.              *)
Init ==
    /\ usds = [h \in Holders |-> 0] /\ totalSupply = 0
    /\ spa = [u \in Users |-> PurseSPA] /\ SPAminted = 0 /\ SPAburnt = 0
    /\ colla = [c \in Colls |-> [h \in Users \cup {Vault} |->
                                     IF h = Vault THEN 0 ELSE PurseColla]]
    /\ funds = [s \in Strats |-> 0] /\ allocatedAmt = [s \in Strats |-> 0]
    /\ claimable = [s \in Strats |-> 0]
    /\ mintRedeemAllowed = TRUE
    /\ allocationAllowed = FALSE /\ rebaseAllowed = FALSE
    /\ collateralsInfo = [c \in Colls |-> NotAdded]
    /\ strategiesInfo = [s \in Strats |-> "unknown"]
    /\ market \in Markets /\ params \in {p \in Settings : ~p.feeIn /\ ~p.feeOut}
    /\ blocks = 0 /\ calls = 0

-----------------------------------------------------------------------------
(* Views.                                                                   *)

added == {c \in Colls : collateralsInfo[c].added}
strategyOf(c) == collateralsInfo[c].defaultStrategyAddr
(* c's default strategy is there and supports c.                            *)
employed(c) == strategyOf(c) # NoStrat /\ Supports[strategyOf(c)] = c

(* The oracle as VaultCoreTools reads it for collateral c.                  *)
reading(c) == [market EXCEPT !.priceColla = market.priceColla[c]]

valueOf(n, c) == ((n * market.priceColla[c]) \div CollaPrec) * CollaScale
valueInVault(c) == valueOf(colla[c][Vault], c)
valueInStrategy(c) == IF employed(c) THEN valueOf(funds[strategyOf(c)], c) ELSE 0
totalValueLocked ==
    SumFunctionOnSet([c \in Colls |-> valueInVault(c) + valueInStrategy(c)], added)

USDsValue == (totalSupply * market.priceUSDs) \div USDsPrec
collateralRatio == (totalValueLocked * ChiPrec) \div USDsValue

-----------------------------------------------------------------------------
(* Minting and redeeming.                                                   *)

chiNow == chiMint(blocks, market, params)
MintQuote(c, type, v) ==
    mintView(v, type, chiNow, calculateSwapFeeIn(market, params), reading(c))

(* mintBySpecifyingUSDsAmt, ...SPAamt and ...CollateralAmt, by type; the    *)
(* limits a user sets can only stop the call.                               *)
Mint(u, c, type, v) ==
    LET q == MintQuote(c, type, v)
    IN  /\ calls < MaxCalls
        /\ mintRedeemAllowed
        /\ collateralsInfo[c].added
        /\ mintable(type, chiNow)
        /\ q.SPABurnAmt <= spa[u]
        /\ q.collaDeptAmt <= colla[c][u]
        /\ spa' = [spa EXCEPT ![u] = @ - q.SPABurnAmt]
        /\ SPAburnt' = SPAburnt + q.SPABurnAmt
        /\ colla' = [colla EXCEPT ![c][u] = @ - q.collaDeptAmt,
                                  ![c][Vault] = @ + q.collaDeptAmt]
        /\ usds' = [usds EXCEPT ![u] = @ + q.USDsAmt, ![FeeVault] = @ + q.swapFeeAmount]
        /\ totalSupply' = totalSupply + q.USDsAmt + q.swapFeeAmount
        /\ calls' = calls + 1
        /\ UNCHANGED <<SPAminted, strategies, switches, settings, world, params>>

RedeemQuoteMixed(c, n) ==    \* mutated: collateral by the mint's share
    [redeemView(n, chiRedeem(blocks, market, params, collateralRatio),
                calculateSwapFeeOut(market, params), reading(c))
       EXCEPT !.collaUnlockAmt =
          redeemView(n, chiNow, calculateSwapFeeOut(market, params), reading(c)).collaUnlockAmt]
RedeemQuote(c, n) ==
    redeemView(n, chiRedeem(blocks, market, params, collateralRatio),
               calculateSwapFeeOut(market, params), reading(c))

(* What is left of s's principal when it was asked for an amount and paid   *)
(* what it got from Curve.                                                  *)
principalLessAsked(s, amount, got) ==    \* mutated: by what was asked for
    trySub(allocatedAmt[s], amount)
principalLess(s, amount, got) == trySub(allocatedAmt[s], got)

(* Where the collateral of a redemption comes from.  All of it from the     *)
(* vault, or all of it from the strategy, which pays what Curve gives; with *)
(* a default strategy that does not support c the call goes on all the same.*)
fromVaultUnchecked(u, c, amount) ==    \* mutated: does not look at the balance
    /\ colla' = [colla EXCEPT ![c][Vault] = @ - amount, ![c][u] = @ + amount]
    /\ UNCHANGED strategies
fromVault(u, c, amount) ==
    /\ colla[c][Vault] >= amount
    /\ colla' = [colla EXCEPT ![c][Vault] = @ - amount, ![c][u] = @ + amount]
    /\ UNCHANGED strategies

withdraw(s, amount, got, to) ==
    /\ amount > 0 /\ funds[s] >= amount
    /\ funds' = [funds EXCEPT ![s] = @ - amount]
    /\ allocatedAmt' = [allocatedAmt EXCEPT ![s] = principalLess(s, amount, got)]
    /\ colla' = [colla EXCEPT ![Supports[s]][to] = @ + got]
    /\ UNCHANGED claimable

fromStrategy(u, c, amount) ==
    /\ colla[c][Vault] < amount
    /\ employed(c)
    /\ \E got \in trySub(amount, Slip) .. amount + Slip :
           withdraw(strategyOf(c), amount, got, u)

fromNowhereElse(c, amount) ==    \* mutated: does not withdraw from the strategy
    /\ colla[c][Vault] < amount
    /\ strategyOf(c) # NoStrat
    /\ UNCHANGED <<colla, strategies>>
fromNowhere(c, amount) ==
    /\ colla[c][Vault] < amount
    /\ strategyOf(c) # NoStrat /\ ~employed(c)
    /\ UNCHANGED <<colla, strategies>>

Redeem(u, c, n) ==
    LET q == RedeemQuote(c, n)
    IN  /\ calls < MaxCalls
        /\ mintRedeemAllowed
        /\ collateralsInfo[c].added
        /\ USDsValue > 0
        /\ redeemable(blocks, market, params, collateralRatio)
        /\ n <= usds[u]
        /\ spa' = [spa EXCEPT ![u] = @ + q.SPAMintAmt]
        /\ SPAminted' = SPAminted + q.SPAMintAmt
        /\ \/ fromVault(u, c, q.collaUnlockAmt)
           \/ fromStrategy(u, c, q.collaUnlockAmt)
           \/ fromNowhere(c, q.collaUnlockAmt)
        /\ usds' = [usds EXCEPT ![u] = @ - n, ![FeeVault] = @ + q.swapFeeAmount]
        /\ totalSupply' = totalSupply - q.USDsBurntAmt
        /\ calls' = calls + 1
        /\ UNCHANGED <<SPAburnt, switches, settings, world, params>>

-----------------------------------------------------------------------------
(* Allocating collateral to the strategies.                                 *)

optimalOfVault(c) ==    \* mutated: ignores what the strategy holds already
    funds[strategyOf(c)]
      + (colla[c][Vault] * collateralsInfo[c].allocatePercentage) \div 100
(* How much of c the strategy should hold, of what strategy and vault have. *)
optimal(c) == ((funds[strategyOf(c)] + colla[c][Vault])
                   * collateralsInfo[c].allocatePercentage) \div 100
toAllocate(c) ==
    IF c \in added /\ employed(c) /\ collateralsInfo[c].allocationAllowed
       THEN trySub(optimal(c), funds[strategyOf(c)]) ELSE 0
allocatedTo(s) == IF strategyOf(Supports[s]) = s THEN toAllocate(Supports[s]) ELSE 0

Allocate ==
    /\ allocationAllowed
    /\ \A c \in Colls : toAllocate(c) <= colla[c][Vault]
    /\ colla' = [c \in Colls |-> [colla[c] EXCEPT ![Vault] = @ - toAllocate(c)]]
    /\ allocatedAmt' = [s \in Strats |-> allocatedAmt[s] + allocatedTo(s)]
    /\ \E lost \in [Strats -> 0 .. Slip] :
           funds' = [s \in Strats |-> funds[s] + trySub(allocatedTo(s), lost[s])]
    /\ UNCHANGED <<usds, totalSupply, spa, SPAminted, SPAburnt, claimable,
                   switches, settings, world, params, calls>>

-----------------------------------------------------------------------------
(* Rebasing.                                                                *)

(* The strategies the harvest visits.                                       *)
harvested ==
    {strategyOf(c) : c \in {k \in added : employed(k) /\ collateralsInfo[k].rebaseAllowed}}

interestOf(s) == trySub(funds[s], allocatedAmt[s])
collects(s) == s \in harvested /\ interestOf(s) > InterestThreshold
claims(s) == s \in harvested \cap Rewarding /\ claimable[s] > RewardThreshold

(* What it is worth in USDs; the buybacks accept any price.                 *)
proceeds ==
    SumFunctionOnSet([s \in Strats |-> valueOf(interestOf(s), Supports[s])],
                     {s \in Strats : collects(s)})
      + SumFunctionOnSet(claimable, {s \in Strats : claims(s)})

(* Each wallet that rebases is scaled so that all of them make up the new   *)
(* supply together with those that do not.                                  *)
scaled(balances, newSupply) ==
    LET before == SumFunctionOnSet(balances, Rebasing)
        after == newSupply - balances[Vault] - balances[Pool]
    IN  [h \in Holders |-> IF h \in Rebasing THEN (balances[h] * after) \div before
                           ELSE balances[h]]

moved(from, to, n) == [usds EXCEPT ![from] = @ - n, ![to] = @ + n]

burntByVault(balances, inc) == [balances EXCEPT ![Vault] = @ - inc]

newSupplyShort(inc) == totalSupply - inc    \* mutated: burns without handing out
newSupply(inc) == totalSupply + inc

Rebase ==
    /\ calls < MaxCalls
    /\ rebaseAllowed
    /\ \A s \in Strats : collects(s) => collateralsInfo[Supports[s]].buyBackSet
    /\ \A s \in Strats : claims(s) => strategiesInfo[s] = "buyback"
    /\ funds' = [s \in Strats |-> IF collects(s) THEN funds[s] - interestOf(s) ELSE funds[s]]
    /\ claimable' = [s \in Strats |-> IF claims(s) THEN 0 ELSE claimable[s]]
    /\ \E f \in Fills :
         LET inc == (proceeds * f) \div 100
         IN
           \/ inc = 0 /\ UNCHANGED <<usds, totalSupply>>
           \/ /\ 0 < inc /\ inc <= usds[Pool]
              /\ \E h \in Rebasing : usds[h] > 0
              /\ usds' = scaled(burntByVault(moved(Pool, Vault, inc), inc), newSupply(inc))
              /\ totalSupply' = newSupply(inc)
    /\ calls' = calls + 1
    /\ UNCHANGED <<spa, SPAminted, SPAburnt, colla, allocatedAmt,
                   switches, settings, world, params>>

-----------------------------------------------------------------------------
(* The owner's operations.                                                  *)

AddCollateral(c, info) ==
    /\ ~collateralsInfo[c].added
    /\ collateralsInfo' = [collateralsInfo EXCEPT ![c] = info]
    /\ UNCHANGED <<tokens, strategies, switches, strategiesInfo, world, params, calls>>

UpdateCollateralInfo(c, info) ==
    /\ collateralsInfo[c].added
    /\ collateralsInfo' = [collateralsInfo EXCEPT ![c] = info]
    /\ UNCHANGED <<tokens, strategies, switches, strategiesInfo, world, params, calls>>

setStrategy(s, state) ==
    /\ strategiesInfo' = [strategiesInfo EXCEPT ![s] = state]
    /\ UNCHANGED <<tokens, strategies, switches, collateralsInfo, world, params, calls>>

AddStrategy(s) ==
    /\ s \in Known
    /\ strategiesInfo[s] = "unknown"
    /\ setStrategy(s, "added")

UpdateStrategyRwdBuybackAddr(s, set) ==
    /\ strategiesInfo[s] # "unknown"
    /\ setStrategy(s, IF set THEN "buyback" ELSE "added")

UpdateMintBurnPermission(b) ==
    /\ "mintRedeem" \in Toggled
    /\ mintRedeemAllowed' = b
    /\ UNCHANGED <<tokens, strategies, allocationAllowed, rebaseAllowed, settings,
                   world, params, calls>>

UpdateAllocationPermission(b) ==
    /\ "allocation" \in Toggled
    /\ allocationAllowed' = b
    /\ UNCHANGED <<tokens, strategies, mintRedeemAllowed, rebaseAllowed, settings,
                   world, params, calls>>

UpdateRebasePermission(b) ==
    /\ "rebase" \in Toggled
    /\ rebaseAllowed' = b
    /\ UNCHANGED <<tokens, strategies, mintRedeemAllowed, allocationAllowed, settings,
                   world, params, calls>>

UpdateParameters(p) ==
    /\ p.feeIn = params.feeIn /\ p.feeOut = params.feeOut
    /\ params' = p
    /\ UNCHANGED <<tokens, strategies, switches, settings, world, calls>>

UpdateSwapInOutFeePermission(in, out) ==
    /\ params' = [params EXCEPT !.feeIn = in, !.feeOut = out]
    /\ params' \in Settings
    /\ UNCHANGED <<tokens, strategies, switches, settings, world, calls>>

(* The owner of a strategy takes collateral home (TwoPoolStrategy).         *)
WithdrawToVault(s, amount) ==
    /\ \E got \in trySub(amount, Slip) .. amount + Slip : withdraw(s, amount, got, Vault)
    /\ UNCHANGED <<usds, totalSupply, spa, SPAminted, SPAburnt,
                   switches, settings, world, params, calls>>

-----------------------------------------------------------------------------
(* What happens outside.                                                    *)

(* What a strategy holds is worth more or less as Curve's pool moves.       *)
CurveMoves(s, n) ==
    /\ funds[s] > 0
    /\ funds' = [funds EXCEPT ![s] = n]
    /\ UNCHANGED <<tokens, allocatedAmt, claimable, switches, settings, world, params, calls>>

RewardsAccrue(s) ==
    /\ s \in Rewarding /\ funds[s] > 0 /\ claimable[s] < MaxRewards
    /\ claimable' = [claimable EXCEPT ![s] = MaxRewards]
    /\ UNCHANGED <<tokens, funds, allocatedAmt, switches, settings, world, params, calls>>

(* A user sells USDs to the pool, or gives it liquidity.                    *)
Sell(u, n) ==
    /\ n <= usds[u]
    /\ usds' = moved(u, Pool, n)
    /\ UNCHANGED <<totalSupply, spa, SPAminted, SPAburnt, colla,
                   strategies, switches, settings, world, params, calls>>

MarketMoves(m) ==
    /\ market' = m
    /\ UNCHANGED <<tokens, strategies, switches, settings, blocks, params, calls>>

BlocksPass ==
    /\ blocks < MaxAge
    /\ blocks' = blocks + 1
    /\ UNCHANGED <<tokens, strategies, switches, settings, market, params, calls>>

Next ==
    \/ \E u \in Users :
           \/ \E c \in Colls, n \in Amounts :
                  \/ \E type \in ValueTypes : Mint(u, c, type, n)
                  \/ Redeem(u, c, n)
           \/ \E n \in Sales : Sell(u, n)
    \/ Allocate
    \/ Rebase
    \/ \E c \in Colls : \E i \in Infos[c] : AddCollateral(c, i) \/ UpdateCollateralInfo(c, i)
    \/ \E s \in Strats :
           \/ AddStrategy(s)
           \/ \E b \in BOOLEAN : UpdateStrategyRwdBuybackAddr(s, b)
           \/ \E n \in Recalls : WithdrawToVault(s, n)
           \/ \E n \in Worths : CurveMoves(s, n)
           \/ RewardsAccrue(s)
    \/ \E b \in BOOLEAN :
           \/ UpdateMintBurnPermission(b)
           \/ UpdateAllocationPermission(b)
           \/ UpdateRebasePermission(b)
    \/ \E p \in Settings : UpdateParameters(p)
    \/ \E in, out \in BOOLEAN : UpdateSwapInOutFeePermission(in, out)
    \/ \E m \in Markets : MarketMoves(m)
    \/ BlocksPass

Spec == Init /\ [][Next]_vars

-----------------------------------------------------------------------------
(* Properties.                                                              *)

(* What a call may give away: rounding, and what Curve may add.             *)
dust == SumFunctionOnSet([c \in Colls |-> 3 * Dust(reading(c))], Colls)
windfall == SumFunctionOnSet([c \in Colls |-> worthOfColla(Slip, reading(c))], Colls)
collaOf(u) == SumFunctionOnSet([c \in Colls |-> worthOfColla(colla[c][u], reading(c))], Colls)
wealth(u) == worthOfUSDs(usds[u]) + worthOfSPA(spa[u], market) + collaOf(u)
purse ==
    worthOfSPA(PurseSPA, market)
      + SumFunctionOnSet([c \in Colls |-> worthOfColla(PurseColla, reading(c))], Colls)

(* While prices stand still nobody becomes richer by minting and redeeming, *)
(* but for rounding and what Curve adds, in whatever order, with whatever   *)
(* collateral, as chi, the fees and the collateral ratio change in between  *)
(* (_mint, _redeem).                                                        *)
NoValueFromNothing ==
    \A u \in Users : wealth(u) <= purse + calls * (dust + windfall)

held(c) == SumFunctionOnSet(funds, {s \in Strats : Supports[s] = c})
reserves ==
    SumFunctionOnSet([c \in Colls |-> worthOfColla(colla[c][Vault] + held(c), reading(c))],
                     Colls)

(* While prices stand still every USDs, the fee vault's too, is backed: the *)
(* collateral in vault and strategies and the SPA burnt, less the SPA       *)
(* minted, are worth the supply, wherever redemptions took collateral from  *)
(* and allocate left it.                                                    *)
FullyBacked ==
    worthOfUSDs(totalSupply) + worthOfSPA(SPAminted, market)
        <= worthOfSPA(SPAburnt, market) + calls * dust + reserves

paid(u, c) == colla'[c][u] - colla[c][u]

(* A redemption pays the collateral it quotes, up to Curve's slippage, from *)
(* the vault or from a default strategy that supports it (_redeem).         *)
RedeemPays ==
    [][\A u \in Users, c \in Colls, n \in Amounts :
           (Redeem(u, c, n) /\ (strategyOf(c) # NoStrat => employed(c))) =>
               paid(u, c) + Slip >= RedeemQuote(c, n).collaUnlockAmt]_vars

(* redeem's own comments: USDs are redeemed "to collateral and SPA", and    *)
(* slippageCollat is the "minimum amount of collateral to be unlocked",     *)
(* which the quote has passed.                                              *)
RedeemPaysOrReverts ==
    [][\A u \in Users, c \in Colls, n \in Amounts :
           Redeem(u, c, n) => paid(u, c) + Slip >= RedeemQuote(c, n).collaUnlockAmt]_vars

(* After allocate there is nothing left to allocate, up to what Curve took, *)
(* and the vault keeps its share of each collateral it moved (allocate).    *)
AllocateSettles ==
    [][Allocate =>
         \A c \in Colls :
            /\ toAllocate(c)' <= Slip
            /\ toAllocate(c) > 0 =>
                 colla'[c][Vault] * 100 >=
                    (100 - collateralsInfo[c].allocatePercentage)
                       * (colla[c][Vault] + funds[strategyOf(c)])]_vars

(* Collateral in somebody's hands, or recorded as principal of a strategy   *)
(* other than s; and what the users brought.                                *)
inHands(c) == SumFunctionOnSet(colla[c], Users \cup {Vault})
principalElsewhere(s) ==
    SumFunctionOnSet(allocatedAmt, {r \in Strats \ {s} : Supports[r] = Supports[s]})
brought == Cardinality(Users) * PurseColla

(* A rebase sells what a strategy earned and nothing that users brought:    *)
(* after the harvest the strategy still holds all the collateral that is    *)
(* neither in somebody's hands nor another strategy's principal, however    *)
(* Curve gained, lost and slipped, and whatever was allocated, recalled and *)
(* redeemed before (_harvestInterest, _withdraw's allocatedAmt).            *)
HarvestSparesDeposits ==
    [][Rebase => \A s \in Strats : collects(s) =>
           funds'[s] + principalElsewhere(s) + inHands(Supports[s]) >= brought]_vars

bought == usds[Pool] - usds'[Pool]
gained == SumFunctionOnSet([h \in Rebasing |-> usds'[h] - usds[h]], Rebasing)

(* What the buybacks bought reaches the holders, up to the rounding of each *)
(* wallet; nobody's wallet shrinks, and the vault keeps nothing (rebase).   *)
EarningsReachHolders ==
    [][Rebase =>
         /\ gained + Cardinality(Rebasing) >= bought
         /\ \A h \in Holders \ {Pool} : usds'[h] >= usds[h]
         /\ usds'[Vault] = usds[Vault]]_vars

(* rebase's comment: "distribute USDs earned in this step to all users":    *)
(* the holders get what was bought and no more.                             *)
RebaseDistributesEarnings == [][Rebase => gained <= bought]_vars
=============================================================================
