------------------------------- MODULE USDsL2 -------------------------------
(***************************************************************************)
(* contracts/token/USDsL2.sol: the rebasing stablecoin on Arbitrum.        *)
(*                                                                         *)
(* An account owns credits; its USDs balance is credits divided by a rate. *)
(* A rebasing account uses the global rate, which changeSupply moves; a    *)
(* non-rebasing one keeps a rate of its own, frozen when it left the pool. *)
(* The contract keeps two tallies in step with the accounts: the credits   *)
(* of the rebasing pool and the USDs held outside it.                      *)
(*                                                                         *)
(* A transaction is atomic, so each external function is one action; a     *)
(* revert (failed require, SafeMath underflow, division by zero) is the    *)
(* action not being enabled.                                               *)
(***************************************************************************)
EXTENDS StableMath, FiniteSets, Functions

CONSTANTS
    Accounts,      \* addresses other than zero that may hold USDs
    Vaults,        \* addresses the owner may install as the vault
    Gateways,      \* addresses the owner may install as the L2 gateway
    MAX_SUPPLY,    \* 2^128 - 1 in the code
    Amounts,       \* amounts a caller may pass
    RebaseTargets, \* supplies the vault may ask a rebase for
    Approvals,     \* amounts a holder may approve
    MaxMinted, MaxBurnt, MaxTally, MaxRate  \* bounds of the model: InBounds

ASSUME TokenAssumption ==
    /\ IsFiniteSet(Accounts) /\ MAX_SUPPLY \in Nat
    /\ {MaxMinted, MaxBurnt, MaxTally, MaxRate} \subseteq Nat
    /\ Amounts \subseteq Nat /\ RebaseTargets \subseteq Nat
    /\ Approvals \subseteq Nat
    /\ Vaults # {} /\ Gateways # {}

VARIABLES
    totalSupply, totalMinted, totalBurnt, mintedViaGateway, burntViaGateway,
    allowances,                 \* allowances[owner][spender]
    vaultAddress, l2Gateway,
    creditBalances,             \* credits of each account
    rebasingCredits,            \* credits of the rebasing pool
    rebasingCreditsPerToken,    \* the global rate
    nonRebasingSupply,          \* USDs outside the rebasing pool
    nonRebasingCreditsPerToken, \* the frozen rate of an account, 0 if none
    rebaseState,
    isContract                  \* whether the address has code

pool  == <<creditBalances, rebasingCredits, nonRebasingSupply,
           nonRebasingCreditsPerToken>>
flows == <<totalMinted, totalBurnt, mintedViaGateway, burntViaGateway>>
roles == <<vaultAddress, l2Gateway>>
vars  == <<totalSupply, flows, allowances, roles, pool,
           rebasingCreditsPerToken, rebaseState, isContract>>

RebaseOptions == {"NotSet", "OptOut", "OptIn"}
Callers == Vaults \cup Gateways

Init ==
    /\ totalSupply = 0
    /\ totalMinted = 0 /\ totalBurnt = 0
    /\ mintedViaGateway = 0 /\ burntViaGateway = 0
    /\ allowances = [o \in Accounts |-> [s \in Accounts |-> 0]]
    /\ vaultAddress \in Vaults /\ l2Gateway \in Gateways
    /\ creditBalances = [a \in Accounts |-> 0]
    /\ rebasingCredits = 0
    /\ rebasingCreditsPerToken = FULL_SCALE
    /\ nonRebasingSupply = 0
    /\ nonRebasingCreditsPerToken = [a \in Accounts |-> 0]
    /\ rebaseState = [a \in Accounts |-> "NotSet"]
    /\ isContract = [a \in Accounts |-> FALSE]

(* Bounds of the model: the totals only ever grow, and rounding can make   *)
(* credits and the rate grow without end.                                  *)
InBounds ==
    /\ totalMinted' <= MaxMinted /\ totalBurnt' <= MaxBurnt
    /\ rebasingCredits' <= MaxTally /\ nonRebasingSupply' <= MaxTally
    /\ \A a \in Accounts : creditBalances'[a] <= MaxTally
    /\ rebasingCreditsPerToken' <= MaxRate

-----------------------------------------------------------------------------
(* The views.                                                              *)

RateOfPool(a) == rebasingCreditsPerToken    \* mutated: forgets the frozen rate
creditsPerToken(a) ==
    IF nonRebasingCreditsPerToken[a] # 0
    THEN nonRebasingCreditsPerToken[a] ELSE rebasingCreditsPerToken

balanceOf(a) ==
    IF creditBalances[a] = 0 THEN 0
    ELSE divPrecisely(creditBalances[a], creditsPerToken(a))

mintedViaUsers == totalMinted - mintedViaGateway
burntViaUsers  == totalBurnt - burntViaGateway

-----------------------------------------------------------------------------
(* _isNonRebasingAccount moves a contract that has not chosen out of the   *)
(* pool before it answers.  The account's rate is the global one before    *)
(* and after the move, so its balance and the credits an amount is worth   *)
(* do not depend on whether it has been moved yet.                         *)

(* Mutated: migrates again; migrates a contract that opted in.             *)
MigratesAgain(a) == isContract[a] /\ rebaseState[a] = "NotSet"
MigratesOptedIn(a) == isContract[a] /\ nonRebasingCreditsPerToken[a] = 0

Migrates(a) ==
    /\ isContract[a] /\ rebaseState[a] = "NotSet"
    /\ nonRebasingCreditsPerToken[a] = 0

(* Mutated: freezes the initial rate.                                       *)
FrozenInitialRate(a) ==
    IF Migrates(a) THEN FULL_SCALE ELSE nonRebasingCreditsPerToken[a]

FrozenRate(a) ==
    IF Migrates(a) THEN rebasingCreditsPerToken
                   ELSE nonRebasingCreditsPerToken[a]

isNonRebasing(a) == FrozenRate(a) > 0

(* What a migration of a adds to nonRebasingSupply, takes from             *)
(* rebasingCredits, and writes in the frozen rates.                        *)
MigratedUnscaled(a) == IF Migrates(a) THEN creditBalances[a] ELSE 0  \* mutated
MigratedSupply(a)  == IF Migrates(a) THEN balanceOf(a) ELSE 0
MigratedCredits(a) == IF Migrates(a) THEN creditBalances[a] ELSE 0
FrozenRates(S) ==
    [a \in Accounts |-> IF a \in S THEN FrozenRate(a)
                                   ELSE nonRebasingCreditsPerToken[a]]

-----------------------------------------------------------------------------
(* Transfers.  The tallies after both migrations are `outside` and         *)
(* `inside`; the sender is debited before the receiver is credited.        *)

executeTransfer(from, to, value) ==
    LET credited == mulTruncateCeil(value, creditsPerToken(to))
        deducted == mulTruncateCeil(value, creditsPerToken(from))
        outside  == nonRebasingSupply + MigratedSupply(to)
                      + IF from = to THEN 0 ELSE MigratedSupply(from)
        inside   == rebasingCredits - MigratedCredits(to)
                      - IF from = to THEN 0 ELSE MigratedCredits(from)
        debited  == [creditBalances EXCEPT ![from] = @ - deducted]
    IN  /\ deducted <= creditBalances[from]
        /\ inside >= 0
        /\ creditBalances' = [debited EXCEPT ![to] = @ + credited]
        /\ nonRebasingCreditsPerToken' = FrozenRates({from, to})
        /\ \/ /\ isNonRebasing(to) /\ ~isNonRebasing(from)
              /\ deducted <= inside
              /\ nonRebasingSupply' = outside + value
              /\ rebasingCredits' = inside - deducted
           \/ /\ ~isNonRebasing(to) /\ isNonRebasing(from)
              /\ value <= outside
              /\ nonRebasingSupply' = outside - value
              /\ rebasingCredits' = inside + credited
           \/ /\ isNonRebasing(to) = isNonRebasing(from)
              /\ nonRebasingSupply' = outside
              /\ rebasingCredits' = inside
        /\ UNCHANGED <<totalSupply, flows, roles, rebasingCreditsPerToken,
                       rebaseState, isContract>>

Transfer(from, to, value) ==
    /\ value <= balanceOf(from)
    /\ executeTransfer(from, to, value)
    /\ UNCHANGED allowances
    /\ InBounds

TransferFrom(spender, from, to, value) ==
    /\ value <= balanceOf(from)
    /\ value <= allowances[from][spender]
    /\ allowances' = [allowances EXCEPT ![from][spender] = @ - value]
    /\ executeTransfer(from, to, value)
    /\ InBounds

SetAllowance(owner, spender, value) ==
    /\ allowances' = [allowances EXCEPT ![owner][spender] = value]
    /\ UNCHANGED <<totalSupply, flows, roles, pool, rebasingCreditsPerToken,
                   rebaseState, isContract>>

Approve(owner, spender, value) == SetAllowance(owner, spender, value)

(* The bound on the sum belongs to the model.                               *)
IncreaseAllowance(owner, spender, value) ==
    /\ allowances[owner][spender] + value \in Approvals
    /\ SetAllowance(owner, spender, allowances[owner][spender] + value)

DecreaseAllowance(owner, spender, value) ==
    SetAllowance(owner, spender,
                 IF value >= allowances[owner][spender] THEN 0
                 ELSE allowances[owner][spender] - value)

-----------------------------------------------------------------------------
(* Minting and burning, by the vault and by the gateway.                   *)

mintTo(account, amount) ==
    LET credit == mulTruncateCeil(amount, creditsPerToken(account))
        inside == rebasingCredits - MigratedCredits(account)
    IN  /\ totalSupply + amount < MAX_SUPPLY
        /\ inside >= 0
        /\ creditBalances' = [creditBalances EXCEPT ![account] = @ + credit]
        /\ nonRebasingCreditsPerToken' = FrozenRates({account})
        /\ \/ /\ isNonRebasing(account)
              /\ nonRebasingSupply' =
                     nonRebasingSupply + MigratedSupply(account) + amount
              /\ rebasingCredits' = inside
           \/ /\ ~isNonRebasing(account)
              /\ rebasingCredits' = inside + credit
              /\ UNCHANGED nonRebasingSupply
        /\ totalSupply' = totalSupply + amount
        /\ totalMinted' = totalMinted + amount
        /\ UNCHANGED <<allowances, roles, rebasingCreditsPerToken,
                       rebaseState, isContract>>

(* A remainder of one credit is burnt as dust with the rest.               *)
RemainderLessDust(owned, credit) == owned - credit - 1   \* mutated
Remainder(owned, credit) == IF owned - credit <= 1 THEN 0 ELSE owned - credit

(* The pool gives up only the credits the amount is worth.  A burn of 0    *)
(* returns early, before any migration.                                    *)
burnFrom(account, amount) ==
    LET credit == mulTruncateCeil(amount, creditsPerToken(account))
        owned  == creditBalances[account]
        outside == nonRebasingSupply + MigratedSupply(account)
        inside  == rebasingCredits - MigratedCredits(account)
    IN  /\ amount > 0
        /\ credit <= owned
        /\ inside >= 0
        /\ creditBalances' = [creditBalances EXCEPT
                ![account] = Remainder(owned, credit)]
        /\ nonRebasingCreditsPerToken' = FrozenRates({account})
        /\ \/ /\ isNonRebasing(account)
              /\ amount <= outside
              /\ nonRebasingSupply' = outside - amount
              /\ rebasingCredits' = inside
           \/ /\ ~isNonRebasing(account)
              /\ credit <= inside
              /\ rebasingCredits' = inside - credit
              /\ UNCHANGED nonRebasingSupply
        /\ amount <= totalSupply
        /\ totalSupply' = totalSupply - amount
        /\ UNCHANGED <<totalMinted, allowances, roles,
                       rebasingCreditsPerToken, rebaseState, isContract>>

Mint(caller, account, amount) ==
    /\ caller = vaultAddress
    /\ mintTo(account, amount)
    /\ UNCHANGED <<totalBurnt, mintedViaGateway, burntViaGateway>>
    /\ InBounds

(* The counter is added to itself, not to the amount.                      *)
BridgeMint(caller, account, amount) ==
    /\ caller = l2Gateway
    /\ mintTo(account, amount)
    /\ mintedViaGateway' = mintedViaGateway + mintedViaGateway
    /\ UNCHANGED <<totalBurnt, burntViaGateway>>
    /\ InBounds

Burn(caller, account, amount) ==
    /\ caller = vaultAddress
    /\ burnFrom(account, amount)
    /\ totalBurnt' = totalBurnt + amount
    /\ UNCHANGED <<mintedViaGateway, burntViaGateway>>
    /\ InBounds

(* Mutated: takes the amount off without having added it.                  *)
BurnTakenOffTwice(caller, account, amount) ==
    /\ caller = vaultAddress
    /\ burnFrom(account, amount)
    /\ totalBurnt' = totalBurnt - amount
    /\ UNCHANGED <<mintedViaGateway, burntViaGateway>>
    /\ InBounds

(* The burn of a rebase, left out of the outflow: totalBurnt goes up and   *)
(* back down.                                                              *)
BurnExclFromOutFlow(caller, account, amount) ==
    /\ caller = vaultAddress
    /\ burnFrom(account, amount)
    /\ totalBurnt' = (totalBurnt + amount) - amount
    /\ UNCHANGED <<mintedViaGateway, burntViaGateway>>
    /\ InBounds

BridgeBurn(caller, account, amount) ==
    /\ caller = l2Gateway
    /\ burnFrom(account, amount)
    /\ totalBurnt' = totalBurnt + amount
    /\ burntViaGateway' = burntViaGateway + burntViaGateway
    /\ UNCHANGED mintedViaGateway
    /\ InBounds

-----------------------------------------------------------------------------
(* Rebasing.                                                               *)

(* Credits of the account at the global rate, rounded down.                 *)
ConvertedUnscaled(a) == creditBalances[a]   \* mutated
Converted(a) ==
    (creditBalances[a] * rebasingCreditsPerToken) \div creditsPerToken(a)

(* The owner moves a non-rebasing account into the pool.                   *)
RebaseOptIn(a) ==
    LET outside   == nonRebasingSupply + MigratedSupply(a)
        inside    == rebasingCredits - MigratedCredits(a)
    IN  /\ isNonRebasing(a)
        /\ inside >= 0
        /\ balanceOf(a) <= outside
        /\ nonRebasingSupply' = outside - balanceOf(a)
        /\ creditBalances' = [creditBalances EXCEPT ![a] = Converted(a)]
        /\ rebasingCredits' = inside + Converted(a)
        /\ rebaseState' = [rebaseState EXCEPT ![a] = "OptIn"]
        /\ nonRebasingCreditsPerToken' =
               [nonRebasingCreditsPerToken EXCEPT ![a] = 0]
        /\ UNCHANGED <<totalSupply, flows, allowances, roles,
                       rebasingCreditsPerToken, isContract>>
        /\ InBounds

(* The owner takes a rebasing account out of the pool.  A contract that    *)
(* has not chosen would be migrated first and fail the require.            *)
RebaseOptOut(a) ==
    /\ ~isNonRebasing(a)
    /\ creditBalances[a] <= rebasingCredits
    /\ nonRebasingSupply' = nonRebasingSupply + balanceOf(a)
    /\ nonRebasingCreditsPerToken' =
           [nonRebasingCreditsPerToken EXCEPT ![a] = rebasingCreditsPerToken]
    /\ rebasingCredits' = rebasingCredits - creditBalances[a]
    /\ rebaseState' = [rebaseState EXCEPT ![a] = "OptOut"]
    /\ UNCHANGED <<totalSupply, flows, allowances, roles, creditBalances,
                   rebasingCreditsPerToken, isContract>>
    /\ InBounds

(* The rate a rebase to supply t sets.                                     *)
RebasedRateUp(t) ==   \* mutated: rounded up
    (rebasingCredits * FULL_SCALE + (t - nonRebasingSupply) - 1)
        \div (t - nonRebasingSupply)
RebasedRate(t) == divPrecisely(rebasingCredits, t - nonRebasingSupply)

(* The rebase: the global rate is recomputed for the requested supply,     *)
(* capped, and the supply is then recomputed from the rounded rate.        *)
ChangeSupply(caller, newTotalSupply) ==
    LET capped == IF newTotalSupply > MAX_SUPPLY THEN MAX_SUPPLY
                                                 ELSE newTotalSupply
        rate   == RebasedRate(capped)
    IN  /\ caller = vaultAddress
        /\ totalSupply > 0
        /\ totalSupply # newTotalSupply
        /\ nonRebasingSupply < capped
        /\ rate > 0
        /\ rebasingCreditsPerToken' = rate
        /\ totalSupply' = divPrecisely(rebasingCredits, rate)
                              + nonRebasingSupply
        /\ UNCHANGED <<flows, allowances, roles, pool, rebaseState,
                       isContract>>
        /\ InBounds

-----------------------------------------------------------------------------
(* The owner's setters, and the environment: an address that already holds *)
(* USDs may become a contract.                                             *)

ChangeVault(newVault) ==
    /\ vaultAddress' = newVault
    /\ UNCHANGED <<totalSupply, flows, allowances, l2Gateway, pool,
                   rebasingCreditsPerToken, rebaseState, isContract>>

ChangeArbToken(newL2Gateway) ==
    /\ l2Gateway' = newL2Gateway
    /\ UNCHANGED <<totalSupply, flows, allowances, vaultAddress, pool,
                   rebasingCreditsPerToken, rebaseState, isContract>>

Deploy(a) ==
    /\ ~isContract[a]
    /\ isContract' = [isContract EXCEPT ![a] = TRUE]
    /\ UNCHANGED <<totalSupply, flows, allowances, roles, pool,
                   rebasingCreditsPerToken, rebaseState>>

-----------------------------------------------------------------------------
VaultStep(c) ==
    \/ \E a \in Accounts, n \in Amounts :
          Mint(c, a, n) \/ Burn(c, a, n) \/ BurnExclFromOutFlow(c, a, n)
    \/ \E t \in RebaseTargets : ChangeSupply(c, t)

GatewayStep(c) ==
    \E a \in Accounts, n \in Amounts : BridgeMint(c, a, n) \/ BridgeBurn(c, a, n)

HolderStep(a) ==
    \/ \E b \in Accounts, n \in Amounts : Transfer(a, b, n)
    \/ \E b, d \in Accounts, n \in Amounts : TransferFrom(a, b, d, n)
    \/ \E s \in Accounts, n \in Approvals :
          \/ Approve(a, s, n)
          \/ IncreaseAllowance(a, s, n)
          \/ DecreaseAllowance(a, s, n)

OwnerStep ==
    \/ \E a \in Accounts : RebaseOptIn(a) \/ RebaseOptOut(a)
    \/ \E v \in Vaults : ChangeVault(v)
    \/ \E g \in Gateways : ChangeArbToken(g)

Next ==
    \/ \E c \in Callers : VaultStep(c) \/ GatewayStep(c)
    \/ \E a \in Accounts : HolderStep(a) \/ Deploy(a)
    \/ OwnerStep

Spec == Init /\ [][Next]_vars

-----------------------------------------------------------------------------
(* Properties.                                                             *)

(* Every variable stays in the range of its Solidity type: a tally or a    *)
(* balance of credits that went negative would be a missed revert.         *)
TypeOK ==
    /\ totalSupply \in Nat /\ totalMinted \in Nat /\ totalBurnt \in Nat
    /\ mintedViaGateway \in Nat /\ burntViaGateway \in Nat
    /\ allowances \in [Accounts -> [Accounts -> Nat]]
    /\ vaultAddress \in Vaults /\ l2Gateway \in Gateways
    /\ creditBalances \in [Accounts -> Nat]
    /\ rebasingCredits \in Nat /\ rebasingCreditsPerToken \in Nat
    /\ nonRebasingSupply \in Nat
    /\ nonRebasingCreditsPerToken \in [Accounts -> Nat]
    /\ rebaseState \in [Accounts -> RebaseOptions]
    /\ isContract \in [Accounts -> BOOLEAN]

InPool(a) == nonRebasingCreditsPerToken[a] = 0
Pool == {a \in Accounts : InPool(a)}
Balances == [a \in Accounts |-> balanceOf(a)]
PoolCredits == SumFunctionOnSet(creditBalances, Pool)
PoolBalance == SumFunctionOnSet(Balances, Pool)

(* The pool's tally covers the credits of every account still in it, so no *)
(* opt-out, migration, burn or transfer of a holder fails on the tally,    *)
(* and a rebase never pays out on credits the tally has forgotten          *)
(* (migrations inside transfers, mints and burns; dust in _burn).          *)
RebasingCreditsCoverHolders == PoolCredits <= rebasingCredits

(* No rate is ever zero where a balance is divided by it, and the rate an  *)
(* account uses agrees with its choice: one that opted in shares the       *)
(* global rate, even if it is a contract, and one that opted out, or was   *)
(* migrated, has a rate of its own.                                        *)
RateMatchesChoice ==
    /\ rebasingCreditsPerToken > 0
    /\ \A a \in Accounts :
          /\ rebaseState[a] = "OptIn" => InPool(a)
          /\ rebaseState[a] = "OptOut" => ~InPool(a)
          /\ rebaseState[a] = "NotSet" /\ ~InPool(a) => isContract[a]

(* One unit of credit, in USDs, rounded up past any rounding of a balance.  *)
Slack(rate) == FULL_SCALE \div rate + 1

(* A transfer gives the receiver at least the value and costs the sender   *)
(* at least the value and at most a credit more, whatever the two rates    *)
(* and whichever of the two is migrated on the way; nobody else's balance  *)
(* moves.                                                                  *)
MovesValue(from, to, value) ==
    /\ from # to =>
          /\ balanceOf(to)' >= balanceOf(to) + value
          /\ balanceOf(from)' <= balanceOf(from) - value
          /\ balanceOf(from)' >= balanceOf(from) - value
                                    - Slack(creditsPerToken(from))
    /\ from = to => balanceOf(to)' = balanceOf(to)
    /\ \A a \in Accounts \ {from, to} : balanceOf(a)' = balanceOf(a)
TransferMovesValue ==
    [][\A from, to \in Accounts, n \in Amounts :
          Transfer(from, to, n) => MovesValue(from, to, n)]_vars

(* USDs leave an account only if its holder transfers as many, a spender    *)
(* uses up as much allowance, the vault or the gateway burns as many of     *)
(* this account, a rebase comes while it is in the pool, or the owner opts  *)
(* it in; rounding costs up to a credit more, or two in a burn.  In         *)
(* particular no transfer, mint, burn, migration or choice of others and no *)
(* opt-out costs anyone, and no rebase costs those outside the pool.        *)
loss(a) == balanceOf(a) - balanceOf(a)'
burnOf(a, n) ==
    \E c \in Callers : Burn(c, a, n) \/ BurnExclFromOutFlow(c, a, n) \/ BridgeBurn(c, a, n)
Approved(a) ==
    \/ \E b \in Accounts, n \in Amounts \ {0} :
          Transfer(a, b, n) /\ loss(a) <= n + Slack(creditsPerToken(a))
    \/ \E s \in Accounts :
          /\ allowances'[a][s] < allowances[a][s]
          /\ loss(a) <= allowances[a][s] - allowances'[a][s] + Slack(creditsPerToken(a))
    \/ \E n \in Amounts : burnOf(a, n) /\ loss(a) <= n + 2 * Slack(creditsPerToken(a))
    \/ InPool(a) /\ \E c \in Callers, t \in RebaseTargets : ChangeSupply(c, t)
    \/ RebaseOptIn(a) /\ loss(a) <= Slack(rebasingCreditsPerToken)
NoUnapprovedLoss == [][\A a \in Accounts : loss(a) > 0 => Approved(a)]_vars

(* An opt-in never raises the account's balance and costs it less than a   *)
(* credit and the rounding of the balance; an opt-out, like a migration,   *)
(* leaves the balance alone.  Neither moves anyone else's.                 *)
ChoiceKeepsBalances ==
    [][\A a \in Accounts :
          /\ RebaseOptIn(a) =>
                /\ balanceOf(a)' <= balanceOf(a)
                /\ balanceOf(a)' >= balanceOf(a) - Slack(rebasingCreditsPerToken)
          /\ RebaseOptOut(a) => balanceOf(a)' = balanceOf(a)
          /\ RebaseOptIn(a) \/ RebaseOptOut(a) =>
                \A b \in Accounts \ {a} : balanceOf(b)' = balanceOf(b)]_vars

(* A rebase leaves the accounts outside the pool alone, brings the supply  *)
(* to at least what was asked (or the cap), and leaves the pool solvent:   *)
(* its holders together own no more than the supply outside               *)
(* nonRebasingSupply, whatever rounding built up since the last one.       *)
RebaseSettles ==
    [][\A c \in Callers, t \in RebaseTargets :
          ChangeSupply(c, t) =>
             /\ \A a \in Accounts : ~InPool(a) => balanceOf(a)' = balanceOf(a)
             /\ totalSupply' >= t \/ totalSupply' >= MAX_SUPPLY
             /\ PoolBalance' <= totalSupply' - nonRebasingSupply']_vars

(* All balances together less the supply, and those outside the pool less   *)
(* the tally of them: what rounding has made up.                            *)
Excess == SumFunctionOnSet(Balances, Accounts) - totalSupply
OutsideExcess == SumFunctionOnSet(Balances, Accounts \ Pool) - nonRebasingSupply

Gains(a) == balanceOf(a)' > balanceOf(a)

(* Balances outgrow the supply by rounding alone: by less than a credit and *)
(* a unit whenever one account is credited, by nothing when none is, and a  *)
(* rebase forgets all but what built up outside the pool.  Migrations and   *)
(* choices, which move an account between the two tallies, add nothing.     *)
SupplyCoversBalances ==
    [][IF \E c \in Callers, t \in RebaseTargets : ChangeSupply(c, t)
       THEN OutsideExcess' = OutsideExcess /\ Excess' <= OutsideExcess
       ELSE \/ OutsideExcess' <= OutsideExcess /\ Excess' <= Excess
            \/ \E a \in Accounts :
                  /\ Gains(a) /\ \A b \in Accounts \ {a} : ~Gains(b)
                  /\ OutsideExcess' <= OutsideExcess + Slack(creditsPerToken(a))
                  /\ Excess' <= Excess + Slack(creditsPerToken(a))]_vars

(* Supply appears and disappears only as counted mints and burns, in a     *)
(* rebase, or in the burn a rebase makes, which leaves the counters as     *)
(* they were; and the counters that the oracle subtracts window by window  *)
(* (mintedViaUsers, burntViaUsers) never go back.                          *)
SupplyIsCounted ==
    [][/\ \/ totalSupply' - totalSupply =
                (totalMinted' - totalMinted) - (totalBurnt' - totalBurnt)
          \/ /\ UNCHANGED flows
             /\ \/ \E c \in Callers, t \in RebaseTargets : ChangeSupply(c, t)
                \/ \E c \in Callers, a \in Accounts, n \in Amounts :
                      BurnExclFromOutFlow(c, a, n)
       /\ mintedViaUsers' >= mintedViaUsers
       /\ burntViaUsers' >= burntViaUsers]_vars

-----------------------------------------------------------------------------
(* Credits, rates and tallies implement a ledger of balances with roundings: *)
(* every call is one of its steps.  In particular a rebase pays all accounts *)
(* of the pool at one rate, whatever credits they hold, and an account stays *)
(* in the pool, or out of it, unless a call names it.                        *)
Grains == [a \in Accounts |-> Slack(creditsPerToken(a))]
Ledger == INSTANCE RebasingLedger
              WITH balance <- Balances, supply <- totalSupply,
                   sharing <- Pool, grain <- Grains
ImplementsLedger == Ledger!Spec
=============================================================================
