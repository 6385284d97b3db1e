# A verification development for USDs

USDs is a stablecoin on Arbitrum, minted for collateral and burnt SPA and
redeemed for collateral and newly minted SPA, whose collateral works in
strategies and whose earnings reach its holders by rebases.  This directory
holds TLA+ models of its contracts, the TLC runs that check them on small
instances and the TLAPS proofs of what holds for every instance.  The models
are of the contracts under `contracts/` as they stand, of the token bridge that
carries SPA between Ethereum and Arbitrum (the gateways under
`packages/arb-bridge-peripherals/contracts/tokenbridge`), and of the scripts
under `packages/` with which operators deploy, wire, upgrade and hand over that
bridge and put a rollup's templates on Ethereum.

One convention runs through all modules.  A transaction is atomic, so an
external function is one action, with everything it calls inside it.  A failed
`require`, an underflow of SafeMath or a division by zero reverts the whole
transaction: the action is then not enabled.  What makes the contracts hard is
not threads but *order*: any legal sequence of calls by users, owners, the
vault, the gateway and outside markets, with truncating arithmetic at every
call.  Between the layers there are messages, redeemed in any order, late or
never; and a script is a process that awaits one transaction after another on
two chains, beside other scripts, and may die between any two.

## 1. Inventory

### USDs on Arbitrum (`token/USDsL2.sol`, `libraries/StableMath.sol`)
- *State.* Credits per account, a global rate, a frozen rate for each account
  outside the rebasing pool, each account's choice; the tallies
  `rebasingCredits`, `nonRebasingSupply`, `totalSupply`; counters of mints and
  burns, of users and of the gateway; allowances; the vault and gateway.
- *Operations.* transfer, transferFrom, approve, increase/decreaseAllowance;
  mint, burn, changeSupply (vault); bridgeMint, bridgeBurn (gateway);
  rebaseOptIn, rebaseOptOut (account or owner); changeVault, changeArbToken.
- *Hard.* An account that becomes a contract is moved out of the pool inside
  whatever call touches it next; every transfer converts one amount at two
  rates with separate rounding; tallies are updated beside the accounts and
  never recomputed.
- *Correct when* no tally goes below what its accounts hold, each account's
  rate agrees with its choice, a transfer moves what it says, opting in and
  out changes no value, a rebase pays exactly the pool, supply moves only as
  counted, nobody loses USDs without consent.

### SPA (`token/SperaxTokenL2.sol`, `token/SperaxToken.sol`, `utils/MintPausable.sol`)
- *State.* Balances, allowances, supply; per account a time lock (until when,
  how much); the minters and the array that lists them; two pauses; gateway.
- *Operations.* transfers, approvals, burn, burnFrom, mintForUSDs, bridgeMint,
  bridgeBurn, transferWithLock, releaseTimeLock, batchTransfer,
  setMintable/revokeMintable/revokeAllMintable, pause and mintPause.
- *Hard.* Locks combine when tokens arrive at a locked account, are resolved
  lazily by the holder's next transfer, and every path that takes tokens away
  must respect them; the array keeps entries of minters removed before.
- *Correct when* locked tokens are always there and stay until the time or a
  release, a single revokeAllMintable reaches everybody, supply equals holdings.

### Oracle (`oracle/Oracle.sol`)
- *State.* Two rings of FREQUENCY+1 readings of the users' mints and burns of
  USDs, an index, the time of the last update, the ratio; feeds and pools.
- *Operations.* updateInOutRatio (anybody), changePeriod, setters; views of
  prices (Chainlink; Uniswap averages).
- *Hard.* Readings of another contract's counters are subtracted with
  SafeMath, so one counter that went back, or one slot read out of order,
  closes the ring for good; times are `uint32`.
- *Correct when* the ratio is that of the last FREQUENCY periods, and an update
  that is due goes through.

### VaultCoreTools (`vault/VaultCoreTools.sol`, `utils/BancorFormula.sol`)
- *State.* None but an address. *Operations.* Pure quotes: chiTarget, chiMint,
  chiRedeem, the fees, mintView in three modes, redeemView.
- *Hard.* Chains of products and truncating divisions in several precisions
  and the collateral's decimals; subtraction that may underflow.
- *Correct when* chi is a share and fees are in their band; nothing is minted
  or redeemed for less than it is worth; the three modes agree.

### VaultCore (`vault/VaultCore.sol`)
- *State.* Switches, parameters, collaterals and strategies with their entries,
  the tallies of SPA, the vault's own balances.
- *Operations.* mintBy... (three), redeem, allocate, rebase (harvest of
  interest and rewards, burn, changeSupply), add/update of collaterals and
  strategies, permissions, parameters.
- *Interactions.* Calls USDs, SPA, the oracle, the tools, strategies
  (`IStrategy`), buybacks (`IBuyback`); rebase calls back into USDs.
- *Hard.* A redemption is served wholly by the vault or wholly by the default
  strategy; entries change while collateral is out; a rebase passes through a
  strategy, a market and the token with balances read at different moments.
- *Correct when* no value appears from minting and redeeming in any order,
  USDs stay backed, a redemption pays, allocation settles, a rebase never
  sells principal and its earnings reach the holders.

### TwoPoolStrategy (`strategies/`)
- *State.* LP tokens here and in the gauge, the principal `allocatedAmt` by
  asset, the list of assets, the index of the supported one, slippage and
  threshold.
- *Operations.* deposit, withdraw, withdrawToVault, collectInterest,
  collectRewardToken, setPTokenAddress, removePToken, setters of the limits.
- *Hard.* Two ways to value the LP tokens, with a conversion at oracle prices
  between two coins; LP tokens burnt pro rata of what all of them fetch at once,
  which is the worst rate, rounded down twice; an index that stays while the list
  it points into changes.
- *Correct when* a withdrawal pays at least what was asked for but for one LP
  token, and interest takes its share of the LP tokens and leaves those that are
  worth the principal, in whichever coin it is paid.

### Buybacks (`buyback/`)
- *State.* Per input token the hops of its sale.  *Operations.* swap,
  updateInputTokenInfo, withdrawToVault.  *Hard.* Sales without a minimum.
- *Correct when* a sale goes through the hops that were set.  Only the sale as
  the vault sees it is modelled.

### Token bridge (`token/SperaxTokenL1.sol`, gateways and routers, outbox)
- *State.* SPA and wrapped SPA on L1, the escrow of the L1 gateway; SPA on L2;
  the token each gateway has registered; the gateway and the L1 token that
  `SperaxTokenL2` names; tickets on the way to L2, exits on the way to L1, who
  an exit was handed to.
- *Operations.* mint and burn of wrapped SPA; registerTokenToL2,
  forceRegisterTokenToL2, outboundTransfer on both layers,
  finalizeInboundTransfer on both, transferExitAndCall, executeTransaction,
  changeArbToken; SPA minted and burnt on L2 by VaultCore.
- *Hard.* Registrations and deposits are redeemed in any order or expire; the
  token on L2 may be another one when a deposit arrives, and the deposit is
  turned back; exits are tradeable before they exist and executed in any order
  from an escrow that SPA minted on L2 can drain.
- *Correct when* what is held, escrowed and on the way adds up; each claim is
  paid once or turned back; a deposit does not stay undecided.

### Token bridge scripts (`packages/arb-bridge-peripherals/scripts`)
- *State.* The routers, gateways, ProxyAdmins and beacon factories of both chains,
  retryable tickets, `deployment-<chain>.json`, the address table of arb-ts.
- *Operations.* deploy_token_bridge_l1, deploy_weth_bridge,
  deploy_custom_gateway, register_custom_token, token_bridge_upgrade, upgrade,
  transfer_bridge_owner, transaction by transaction.
- *Hard.* A script checks and then acts, on two chains, with awaits between;
  it may die half-way, and another one may run meanwhile.
- *Correct when* what the file and the routers name is wired on both chains; a
  token registered with a pair of gateways that is still being wired stays off
  L2 until the pair is complete; the layers differ in logic or ownership only
  with a cause.

### Rollup deployment (`packages/arb-bridge-eth/deploy`, `hardhat.config.ts`)
- *State.* hardhat-deploy's record per contract, compiled artifacts, the
  RollupCreator's templates.  *Operations.* the deployment plan, create-chain,
  edits of contracts.  *Hard.* A deployment dies and is run again after edits;
  three proxies share one record.
- *Correct when* a deployment that ends has made everything current.

### Not modelled, and why
- *USDs on Ethereum* (`token/USDsL1.sol`): `initialize` assigns its parameters
  instead of its storage, and the gateway only releases what was deposited, so
  nothing mints USDs on L1 and there is no behaviour to check.
- *Oracle price views*: stateless compositions of Chainlink answers and Uniswap
  averages; their results are inputs of `VaultQuotes` and `TwoPoolStrategy`.
  The oracle's setters of addresses are left out with them.
- *Buybacks*: the settings of hops; see the plan.
- *BancorFormula* is table-driven 256-bit arithmetic, out of TLC's reach: its
  power is the constant operator `Power`, of which only the type is assumed.
- *Libraries of Uniswap, proxies of OpenZeppelin, Arbitrum's rollup and ArbOS
  contracts* are copies of other projects.  Of the latter, `TokenBridge` uses
  that a ticket is redeemed once or expires and that the outbox executes an
  exit once.  The ERC-20 and WETH gateways carry neither SPA nor USDs.
- *Upgrade history* repeats former versions of contracts modelled as they stand.
- *Scripts that only read, compare or print*, such as `verify_upgrade.ts`,
  `get_proof_l2.ts` and `arb-bridge-eth/scripts/upgrade.ts`, which ends before
  its first transaction; tasks of `hardhat.config.ts` that call `arb-upgrades`,
  which is not in the repository; mocks, migrations and tests.

## 2. Modules

| Module | Models | Extends |
|---|---|---|
| `RebasingLedger` | abstract: a ledger whose calls round within bounds and whose rebases pay all at one rate | |
| `StableMath` | `mulTruncate`, `mulTruncateCeil`, `divPrecisely` over a scale `FULL_SCALE` | |
| `USDsL2` | the USDs token; refines `RebasingLedger` | `StableMath` |
| `SumLemmas` | facts about sums over finite sets, proved | |
| `USDsL2Proofs` | theorems about it | `USDsL2`, `SumLemmas` |
| `SperaxToken` | SPA, on either layer | |
| `SperaxTokenProofs` | theorems about it | `SperaxToken`, `SumLemmas` |
| `FlowWindow` | abstract: a ratio over a sliding window of readings | |
| `Oracle` | the rings behind the in/out ratio; refines `FlowWindow` | |
| `VaultCoreTools` | the pure quotes, as operators of readings and parameters | |
| `VaultQuotes` | a machine that asks for one quote in any market and setting | `VaultCoreTools` |
| `VaultQuotesProofs` | theorems about the quotes | `VaultQuotes` |
| `VaultCore` | the vault with its collaterals, strategies and ledgers | `VaultCoreTools` |
| `VaultCoreProofs` | theorems about it | `VaultCore`, `VaultQuotesProofs`, `SumLemmas` |
| `TwoPoolStrategy` | one collateral at work in a Curve pool of two coins | |
| `OracleStrategyProofs` | theorems about oracle and strategy, the refinement included | `Oracle`, `TwoPoolStrategy`, `SumLemmas` |
| `CrossTransfers` | abstract: two ledgers and the claims between them | |
| `TokenBridge` | SPA between the layers; refines `CrossTransfers` | |
| `TokenBridgeProofs` | theorems about it, the refinement included | `TokenBridge`, `SumLemmas` |
| `BridgeScripts` | the bridge's scripts as processes on two chains | |
| `RollupScripts` | the rollup's deployment plan over hardhat-deploy's records | |
| `BridgeScriptsProofs` | theorems about both | `BridgeScripts`, `RollupScripts` |
| `MC...` | constants of the instances for TLC | |

Definitions marked as mutated are plausible mistakes next to the definition
they distort.  No specification uses them; putting one in place of its
original must break the property it is meant for.

### USDsL2
The variables are the contract's storage under its own names, and `isContract`
for what `Address.isContract` answers.  Each external function is an action;
`executeTransfer`, `mintTo` and `burnFrom` are its internals.  The implicit
migration (`_isNonRebasingAccount`, `_ensureRebasingMigration`), which the code
runs in the middle of other calls, is split into `Migrates` (when it happens)
and `FrozenRate`, `MigratedSupply`, `MigratedCredits` (what it leaves behind),
applied at each call site in the code's order.  `Deploy` is the
environment: a deployment at an address that may already hold USDs.
The addresses of vault and gateway are checked on each call.
`RebasingLedger` is the same token for those who do not know of credits:
balances, who shares in rebases, and for each account a `grain`, what a call
that rounds may add to its balance or take from it.  The mapping reads balances
through `balanceOf` and the grain of an account as what one credit is worth at
its rate, and one more.

### SperaxToken
One module for the two deployed contracts.  They differ in what is left of a
matured lock, in the bridge functions and in the initial supply; the variable
`Layer` says which contract a behaviour is of and never changes.
`_beforeTokenTransfer` is `MayLeave` (its guard) and `LocksAfter` (its effect)
and is applied wherever OpenZeppelin's ERC-20 calls the hook.  A batch has two
recipients and applies it twice, the second time on the result of the first.

### Oracle and FlowWindow
`Oracle` keeps the two rings, index, time modulo `Wrap` and ratio; `Flow` and
`Tick` are its environment (`USDsL2!SupplyIsCounted` justifies that the flows
only grow).  `FlowWindow` forgets slots and times: a sequence of readings, the
oldest dropped at each step, the ratio between its ends.  The refinement maps
the window to the ring read from the slot after the newest.

### VaultCoreTools and VaultQuotes
Each operator is one view, with the oracle's readings `m`, the parameters `p`
and the age of the vault as arguments instead of calls; all precisions are
constants.  A view that would revert (underflow, division by zero) has a guard
of its own (`mintable`, `redeemable`).  `VaultQuotes` picks readings,
parameters, chi's age and collateral ratio, asks once and keeps the answer.

### VaultCore
`Mint` is the three entry points by type.  `Redeem` takes all of the
collateral `fromVault`, `fromStrategy` or, when the default strategy does not
support the collateral, `fromNowhere`, as `_redeem` does.  `Allocate` and
`Rebase` go over all collaterals at once: collaterals do not share anything
inside the loop.  `USDs` is a ledger here, and a rebase scales the wallets of
users and the fee vault (`scaled`); the credits behind it are in `USDsL2`.
A strategy is what `IStrategy` shows: `funds` (checkBalance), `allocatedAmt`
(its principal) and `claimable` rewards, with `CurveMoves`, `RewardsAccrue` and
slippage `Slip` as Curve's freedom.  A buyback sells for any part `Fills` of the
fair price, out of the USDs that users sold to the pool (`Sell`).
Roles are left out: each call is made by who may make it.

### TwoPoolStrategy
The strategy behind `VaultCore`'s interface, with LP tokens instead of funds.
`curve` is its environment: what any number of LP tokens fetches in each coin
when burnt at once (`pays`), the virtual price and the oracle's prices, all of
which `CurveMoves` changes at any time.  The pool is not linear: of `pays` it is
assumed that fewer LP tokens fetch their share of what more of them do, or better
(`WorstAtFullBalance`), for which the code's comments give the reason when they
take the rate of the full balance.  Liquidity that goes in or out leaves
another pool behind (`PoolMoves`).
Both coins have the same decimals, as `_convertBewteen` assumes.
`InOneCoin`, `returnIndex` and `maxReturn` are `_checkMaxReturn`, with its
conversion as the code has it.  `Burn` takes LP tokens from the contract and the
rest from the gauge and pays, if the slippage check lets it; `BurntFor` and
`Owed` are what `_withdraw` and `collectInterest` burn for.  Pool and strategy
know a coin by its place: `PoolCoins[i]` is the pool's, `assetsMapped[i]` the
strategy's, and they are equal until `RemovePToken` moves an asset into a gap.
Views that look at both assets revert while one is missing (`BothMapped`);
below the threshold nothing can be withdrawn, since `_withdraw` divides by 0.
The gauge's rewards and the approvals of Curve are left out here; `VaultCore`
has the rewards.
`WithdrawalPays` bounds from below what a withdrawal delivers, which is the role
of `Slip` in `VaultCore`.  `InterestTakesItsShare` is the strategy's part of
`VaultCore`'s `HarvestSparesDeposits`: what is collected as interest leaves LP
tokens that are worth the principal.

### TokenBridge and CrossTransfers
One token and one gateway per layer; `tickets` and `exits` are numbered from 1
in the order they are sent.  `Deliver` and `Bounce` are the two ends of
`finalizeInboundTransfer` on L2, told apart by `Expected`: the registered token
is `SperaxTokenL2` and names wrapped SPA.  A delivery whose `bridgeMint` reverts
leaves its ticket open.  `Execute` is the outbox with `finalizeInboundTransfer`
on L1, and reverts while the escrow is short.  `CrossTransfers` forgets tokens,
tickets and escrow and keeps two ledgers and sets of numbered claims; the
mapping reads SPA and wrapped SPA as one ledger and open deposits and unpaid
exits as claims.  Registrations and settings are stuttering there.

### BridgeScripts and RollupScripts
A *run* is one execution of a script; `run[r]` holds the step it is at and what
it was told: keys, and the bridge, admin and custom gateways it read from the
file, the table or the operator.  Each transaction that changes what another
script relies on is one action; `Dies` may take a run anywhere.  A contract
bears the name of the run that deployed it.  The setters of router and gateways
are modelled by what they store on L1 and the tickets they send, which `Redeem`
and `Expire` end in any order.  Addresses get into the table in two ways, as the
scripts hand them out.  `PublishBridge` copies from the deployment file, which
`deploy_token_bridge_l1` writes last.  `PublishCustom` copies from the output of
`deploy_custom_gateway`, which prints both addresses before it initializes either
gateway: a token may be registered while the pair is half wired or after the run
died.  `beside` is a history variable: the upgrades that were under way when a
run started.  Assumed: nobody else initializes a proxy.  `RollupScripts` has the plan that
hardhat-deploy derives from the dependencies as a sequence, a record per name,
and edits of contracts between and during runs.

## 3. Runs

| Run | Shows |
|---|---|
| `usds_pool` | the tallies cover the pool, rates agree with choices; what a transfer, an opt-in or opt-out and a rebase do to every balance; all balances outgrow the supply by rounding alone; the token implements `RebasingLedger` |
| `usds_spend` | nobody's balance falls without consent; the supply moves only as counted |
| `spa` | funded locks that last, complete revocation, supply |
| `oracle_strategy` | the rings implement `FlowWindow` and a due update is open; a strategy's withdrawals pay, its interest takes its share of the LP tokens and leaves the principal's, and its balance is short of the better coin's by a bounded factor |
| `quotes` | shares, fees, backing of mints and redemptions, agreement of modes, over a grid of 640 000 questions |
| `vault_users` | nobody gains by minting and redeeming, all USDs stay backed, redemptions pay |
| `vault_yield` | allocation settles, rebases sell nothing of what users brought and their earnings reach the holders |
| `bridge_scripts` | what file and routers name is wired on both chains, a token waits for its pair, the layers part only with a cause; a rollup deployment that ends is current |
| `token_bridge` | nothing is lost or paid twice between the layers, the gateways implement `CrossTransfers`, a deposit settles or finds the escrow short again and again |
| `vault_unpaid`, `vault_twice`, `strategy_max_return` | the disagreements of section 5 |

Two runs put two components that share nothing side by side: `MCOracleStrategy`
and `MCBridgeScripts`.  The state of one is disjoint from that of the other and
no action reads both, so a property of one holds in every interleaving exactly
if it holds when the other one stands still; a behaviour there has steps of one
component only.

Deadlock is not checked in any run: every instance stops at the bound on its
counters or clock, and the code has no state in which something must be
possible.

**Bounds and why they suffice.**  Amounts, scales and precisions are small so
that truncation is coarse: at scale 3 a rounding is a large part of a balance,
and an error of rounding shows at once.
- *USDs.* Two accounts are enough for the two rates of a transfer and for an
  account beside it (`from = to` included); `MaxMinted`, `MaxBurnt`, `MaxTally`
  and `MaxRate` (checked after each call, `InBounds`) leave room for several
  rebases, migrations and transfers.  `usds_spend` has two vaults and two
  gateways so that the addresses change.
- *SPA.* Two accounts, one of them the owner; a clock of three ticks covers a
  lock in force, matured, and a second one after it; a record of two entries
  covers a minter that was removed and set again.
- *Oracle.* Four slots and a clock that goes round the ring twice and past
  `Wrap`.
- *Vault.* `MaxCalls` = 3 mints, redemptions and rebases (allocations, recalls,
  markets and parameters are free); two collaterals of which one has a default
  strategy that does not support it (`vault_users`), or one whose strategy
  gains and loses (`vault_yield`).  Prices stand still in `vault_users`, since
  nothing is promised when they do not; flows, fees and chi move.  Collaterals
  have the same decimals.  `Slip` is 1 where strategies are the subject.
- *Strategy.* Five states of pool and prices: par, a loss, growth with one or
  the other coin off its peg, and LP tokens that fetch far more of one coin.  In
  each, small withdrawals fetch more per LP token than large ones, in either coin.
  `MaxPrincipal` and `MaxPurse` (4), `MaxPTokens` (5) and one LP token sent by
  others (`MaxGifts`) leave room for two deposits and for LP tokens on both
  sides of the gauge.
- *Token bridge.* Three tickets, so that two registrations and a deposit, or a
  registration and two deposits, cross in any order; one withdrawal beside the
  deposits turned back; amounts of 1 out of a stake of 2; one unit minted on L2
  by others (`MaxIssued`), which is enough to drain the escrow; the first exit
  is traded; gateway and L1 token of `SperaxTokenL2` are wrong one at a time.
- *Bridge scripts.* Four runs, of which two are in flight at once (`MaxOn`), one
  dies (`MaxDead`) and two deploy a bridge (`MaxBridges`): one bridge that is
  upgraded, extended and handed over while another one appears.  Two keys, one
  of them the new owner; runs are interchangeable, hence the symmetry.
- *Rollup.* A proof, a template and the creator change, two of them at most
  (`MaxEdits`), before, between and during any number of deployments.

**Fairness.**  Calls of users and owners are their own decisions and the code
has no scheduler, so most runs assume none; what must remain *possible* is
stated with the guard of the call (`DueUpdateIsOpen`, with `MayUpdate`: every
`require` and every subtraction of `updateInOutRatio`; the rest of the action
only assigns).  `TokenBridge` assumes weak fairness of
`Expire` and of `Execute` alone.  A retryable ticket that nobody redeems is
dropped when its time is over, whether anybody acts or not; an exit never
expires, stays executable, and its holder wants the money.  Nobody has to
redeem a ticket.  `DepositsSettle` needs no more: a deposit is taken, expires, or
is turned back, and what is turned back is paid, except that SPA minted on L2 by
VaultCore can leave the escrow short.  Then its exit waits, and the property
excuses a deposit exactly while that is so (`FindsNothing`: turned back, its exit
unpaid and the escrow below its amount); whenever the escrow is filled again, the
deposit is paid or finds it short once more.

## 4. Theorems

All proofs hold for every value of the constants under the named assumptions
(`ScaleAssumption`, `TokenAssumption`, `SpaAssumption`, `OracleAssumption`,
`ToolsAssumption`, `QuotesAssumption`, `VaultAssumption`, `StrategyAssumption`,
`BridgeAssumption`, `ScriptsAssumption`, `RollupAssumption`): scales and precisions are positive,
amounts natural numbers, accounts finitely many, `Power` returns a positive
number, the null values are none of the others.

- *SumLemmas.* The tallies of a token are compared with sums over all its
  accounts (`SumFunctionOnSet` of the community modules, a fold).  That such a
  fold is the sum one expects needs induction over finite sets.  `SetInduction`
  states it with a set of subsets instead of a predicate, from the
  well-foundedness of the numbers; `SumRemove` takes one member out of a sum,
  and from it follow `SumChange` and `SumChangeTwo`: a sum moves by what its one
  or two changed terms move by, which is all that a call can do to a ledger.

- *USDsL2.* `TypeCorrect` and `RatesAgree` follow from the inductive invariant
  `IInv`, types and rates together: that a balance converts to a natural number
  needs positive rates, and rates stay positive only for accounts that agree
  with their choice.  `TransfersMoveValue` and `ChoicesKeepBalances` rest on
  arithmetic: `CeilFacts` and `WorthFacts` bound an amount converted to credits
  and back, `CreditingGives` and `DebitingTakes` apply them to the two sides of
  a transfer at unrelated rates, `ConvertingKeeps` to an opt-in.
  `BalanceIsSpendable` is of its own interest: rounding up never asks for more
  credits than a balance has.  `SupplyCounted` follows from `CInv`, the
  counters' own invariant.  `CreditsCovered` needs `Covered` beside `IInv`: each
  call changes the credits of one or two accounts and the tally by at least as
  much, whichever of them an implicit migration moves out of the pool.
  `RebasesSettle` bounds the new rate from both sides (`RateReaches`) and the
  pool's balances by its credits at that rate (`PoolIsWorth`).  `LossesApproved`
  goes call by call: whose credits and rate a call can lower, and who let it.  A
  mint lowers nobody's balance (`MintsCostNobody`), not even that of an account
  it migrates, and a burn that of the account it burns from only, by its amount
  and two roundings (`BurnsCostTheirOwn`).
  `SupplyCovers` compares all balances with the supply (`Excess`) and those
  outside the pool with their tally (`OutsideExcess`).  An amount converted to
  credits and back gives at most a credit's worth and a unit too much
  (`CreditingGivesLittleMore`); a migration or an opt-in moves a balance between
  the two tallies exactly (`MigrationAndOutside`); with `SumsMoveByOne` and
  `SumsMoveByTwo` each call comes down to the one or two accounts it touches.  A
  rebase recomputes the supply from `rebasingCredits`, which by `Covered` are
  worth at least the pool's balances, so what rounding had built up in the pool
  is forgotten (`RebaseForgets`).  `ImplementsRebasingLedger` maps each call to a
  step of `RebasingLedger`: the roundings found before become its `less` and
  `more`, a burn costs at most two credits above its amount (`BurningLeaves`),
  and `OneRate` says that two holders' shares of the pool keep their proportion
  when the rate changes, to less than a unit each.
- *SperaxToken.* The inductive invariant `LInv` joins types and
  `LocksAreFunded`; neither alone is inductive, since the hook's subtraction
  needs funded locks.  `LocksLast` and `RevocationComplete` go action by action
  from there.  `SupplyHeld` follows with `SumChange`, twice for a batch of two.
- *Oracle.* `RInv` adds that no reading is ahead of the counters
  (`ReadBefore`).  `SlotsShift` is the ring's arithmetic, `UpdateShifts` what
  an update does to the readings seen in order; the refinement
  `ImplementsFlowWindow` then maps each update to one step of the window and
  all else to stuttering.  `DueUpdatesAreOpen` needs `UInv` besides, which ties the stored
  `uint32` time to the real one, and that the slot an update subtracts is behind
  the counters (`OldestIsBehind`).
- *VaultQuotes.* Readings and parameters do not change (`ReadingsKept`), so
  `RatesCorrect` and `RedemptionsBacked` are statements of integer arithmetic
  about one quote.  `RedemptionsBacked` bounds a chain of five truncating
  divisions by splitting it: the fee is part of the amount (`FeeTaken`), the two
  shares fit the whole (`SharesFit`), and each conversion loses at most one unit
  (`RedeemViewFacts`).  `MintsBacked` multiplies each division out: what a quote
  takes, fee included, is worth what it mints but for three units of each token.
  `ModesConsistent` rests on the direction of the roundings: USDs quoted for SPA
  or collateral are rounded down, so that many USDs never cost more.
- *VaultCore.* The invariant `VInv` joins types with "the balances of USDs add
  up to no more than `totalSupply`".  Types alone are not inductive: a redemption
  takes the USDs burnt from `totalSupply`, and a rebase divides what remains
  after the vault's and the pool's balances among the others, so both need a
  supply that covers the balances.  `ScaledFacts` shows that the scaled wallets
  fit the new supply and lose less than a unit each, from which
  `RebaseDistributes` follows; `RedemptionsPay` and `AllocationSettles` are about
  one step.  `HarvestsSpareDeposits` needs `AccountInv`: all the collateral that
  users brought is in their hands, in the vault, or recorded as the principal of a
  strategy (`Accounted`).  It is inductive because the principal falls by what a
  withdrawal delivers and no more, whatever Curve kept of it; a harvest then takes
  what is above the principal, and what users brought stays.  `NobodyGains` and `SupplyIsBacked` add
  up what single quotes lose: the quote lemmas of `VaultQuotesProofs` bound each
  mint and each redemption by the dust of its collateral, `MintWealth` and
  `RedeemWealth` turn that into a user's wealth, `MintCovered` and `RedeemCovered`
  into `cover`, what is behind the supply less the supply; `AllocateStock` and
  `StockStep` show that allocating and recalling leave it alone.  Their hypotheses
  are in the theorems: prices stand still (`SteadyPrices`; the flows, the price
  of USDs and all parameters may move) and nobody switches rebases on.
  `NobodyGains` counts what Curve may add to a payment in its bound (`windfall`).
  `SupplyIsBacked` needs besides that Curve neither keeps nor gives anything
  (`Slip = 0`) and that a strategy's worth does not change by itself (`Worths =
  {}`): allocating and recalling are not counted as calls, and may lose to Curve
  as often as they are repeated.  Each hypothesis is needed: a price that moves, a
  rebase (see `vault_twice`) and a loss in Curve do take from the backing.  The
  run `vault_users` meets all of them.
- *TwoPoolStrategy.* `StrategyTyped` is inductive by itself; the arithmetic is
  in three lemmas.  `BurnLeaves`: burning the part of the LP tokens that `o` is
  of the `M` they fetch leaves LP tokens whose share of `M` is `M - o`, roundings
  included.  `RestIsWorth`: what is owed in the other coin, converted there and
  back, never exceeds the part of its worth above the principal.  `BurnPays`: the
  LP tokens burnt fetch what they were burnt for but for one LP token, by
  `WorstAtFullBalance`, of any pool.  `InterestIsAShare` and `WithdrawalsPay`
  apply them to one step each.  No upper bound is claimed on what a withdrawal
  pays: the real pool pays more for little, out of the strategy's own LP tokens'
  worth.  `InterestIsAShare` holds although
  `_checkMaxReturn` may pick the wrong coin: it does not depend on the choice.
  What the wrong choice does cost is `BalanceIsNear`: a conversion there and one
  back (`TwiceConverted`, `ConvertLoses`) put the passed-over coin above the
  reported balance by the square of the two prices' ratio at most, whatever the
  pool pays, and at par by nothing.
- *TokenBridge.* `TypeCorrect`, and `ImplementsCrossTransfers`: each action maps
  to one step or to stuttering.  Claims are told apart by the number of their
  ticket or exit, which is what makes "this claim and no other is gone" hold for
  two deposits of the same amount to the same account.  `NothingLost` sums over
  tickets and exits as well: a step changes what one ticket or one exit stands
  for (`DepositedChanges`, `OwedChanges`), and a ledger by as much.
- *BridgeScripts.* The inductive invariant `Wiring` says, for each step a script
  can be at, what it has wired so far (`RunOK`), and that whatever a file, a
  router, a registration or a ticket names belongs to a run that came to its end
  (`NamesDone`, `RoutesDone`), or, of a custom gateway, has come half way
  (`TokensDone`: `CustomHalf` once L1 is initialized, `CustomDone` at the end).
  From it follow `NamedBridgeWhole`, `RoutesArePaired` and `TokensWait`, for any
  number of runs, bridges and deaths.  `TokensWait` holds although addresses are
  handed out early, because a gateway that is not initialized has no owner
  yet who could register a token with it.  `LayersPart` needs three more invariants.  `Ownership`: who owns
  a bridge's ProxyAdmins at each step of its deployment and of a handover
  (`OwnedBy`, `Parting`), that both gateways of a finished pair are run by the
  ProxyAdmins of one bridge (`OneAdmin`), and that what an upgrade has checked
  still holds or was undone by a handover (`Admitted`), so that one which fails
  half way can name its cause (`Caused`).  `Handovers`: one that has done L1 goes
  through on L2, since nobody else can have taken it (`OneHandsOver`).  `Layered`:
  which upgrade left its logic on which layer of a gateway (`UpgradedL1`,
  `UpgradedL2`), and that two upgrades that are under way together have each other
  in `beside` one way or the other (`AllOverlap`); from it, two layers on different logic lead
  back to an upgrade of L1 alone, to one that owes L2 its part or was stopped
  there, or to two that overlapped.
- *RollupScripts.* `Progress` says what a deployment that has come to a given
  step of the plan has made current; `FinishedIsCurrent` reads it at the end.

Only model-checked: `DepositsSettle`, a liveness property under fairness.  The
types of `BridgeScripts`, `Oracle`, `SperaxToken` and `TwoPoolStrategy` are
theorems that no run checks; the invariants that the runs check contain what matters of them.

## 5. Where code and documents disagree

- `vault_unpaid`: a redemption whose default strategy does not support the
  collateral burns the USDs and pays no collateral.
- `vault_twice`: a rebase sets the supply from its value before the burn, so
  the holders gain twice what was bought, half of it unbacked.
- `strategy_max_return`: `_checkMaxReturn` converts what the LP tokens fetch in
  the other coin from the supported one (line 506), although it is an amount of
  the other; away from par it returns the coin that fetches less, against its
  comment.  `CheckBalanceIsNearMax` bounds what that hides.

Read but not stated as a run:
- `bridgeMint` and `bridgeBurn` of USDs add the gateway's counters to
  themselves, so they stay 0 and the oracle takes bridging for users' minting
  and burning; `SupplyIsCounted` says what the other counters still hold.
- Accounts outside the rebasing pool can own, by rounding, a few wei more than
  `nonRebasingSupply`, and then the last of them cannot burn or move all of it.
  `SupplyCovers` bounds how fast this grows: at most a credit's worth and a unit
  with each call that credits an account.
- What a default strategy holds when it is replaced is in no total of the vault.
- From 2^32 seconds on the oracle refuses updates, since its comparison is not
  modulo; the comments of `Oracle.sol` at lines 30 and 35 speak of 24 hours and 1
  hour where `initialize` sets six periods of 12 hours.
- `USDsL1.initialize` assigns its parameters instead of its storage.
- A comment of `SperaxTokenL1.sol` (line 58) says that SPA is minted when a user
  withdraws; the gateway only releases wrapped SPA from its escrow, so an exit of
  SPA that VaultCore minted on L2 waits until somebody deposits.
- After `removePToken` and `setPTokenAddress` of the asset in front, the
  strategy's list has the coins the other way round than the pool, and a
  withdrawal of one pays the other.

## 6. Plan

1. `Buyback`: hops per input token and the sale they lead to, composed with
   `VaultCore`'s rebase.
2. An abstract strategy (principal and worth) that `TwoPoolStrategy` refines and
   `VaultCore` uses; today the two are related by the properties above.
3. The oracle's price views, with the setters of feeds and pools.
4. The USDs of `VaultCore` as a user of `RebasingLedger`: its calls as sequences
   of the ledger's steps.
