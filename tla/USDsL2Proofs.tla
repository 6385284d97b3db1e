---------------------------- MODULE USDsL2Proofs ----------------------------
(***************************************************************************)
(* Theorems about USDsL2, for every value of its constants.                *)
(***************************************************************************)
EXTENDS USDsL2, SumLemmas

-----------------------------------------------------------------------------
(* Arithmetic.                                                             *)

(* The quotient of naturals by a positive divisor.                         *)
LEMMA DivFacts ==
    ASSUME NEW x \in Nat, NEW d \in Nat, d > 0
    PROVE  /\ x \div d \in Nat
           /\ (x \div d) * d <= x
           /\ x < (x \div d) * d + d
  BY SMT

(* A product of naturals is a natural.                                     *)
LEMMA MulNat == ASSUME NEW x \in Nat, NEW y \in Nat PROVE x * y \in Nat
  BY SMT

(* The roundings of StableMath return naturals.                            *)
LEMMA CeilNat ==
    ASSUME NEW x \in Nat, NEW y \in Nat
    PROVE  mulTruncateCeil(x, y) \in Nat
  <1>1. x * y + (FULL_SCALE - 1) \in Nat
    BY MulNat, ScaleAssumption, SMT
  <1>. QED  BY <1>1, DivFacts, ScaleAssumption DEF mulTruncateCeil

LEMMA DivPreciselyNat ==
    ASSUME NEW x \in Nat, NEW y \in Nat, y > 0
    PROVE  divPrecisely(x, y) \in Nat
  <1>1. x * FULL_SCALE \in Nat
    BY MulNat, ScaleAssumption
  <1>. QED  BY <1>1, DivFacts DEF divPrecisely

-----------------------------------------------------------------------------
(* Type correctness.                                                       *)

(* The inductive invariant: types alone are not inductive, because a       *)
(* balance is a natural only if the rate it is divided by is positive.     *)
IInv == TypeOK /\ RateMatchesChoice

(* What the views and the migration helpers return.                        *)
LEMMA ViewTypes ==
    ASSUME IInv, NEW a \in Accounts
    PROVE  /\ creditsPerToken(a) \in Nat /\ creditsPerToken(a) > 0
           /\ balanceOf(a) \in Nat
           /\ FrozenRate(a) \in Nat
           /\ MigratedSupply(a) \in Nat /\ MigratedCredits(a) \in Nat
  <1>1. creditBalances[a] \in Nat /\ nonRebasingCreditsPerToken[a] \in Nat
    BY DEF IInv, TypeOK
  <1>2. rebasingCreditsPerToken \in Nat /\ rebasingCreditsPerToken > 0
    BY DEF IInv, TypeOK, RateMatchesChoice
  <1>3. creditsPerToken(a) \in Nat /\ creditsPerToken(a) > 0
    BY <1>1, <1>2 DEF creditsPerToken
  <1>4. balanceOf(a) \in Nat
    BY <1>1, <1>3, DivPreciselyNat DEF balanceOf
  <1>. QED
    BY <1>1, <1>2, <1>3, <1>4 DEF FrozenRate, MigratedSupply, MigratedCredits

(* Migrating any set of accounts keeps every rate in agreement with its    *)
(* account's choice.                                                       *)
LEMMA MigrationKeepsRates ==
    ASSUME IInv, NEW S \in SUBSET Accounts,
           nonRebasingCreditsPerToken' = FrozenRates(S),
           UNCHANGED <<rebasingCreditsPerToken, rebaseState, isContract>>
    PROVE  /\ nonRebasingCreditsPerToken' \in [Accounts -> Nat]
           /\ RateMatchesChoice'
  <1>1. \A a \in Accounts : FrozenRate(a) \in Nat
    BY ViewTypes
  <1>2. nonRebasingCreditsPerToken' \in [Accounts -> Nat]
    BY <1>1 DEF FrozenRates, IInv, TypeOK
  <1>3. rebasingCreditsPerToken' > 0
    BY DEF IInv, RateMatchesChoice
  <1>4. ASSUME NEW a \in Accounts
        PROVE  /\ rebaseState'[a] = "OptIn" => InPool(a)'
               /\ rebaseState'[a] = "OptOut" => ~InPool(a)'
               /\ rebaseState'[a] = "NotSet" /\ ~InPool(a)' => isContract'[a]
    <2>1. CASE a \in S /\ Migrates(a)
      <3>1. nonRebasingCreditsPerToken'[a] = rebasingCreditsPerToken
        BY <2>1 DEF FrozenRates, FrozenRate
      <3>. QED
        BY <2>1, <3>1 DEF IInv, TypeOK, RateMatchesChoice, InPool, Migrates
    <2>2. CASE ~(a \in S /\ Migrates(a))
      <3>1. nonRebasingCreditsPerToken'[a] = nonRebasingCreditsPerToken[a]
        BY <2>2 DEF FrozenRates, FrozenRate
      <3>. QED
        BY <3>1 DEF IInv, RateMatchesChoice, InPool
    <2>. QED  BY <2>1, <2>2
  <1>. QED  BY <1>2, <1>3, <1>4 DEF RateMatchesChoice

LEMMA InitIInv == Init => IInv
  BY TokenAssumption, ScaleAssumption
  DEF Init, IInv, TypeOK, RateMatchesChoice, InPool, RebaseOptions

(* The common part of both transfers.                                      *)
LEMMA ExecuteTransferIInv ==
    ASSUME IInv, NEW from \in Accounts, NEW to \in Accounts, NEW value \in Nat,
           executeTransfer(from, to, value),
           allowances' \in [Accounts -> [Accounts -> Nat]]
    PROVE  IInv'
  <1>. DEFINE credited == mulTruncateCeil(value, creditsPerToken(to))
              deducted == mulTruncateCeil(value, creditsPerToken(from))
              outside  == nonRebasingSupply + MigratedSupply(to)
                            + IF from = to THEN 0 ELSE MigratedSupply(from)
              inside   == rebasingCredits - MigratedCredits(to)
                            - IF from = to THEN 0 ELSE MigratedCredits(from)
              debited  == [creditBalances EXCEPT ![from] = @ - deducted]
  <1>1. credited \in Nat /\ deducted \in Nat
    BY ViewTypes, CeilNat
  <1>2. outside \in Nat
    BY ViewTypes DEF IInv, TypeOK
  <1>3. inside \in Int
    BY ViewTypes DEF IInv, TypeOK
  <1>4. /\ deducted <= creditBalances[from]
        /\ inside >= 0
        /\ creditBalances' = [debited EXCEPT ![to] = @ + credited]
        /\ nonRebasingCreditsPerToken' = FrozenRates({from, to})
        /\ \/ /\ deducted <= inside
              /\ nonRebasingSupply' = outside + value
              /\ rebasingCredits' = inside - deducted
           \/ /\ value <= outside
              /\ nonRebasingSupply' = outside - value
              /\ rebasingCredits' = inside + credited
           \/ /\ nonRebasingSupply' = outside
              /\ rebasingCredits' = inside
        /\ UNCHANGED <<totalSupply, flows, roles, rebasingCreditsPerToken,
                       rebaseState, isContract>>
    BY DEF executeTransfer
  <1>. HIDE DEF credited, deducted, outside, inside
  <1>5. debited \in [Accounts -> Nat]
    BY <1>1, <1>4 DEF IInv, TypeOK
  <1>6. creditBalances' \in [Accounts -> Nat]
    BY <1>1, <1>4, <1>5
  <1>7. rebasingCredits' \in Nat /\ nonRebasingSupply' \in Nat
    BY <1>1, <1>2, <1>3, <1>4
  <1>8. nonRebasingCreditsPerToken' \in [Accounts -> Nat] /\ RateMatchesChoice'
    BY <1>4, MigrationKeepsRates
  <1>. QED
    BY <1>4, <1>6, <1>7, <1>8 DEF IInv, TypeOK, flows, roles

(* The common part of the two mints.                                       *)
LEMMA MintToIInv ==
    ASSUME IInv, NEW account \in Accounts, NEW amount \in Nat,
           mintTo(account, amount),
           totalBurnt' \in Nat, mintedViaGateway' \in Nat, burntViaGateway' \in Nat
    PROVE  IInv'
  <1>. DEFINE credit == mulTruncateCeil(amount, creditsPerToken(account))
              inside == rebasingCredits - MigratedCredits(account)
  <1>1. credit \in Nat
    BY ViewTypes, CeilNat
  <1>2. inside \in Int /\ MigratedSupply(account) \in Nat
    BY ViewTypes DEF IInv, TypeOK
  <1>3. /\ inside >= 0
        /\ creditBalances' = [creditBalances EXCEPT ![account] = @ + credit]
        /\ nonRebasingCreditsPerToken' = FrozenRates({account})
        /\ \/ /\ nonRebasingSupply' =
                     nonRebasingSupply + MigratedSupply(account) + amount
              /\ rebasingCredits' = inside
           \/ /\ rebasingCredits' = inside + credit
              /\ UNCHANGED nonRebasingSupply
        /\ totalSupply' = totalSupply + amount
        /\ totalMinted' = totalMinted + amount
        /\ UNCHANGED <<allowances, roles, rebasingCreditsPerToken,
                       rebaseState, isContract>>
    BY DEF mintTo
  <1>. HIDE DEF credit, inside
  <1>4. creditBalances' \in [Accounts -> Nat]
    BY <1>1, <1>3 DEF IInv, TypeOK
  <1>5. rebasingCredits' \in Nat /\ nonRebasingSupply' \in Nat
    BY <1>1, <1>2, <1>3 DEF IInv, TypeOK
  <1>6. nonRebasingCreditsPerToken' \in [Accounts -> Nat] /\ RateMatchesChoice'
    BY <1>3, MigrationKeepsRates
  <1>7. totalSupply' \in Nat /\ totalMinted' \in Nat
    BY <1>3 DEF IInv, TypeOK
  <1>8. UNCHANGED <<allowances, roles, rebasingCreditsPerToken, rebaseState,
                    isContract>>
    BY <1>3
  <1>. QED
    BY <1>4, <1>5, <1>6, <1>7, <1>8 DEF IInv, TypeOK, roles

(* The common part of the three burns.                                     *)
LEMMA BurnFromIInv ==
    ASSUME IInv, NEW account \in Accounts, NEW amount \in Nat,
           burnFrom(account, amount),
           totalBurnt' \in Nat, mintedViaGateway' \in Nat, burntViaGateway' \in Nat
    PROVE  IInv'
  <1>. DEFINE credit  == mulTruncateCeil(amount, creditsPerToken(account))
              owned   == creditBalances[account]
              outside == nonRebasingSupply + MigratedSupply(account)
              inside  == rebasingCredits - MigratedCredits(account)
  <1>1. credit \in Nat /\ owned \in Nat
    BY ViewTypes, CeilNat DEF IInv, TypeOK
  <1>2. inside \in Int /\ outside \in Nat
    BY ViewTypes DEF IInv, TypeOK
  <1>3. /\ credit <= owned
        /\ inside >= 0
        /\ creditBalances' = [creditBalances EXCEPT
                                 ![account] = Remainder(owned, credit)]
        /\ nonRebasingCreditsPerToken' = FrozenRates({account})
        /\ \/ /\ amount <= outside
              /\ nonRebasingSupply' = outside - amount
              /\ rebasingCredits' = inside
           \/ /\ credit <= inside
              /\ rebasingCredits' = inside - credit
              /\ UNCHANGED nonRebasingSupply
        /\ amount <= totalSupply
        /\ totalSupply' = totalSupply - amount
        /\ UNCHANGED <<totalMinted, allowances, roles,
                       rebasingCreditsPerToken, rebaseState, isContract>>
    BY DEF burnFrom
  <1>. HIDE DEF credit, outside, inside
  <1>4. Remainder(owned, credit) \in Nat
    BY <1>1, <1>3 DEF Remainder
  <1>5. creditBalances' \in [Accounts -> Nat]
    BY <1>3, <1>4 DEF IInv, TypeOK
  <1>6. rebasingCredits' \in Nat /\ nonRebasingSupply' \in Nat
    BY <1>1, <1>2, <1>3 DEF IInv, TypeOK
  <1>7. nonRebasingCreditsPerToken' \in [Accounts -> Nat] /\ RateMatchesChoice'
    BY <1>3, MigrationKeepsRates
  <1>8. totalSupply' \in Nat
    BY <1>3 DEF IInv, TypeOK
  <1>9. UNCHANGED <<totalMinted, allowances, roles, rebasingCreditsPerToken,
                    rebaseState, isContract>>
    BY <1>3
  <1>. QED
    BY <1>5, <1>6, <1>7, <1>8, <1>9 DEF IInv, TypeOK, roles

LEMMA OptInIInv ==
    ASSUME IInv, NEW a \in Accounts, RebaseOptIn(a)
    PROVE  IInv'
  <1>1. creditBalances[a] * rebasingCreditsPerToken \in Nat
    BY MulNat DEF IInv, TypeOK
  <1>2. Converted(a) \in Nat
    BY <1>1, ViewTypes, DivFacts DEF Converted
  <1>3. creditBalances' \in [Accounts -> Nat]
    BY <1>2 DEF RebaseOptIn, IInv, TypeOK
  <1>4. rebasingCredits' \in Nat /\ nonRebasingSupply' \in Nat
    BY <1>2, ViewTypes DEF RebaseOptIn, IInv, TypeOK
  <1>5. /\ nonRebasingCreditsPerToken' \in [Accounts -> Nat]
        /\ rebaseState' \in [Accounts -> RebaseOptions]
    BY DEF RebaseOptIn, IInv, TypeOK, RebaseOptions
  <1>6. RateMatchesChoice'
    BY DEF RebaseOptIn, IInv, TypeOK, RateMatchesChoice, InPool
  <1>. QED
    BY <1>3, <1>4, <1>5, <1>6 DEF RebaseOptIn, IInv, TypeOK, flows, roles

LEMMA OptOutIInv ==
    ASSUME IInv, NEW a \in Accounts, RebaseOptOut(a)
    PROVE  IInv'
  <1>1. rebasingCredits' \in Nat /\ nonRebasingSupply' \in Nat
    BY ViewTypes DEF RebaseOptOut, IInv, TypeOK
  <1>2. /\ nonRebasingCreditsPerToken' \in [Accounts -> Nat]
        /\ rebaseState' \in [Accounts -> RebaseOptions]
    BY DEF RebaseOptOut, IInv, TypeOK, RebaseOptions
  <1>3. RateMatchesChoice'
    BY DEF RebaseOptOut, IInv, TypeOK, RateMatchesChoice, InPool
  <1>. QED
    BY <1>1, <1>2, <1>3 DEF RebaseOptOut, IInv, TypeOK, flows, roles

LEMMA ChangeSupplyIInv ==
    ASSUME IInv, NEW c, NEW t \in Nat, ChangeSupply(c, t)
    PROVE  IInv'
  <1>. DEFINE capped == IF t > MAX_SUPPLY THEN MAX_SUPPLY ELSE t
              rate   == RebasedRate(capped)
  <1>1. /\ nonRebasingSupply < capped
        /\ rate > 0
        /\ rebasingCreditsPerToken' = rate
        /\ totalSupply' = divPrecisely(rebasingCredits, rate) + nonRebasingSupply
        /\ UNCHANGED <<flows, allowances, roles, pool, rebaseState, isContract>>
    BY DEF ChangeSupply
  <1>2. capped \in Nat
    BY TokenAssumption
  <1>. HIDE DEF capped
  <1>3. rate \in Nat
    BY <1>1, <1>2, DivPreciselyNat DEF RebasedRate, IInv, TypeOK
  <1>4. totalSupply' \in Nat
    BY <1>1, <1>3, DivPreciselyNat DEF IInv, TypeOK
  <1>5. RateMatchesChoice'
    BY <1>1 DEF IInv, RateMatchesChoice, InPool, pool
  <1>. QED
    BY <1>1, <1>3, <1>4, <1>5 DEF IInv, TypeOK, flows, roles, pool

(* Steps that touch neither credits nor rates.                             *)
LEMMA SetAllowanceIInv ==
    ASSUME IInv, NEW o \in Accounts, NEW s \in Accounts, NEW n \in Nat,
           SetAllowance(o, s, n)
    PROVE  IInv'
  BY DEF SetAllowance, IInv, TypeOK, RateMatchesChoice, InPool, flows, roles, pool

LEMMA HolderStepIInv ==
    ASSUME IInv, NEW a \in Accounts, HolderStep(a)
    PROVE  IInv'
  <1>1. ASSUME NEW b \in Accounts, NEW n \in Amounts, Transfer(a, b, n)
        PROVE  IInv'
    BY <1>1, ExecuteTransferIInv, TokenAssumption DEF Transfer, IInv, TypeOK
  <1>2. ASSUME NEW b \in Accounts, NEW d \in Accounts, NEW n \in Amounts,
               TransferFrom(a, b, d, n)
        PROVE  IInv'
    <2>1. allowances' \in [Accounts -> [Accounts -> Nat]]
      BY <1>2, TokenAssumption DEF TransferFrom, IInv, TypeOK
    <2>. QED
      BY <1>2, <2>1, ExecuteTransferIInv, TokenAssumption DEF TransferFrom
  <1>3. ASSUME NEW s \in Accounts, NEW n \in Approvals,
               \/ Approve(a, s, n)
               \/ IncreaseAllowance(a, s, n)
               \/ DecreaseAllowance(a, s, n)
        PROVE  IInv'
    <2>1. allowances[a][s] \in Nat /\ n \in Nat
      BY TokenAssumption DEF IInv, TypeOK
    <2>. QED
      BY <1>3, <2>1, SetAllowanceIInv
      DEF Approve, IncreaseAllowance, DecreaseAllowance
  <1>. QED  BY <1>1, <1>2, <1>3 DEF HolderStep

LEMMA VaultStepIInv ==
    ASSUME IInv, NEW c, VaultStep(c)
    PROVE  IInv'
  <1>1. ASSUME NEW a \in Accounts, NEW n \in Amounts, Mint(c, a, n)
        PROVE  IInv'
    BY <1>1, MintToIInv, TokenAssumption DEF Mint, IInv, TypeOK
  <1>2. ASSUME NEW a \in Accounts, NEW n \in Amounts, Burn(c, a, n)
        PROVE  IInv'
    <2>1. totalBurnt' \in Nat
      BY <1>2, TokenAssumption DEF Burn, IInv, TypeOK
    <2>. QED
      BY <1>2, <2>1, BurnFromIInv, TokenAssumption DEF Burn, IInv, TypeOK
  <1>3. ASSUME NEW a \in Accounts, NEW n \in Amounts,
               BurnExclFromOutFlow(c, a, n)
        PROVE  IInv'
    <2>1. totalBurnt' \in Nat
      BY <1>3, TokenAssumption DEF BurnExclFromOutFlow, IInv, TypeOK
    <2>. QED
      BY <1>3, <2>1, BurnFromIInv, TokenAssumption
      DEF BurnExclFromOutFlow, IInv, TypeOK
  <1>4. ASSUME NEW t \in RebaseTargets, ChangeSupply(c, t)
        PROVE  IInv'
    BY <1>4, ChangeSupplyIInv, TokenAssumption
  <1>. QED  BY <1>1, <1>2, <1>3, <1>4 DEF VaultStep

LEMMA GatewayStepIInv ==
    ASSUME IInv, NEW c, GatewayStep(c)
    PROVE  IInv'
  <1>1. ASSUME NEW a \in Accounts, NEW n \in Amounts, BridgeMint(c, a, n)
        PROVE  IInv'
    BY <1>1, MintToIInv, TokenAssumption DEF BridgeMint, IInv, TypeOK
  <1>2. ASSUME NEW a \in Accounts, NEW n \in Amounts, BridgeBurn(c, a, n)
        PROVE  IInv'
    <2>1. /\ totalBurnt' \in Nat
          /\ mintedViaGateway' \in Nat /\ burntViaGateway' \in Nat
      BY <1>2, TokenAssumption DEF BridgeBurn, IInv, TypeOK
    <2>. QED
      BY <1>2, <2>1, BurnFromIInv, TokenAssumption DEF BridgeBurn
  <1>. QED  BY <1>1, <1>2 DEF GatewayStep

LEMMA OwnerStepIInv ==
    ASSUME IInv, OwnerStep
    PROVE  IInv'
  <1>1. ASSUME NEW v \in Vaults, ChangeVault(v)
        PROVE  IInv'
    BY <1>1 DEF ChangeVault, IInv, TypeOK, RateMatchesChoice, InPool, flows, pool
  <1>2. ASSUME NEW g \in Gateways, ChangeArbToken(g)
        PROVE  IInv'
    BY <1>2 DEF ChangeArbToken, IInv, TypeOK, RateMatchesChoice, InPool, flows,
                pool
  <1>. QED  BY <1>1, <1>2, OptInIInv, OptOutIInv DEF OwnerStep

LEMMA NextIInv == IInv /\ [Next]_vars => IInv'
  <1>. SUFFICES ASSUME IInv, [Next]_vars PROVE IInv'
    OBVIOUS
  <1>1. ASSUME NEW a \in Accounts, Deploy(a)
        PROVE  IInv'
    BY <1>1 DEF Deploy, IInv, TypeOK, RateMatchesChoice, InPool, flows, roles, pool
  <1>2. CASE UNCHANGED vars
    BY <1>2 DEF vars, IInv, TypeOK, RateMatchesChoice, InPool, flows, roles, pool
  <1>. QED
    BY <1>1, <1>2, VaultStepIInv, GatewayStepIInv, HolderStepIInv, OwnerStepIInv
    DEF Next

(* Every variable keeps its type: no tally, balance of credits or counter  *)
(* ever goes negative, whatever the calls and their order.                 *)
THEOREM TypeCorrect == Spec => []TypeOK
  <1>1. IInv => TypeOK
    BY DEF IInv
  <1>. QED  BY InitIInv, NextIInv, <1>1, PTL DEF Spec

(* The global rate is never zero, and whether an account has a rate of its *)
(* own agrees with what it chose, or was made to by becoming a contract.   *)
THEOREM RatesAgree == Spec => []RateMatchesChoice
  <1>1. IInv => RateMatchesChoice
    BY DEF IInv
  <1>. QED  BY InitIInv, NextIInv, <1>1, PTL DEF Spec

-----------------------------------------------------------------------------
(* Rounding.  c credits at rate r are worth divPrecisely(c, r) USDs, and   *)
(* an amount of USDs is worth mulTruncateCeil(amount, r) credits.          *)

(* Comparing multiples of the same positive factor.                        *)
LEMMA CancelFactor ==
    ASSUME NEW x \in Int, NEW y \in Int, NEW d \in Nat, d > 0,
           x * d < y * d
    PROVE  x < y
  BY SMT

LEMMA CeilFacts ==
    ASSUME NEW v \in Nat, NEW r \in Nat
    PROVE  /\ mulTruncateCeil(v, r) \in Nat
           /\ v * r <= mulTruncateCeil(v, r) * FULL_SCALE
           /\ mulTruncateCeil(v, r) * FULL_SCALE <= v * r + (FULL_SCALE - 1)
  <1>1. v * r + (FULL_SCALE - 1) \in Nat /\ FULL_SCALE \in Nat /\ FULL_SCALE > 0
    BY MulNat, ScaleAssumption
  <1>2. v * r \in Nat
    BY MulNat
  <1>. DEFINE q == (v * r + (FULL_SCALE - 1)) \div FULL_SCALE
  <1>3. /\ q \in Nat
        /\ q * FULL_SCALE <= v * r + (FULL_SCALE - 1)
        /\ v * r + (FULL_SCALE - 1) < q * FULL_SCALE + FULL_SCALE
    BY <1>1, DivFacts
  <1>. HIDE DEF q
  <1>4. q * FULL_SCALE \in Nat
    BY <1>1, <1>3, MulNat
  <1>5. v * r <= q * FULL_SCALE
    BY <1>1, <1>2, <1>3, <1>4
  <1>. QED  BY <1>3, <1>5 DEF mulTruncateCeil, q

LEMMA WorthFacts ==
    ASSUME NEW c \in Nat, NEW r \in Nat, r > 0
    PROVE  /\ divPrecisely(c, r) \in Nat
           /\ divPrecisely(c, r) * r <= c * FULL_SCALE
           /\ c * FULL_SCALE < divPrecisely(c, r) * r + r
  <1>1. c * FULL_SCALE \in Nat
    BY MulNat, ScaleAssumption
  <1>. QED  BY <1>1, DivFacts DEF divPrecisely

(* What a holder may ask for, it has the credits for: no amount up to a    *)
(* balance is rounded up past the credits behind the balance.              *)
LEMMA BalanceIsSpendable ==
    ASSUME NEW c \in Nat, NEW r \in Nat, r > 0, NEW v \in Nat,
           v <= divPrecisely(c, r)
    PROVE  mulTruncateCeil(v, r) <= c
  <1>. DEFINE q == mulTruncateCeil(v, r)
              p == divPrecisely(c, r)
  <1>1. q \in Nat /\ q * FULL_SCALE <= v * r + (FULL_SCALE - 1)
    BY CeilFacts
  <1>2. p \in Nat /\ p * r <= c * FULL_SCALE
    BY WorthFacts
  <1>. HIDE DEF q, p
  <1>3. v <= p
    BY DEF p
  <1>4. v * r <= p * r
    BY <1>2, <1>3, SMT
  <1>5. /\ v * r \in Nat /\ p * r \in Nat /\ c * FULL_SCALE \in Nat
        /\ q * FULL_SCALE \in Nat /\ FULL_SCALE \in Nat /\ FULL_SCALE > 0
    BY <1>1, <1>2, MulNat, ScaleAssumption
  <1>6. (c + 1) * FULL_SCALE = c * FULL_SCALE + FULL_SCALE
    BY <1>5
  <1>7. q * FULL_SCALE < (c + 1) * FULL_SCALE
    BY <1>1, <1>2, <1>4, <1>5, <1>6
  <1>8. q < c + 1
    BY <1>1, <1>5, <1>7, CancelFactor
  <1>. QED  BY <1>1, <1>8 DEF q

(* Adding the credits of an amount adds at least the amount to a balance.  *)
LEMMA CreditingGives ==
    ASSUME NEW c \in Nat, NEW r \in Nat, r > 0, NEW v \in Nat
    PROVE  divPrecisely(c + mulTruncateCeil(v, r), r) >= divPrecisely(c, r) + v
  <1>. DEFINE q == mulTruncateCeil(v, r)
              p == divPrecisely(c, r)
              n == divPrecisely(c + q, r)
  <1>1. q \in Nat /\ v * r <= q * FULL_SCALE
    BY CeilFacts
  <1>2. p \in Nat /\ p * r <= c * FULL_SCALE
    BY WorthFacts
  <1>3. n \in Nat /\ (c + q) * FULL_SCALE < n * r + r
    BY <1>1, WorthFacts
  <1>. HIDE DEF q, p, n
  <1>4. /\ v * r \in Nat /\ p * r \in Nat /\ c * FULL_SCALE \in Nat
        /\ q * FULL_SCALE \in Nat /\ n * r \in Nat /\ FULL_SCALE \in Nat
    BY <1>1, <1>2, <1>3, MulNat, ScaleAssumption
  <1>5. /\ (c + q) * FULL_SCALE = c * FULL_SCALE + q * FULL_SCALE
        /\ (p + v) * r = p * r + v * r
        /\ (n + 1) * r = n * r + r
    BY <1>1, <1>2, <1>3, <1>4
  <1>6. (p + v) * r < (n + 1) * r
    BY <1>1, <1>2, <1>3, <1>4, <1>5
  <1>7. p + v < n + 1
    BY <1>2, <1>3, <1>6, CancelFactor
  <1>. QED  BY <1>2, <1>3, <1>7 DEF n, p, q

(* Taking the credits of an amount takes at least the amount from a        *)
(* balance, and at most a credit's worth and a rounding more.              *)
LEMMA DebitingTakes ==
    ASSUME NEW c \in Nat, NEW r \in Nat, r > 0, NEW v \in Nat,
           mulTruncateCeil(v, r) <= c
    PROVE  LET n == divPrecisely(c - mulTruncateCeil(v, r), r)
               p == divPrecisely(c, r)
           IN  n <= p - v /\ n >= p - v - Slack(r)
  <1>. DEFINE q == mulTruncateCeil(v, r)
              p == divPrecisely(c, r)
              n == divPrecisely(c - q, r)
              k == FULL_SCALE \div r
  <1>0. FULL_SCALE \in Nat /\ FULL_SCALE > 0
    BY ScaleAssumption
  <1>1. /\ q \in Nat /\ v * r <= q * FULL_SCALE
        /\ q * FULL_SCALE <= v * r + (FULL_SCALE - 1)
    BY CeilFacts
  <1>2. /\ p \in Nat /\ p * r <= c * FULL_SCALE
        /\ c * FULL_SCALE < p * r + r
    BY WorthFacts
  <1>3. c - q \in Nat
    BY <1>1
  <1>4. /\ n \in Nat /\ n * r <= (c - q) * FULL_SCALE
        /\ (c - q) * FULL_SCALE < n * r + r
    BY <1>3, WorthFacts
  <1>5. k \in Nat /\ FULL_SCALE < k * r + r
    BY <1>0, DivFacts
  <1>. HIDE DEF q, p, n, k
  <1>6. /\ v * r \in Nat /\ p * r \in Nat /\ c * FULL_SCALE \in Nat
        /\ q * FULL_SCALE \in Nat /\ n * r \in Nat /\ k * r \in Nat
    BY <1>0, <1>1, <1>2, <1>4, <1>5, MulNat
  <1>7. /\ (c - q) * FULL_SCALE = c * FULL_SCALE - q * FULL_SCALE
        /\ (p - v + 1) * r = p * r - v * r + r
        /\ (n + 1) * r = n * r + r
        /\ (p - v - k - 1) * r = p * r - v * r - k * r - r
    BY <1>0, <1>1, <1>2, <1>4, <1>5, <1>6
  <1>8. n * r < (p - v + 1) * r
    BY <1>0, <1>1, <1>2, <1>4, <1>6, <1>7
  <1>9. n < p - v + 1
    BY <1>2, <1>4, <1>8, CancelFactor
  <1>10. (p - v - k - 1) * r < (n + 1) * r
    BY <1>0, <1>1, <1>2, <1>4, <1>5, <1>6, <1>7
  <1>11. p - v - k - 1 < n + 1
    BY <1>2, <1>4, <1>5, <1>10, CancelFactor
  <1>12. Slack(r) = k + 1
    BY DEF Slack, k
  <1>. QED  BY <1>2, <1>4, <1>5, <1>9, <1>11, <1>12 DEF n, p, q

(* Converting credits from one rate to another never raises what they are  *)
(* worth, and lowers it by at most a credit's worth and a rounding.        *)
LEMMA ConvertingKeeps ==
    ASSUME NEW c \in Nat, NEW r \in Nat, r > 0, NEW g \in Nat, g > 0
    PROVE  LET n == divPrecisely((c * g) \div r, g)
               p == divPrecisely(c, r)
           IN  n <= p /\ n >= p - Slack(g)
  <1>. DEFINE m == (c * g) \div r
              p == divPrecisely(c, r)
              n == divPrecisely(m, g)
              k == FULL_SCALE \div g
              S == FULL_SCALE
  <1>0. S \in Nat /\ S > 0
    BY ScaleAssumption
  <1>1. m \in Nat /\ m * r <= c * g /\ c * g < m * r + r
    BY MulNat, DivFacts
  <1>2. p \in Nat /\ p * r <= c * S /\ c * S < p * r + r
    BY WorthFacts
  <1>3. n \in Nat /\ n * g <= m * S /\ m * S < n * g + g
    BY <1>1, WorthFacts
  <1>4. k \in Nat /\ S < k * g + g
    BY <1>0, DivFacts
  <1>. HIDE DEF m, p, n, k, S
  <1>5. n <= p
    <2>1. (n * g) * r <= (m * S) * r
      BY <1>0, <1>1, <1>3, MulNat, SMT
    <2>2. (m * r) * S <= (c * g) * S
      BY <1>0, <1>1, MulNat, SMT
    <2>3. (c * S) * g < (p * r + r) * g
      BY <1>0, <1>2, MulNat, SMT
    <2>4. /\ (m * S) * r = (m * r) * S /\ (c * g) * S = (c * S) * g
          /\ (n * g) * r = (n * r) * g /\ p * r + r = (p + 1) * r
      BY <1>0, <1>1, <1>2, <1>3, SMT
    <2>5. /\ (n * r) * g \in Int /\ ((p + 1) * r) * g \in Int
          /\ (m * r) * S \in Int /\ (c * g) * S \in Int
      BY <1>0, <1>1, <1>2, <1>3, MulNat
    <2>6. (n * r) * g < ((p + 1) * r) * g
      BY <2>1, <2>2, <2>3, <2>4, <2>5
    <2>7. n * r \in Int /\ (p + 1) * r \in Int
      BY <1>2, <1>3, MulNat
    <2>8. n * r < (p + 1) * r
      BY <2>6, <2>7, CancelFactor
    <2>9. n < p + 1
      BY <1>2, <1>3, <2>8, CancelFactor
    <2>. QED  BY <1>2, <1>3, <2>9
  <1>6. n >= p - (k + 1)
    <2>1. (p * r) * g <= (c * S) * g
      BY <1>0, <1>2, MulNat, SMT
    <2>2. (c * g) * S < (m * r + r) * S
      BY <1>0, <1>1, MulNat, SMT
    <2>3. /\ (c * S) * g = (c * g) * S /\ (p * r) * g = (p * g) * r
          /\ (m * r + r) * S = (m * S + S) * r
      BY <1>0, <1>1, <1>2, SMT
    <2>4. /\ (p * g) * r \in Int /\ (c * g) * S \in Int
          /\ (m * S + S) * r \in Int /\ p * g \in Int /\ m * S + S \in Int
      BY <1>0, <1>1, <1>2, MulNat
    <2>5. (p * g) * r < (m * S + S) * r
      BY <2>1, <2>2, <2>3, <2>4
    <2>6. p * g < m * S + S
      BY <2>4, <2>5, CancelFactor
    <2>7. n * g \in Int /\ k * g \in Int /\ m * S \in Int
      BY <1>0, <1>1, <1>3, <1>4, MulNat
    <2>8. (n + k + 2) * g = n * g + g + k * g + g
      BY <1>3, <1>4, SMT
    <2>9. p * g < (n + k + 2) * g
      BY <1>0, <1>3, <1>4, <2>4, <2>6, <2>7, <2>8
    <2>10. p < n + k + 2
      BY <1>2, <1>3, <1>4, <2>9, CancelFactor
    <2>. QED  BY <1>2, <1>3, <1>4, <2>10
  <1>7. Slack(g) = k + 1
    BY DEF Slack, k, S
  <1>. QED  BY <1>5, <1>6, <1>7 DEF n, p, m

-----------------------------------------------------------------------------
(* What a step does to balances.                                           *)

(* No credits are worth nothing at any rate.                               *)
LEMMA NoCreditsNoWorth ==
    ASSUME NEW r \in Nat, r > 0
    PROVE  divPrecisely(0, r) = 0
  <1>1. /\ divPrecisely(0, r) \in Nat
        /\ divPrecisely(0, r) * r <= 0 * FULL_SCALE
    BY WorthFacts
  <1>2. divPrecisely(0, r) * r >= divPrecisely(0, r)
    BY <1>1, SMT
  <1>3. 0 * FULL_SCALE = 0 /\ divPrecisely(0, r) * r \in Nat
    BY <1>1, ScaleAssumption, MulNat
  <1>. QED  BY <1>1, <1>2, <1>3

(* A balance is what the account's credits are worth, 0 credits included,  *)
(* in this state and in the next.                                          *)
LEMMA BalanceIsWorth ==
    ASSUME IInv, NEW a \in Accounts
    PROVE  balanceOf(a) = divPrecisely(creditBalances[a], creditsPerToken(a))
  BY ViewTypes, NoCreditsNoWorth DEF balanceOf

LEMMA NextBalanceIsWorth ==
    ASSUME IInv', NEW a \in Accounts
    PROVE  balanceOf(a)' = divPrecisely(creditBalances'[a], creditsPerToken(a)')
  <1>1. /\ nonRebasingCreditsPerToken'[a] \in Nat
        /\ rebasingCreditsPerToken' \in Nat /\ rebasingCreditsPerToken' > 0
    BY DEF IInv, TypeOK, RateMatchesChoice
  <1>2. creditsPerToken(a)' \in Nat /\ creditsPerToken(a)' > 0
    BY <1>1 DEF creditsPerToken
  <1>. QED  BY <1>2, NoCreditsNoWorth DEF balanceOf

(* A migration leaves the rate each account uses as it was.                *)
LEMMA MigrationKeepsUsedRates ==
    ASSUME IInv, NEW S \in SUBSET Accounts,
           nonRebasingCreditsPerToken' = FrozenRates(S),
           rebasingCreditsPerToken' = rebasingCreditsPerToken,
           NEW a \in Accounts
    PROVE  creditsPerToken(a)' = creditsPerToken(a)
  <1>1. CASE a \in S /\ Migrates(a)
    BY <1>1
    DEF FrozenRates, FrozenRate, Migrates, creditsPerToken, IInv, RateMatchesChoice
  <1>2. CASE ~(a \in S /\ Migrates(a))
    BY <1>2 DEF FrozenRates, FrozenRate, creditsPerToken
  <1>. QED  BY <1>1, <1>2

(* A transfer moves the value, whatever the rates of the two accounts.     *)
LEMMA TransferStep ==
    ASSUME IInv, NEW from \in Accounts, NEW to \in Accounts, NEW value \in Nat,
           IInv', executeTransfer(from, to, value)
    PROVE  MovesValue(from, to, value)
  <1>. DEFINE rf == creditsPerToken(from)
              rt == creditsPerToken(to)
              qf == mulTruncateCeil(value, rf)
              qt == mulTruncateCeil(value, rt)
              debited == [creditBalances EXCEPT ![from] = @ - qf]
  <1>1. /\ qf <= creditBalances[from]
        /\ creditBalances' = [debited EXCEPT ![to] = @ + qt]
        /\ nonRebasingCreditsPerToken' = FrozenRates({from, to})
        /\ rebasingCreditsPerToken' = rebasingCreditsPerToken
    BY DEF executeTransfer
  <1>2. \A a \in Accounts : creditsPerToken(a)' = creditsPerToken(a)
    BY <1>1, MigrationKeepsUsedRates
  <1>3. \A a \in Accounts :
          /\ creditBalances[a] \in Nat
          /\ creditsPerToken(a) \in Nat /\ creditsPerToken(a) > 0
          /\ balanceOf(a) \in Nat
    BY ViewTypes DEF IInv, TypeOK
  <1>4. \A a \in Accounts :
          /\ balanceOf(a) = divPrecisely(creditBalances[a], creditsPerToken(a))
          /\ balanceOf(a)' = divPrecisely(creditBalances'[a], creditsPerToken(a))
    BY <1>2, BalanceIsWorth, NextBalanceIsWorth
  <1>5. qf \in Nat /\ qt \in Nat
    BY <1>3, CeilNat
  <1>6. creditBalances \in [Accounts -> Nat]
    BY DEF IInv, TypeOK
  <1>. HIDE DEF qf, qt
  <1>7. ASSUME NEW a \in Accounts \ {from, to}
        PROVE  balanceOf(a)' = balanceOf(a)
    BY <1>1, <1>4, <1>6
  <1>8. CASE from = to
    <2>1. qf = qt
      BY <1>8 DEF qf, qt
    <2>2. creditBalances'[to] = creditBalances[to]
      BY <1>1, <1>3, <1>5, <1>6, <1>8, <2>1
    <2>. QED  BY <1>4, <1>7, <1>8, <2>2 DEF MovesValue
  <1>9. CASE from # to
    <2>1. /\ creditBalances'[to] = creditBalances[to] + qt
          /\ creditBalances'[from] = creditBalances[from] - qf
      BY <1>1, <1>6, <1>9
    <2>2. balanceOf(to)' >= balanceOf(to) + value
      BY <1>3, <1>4, <2>1, CreditingGives DEF qt
    <2>3. /\ balanceOf(from)' <= balanceOf(from) - value
          /\ balanceOf(from)' >= balanceOf(from) - value - Slack(rf)
      <3>1. /\ divPrecisely(creditBalances[from] - qf, rf)
                  <= divPrecisely(creditBalances[from], rf) - value
            /\ divPrecisely(creditBalances[from] - qf, rf)
                  >= divPrecisely(creditBalances[from], rf) - value - Slack(rf)
        BY <1>1, <1>3, DebitingTakes DEF qf
      <3>2. /\ balanceOf(from) = divPrecisely(creditBalances[from], rf)
            /\ balanceOf(from)' = divPrecisely(creditBalances[from] - qf, rf)
        BY <1>4, <2>1
      <3>. QED  BY <3>1, <3>2
    <2>. QED  BY <1>7, <1>9, <2>2, <2>3 DEF MovesValue
  <1>. QED  BY <1>8, <1>9

(* Whatever the rates of sender and receiver and whichever is migrated on  *)
(* the way, the receiver gains at least the value, the sender loses at     *)
(* least the value and at most a credit more, and nobody else is affected. *)
THEOREM TransfersMoveValue == Spec => TransferMovesValue
  <1>1. IInv /\ [Next]_vars =>
          [\A from, to \in Accounts, n \in Amounts :
              Transfer(from, to, n) => MovesValue(from, to, n)]_vars
    <2>. SUFFICES ASSUME IInv, [Next]_vars, NEW from \in Accounts,
                         NEW to \in Accounts, NEW n \in Amounts,
                         Transfer(from, to, n)
                  PROVE  MovesValue(from, to, n)
      OBVIOUS
    <2>. QED
      BY NextIInv, TransferStep, TokenAssumption DEF Transfer
  <1>. QED  BY <1>1, InitIInv, NextIInv, PTL DEF Spec, TransferMovesValue

(* An opt-in converts the balance and touches nobody else's.               *)
LEMMA OptInStep ==
    ASSUME IInv, IInv', NEW a \in Accounts, RebaseOptIn(a)
    PROVE  /\ balanceOf(a)' <= balanceOf(a)
           /\ balanceOf(a)' >= balanceOf(a) - Slack(rebasingCreditsPerToken)
           /\ \A b \in Accounts \ {a} : balanceOf(b)' = balanceOf(b)
  <1>. DEFINE g == rebasingCreditsPerToken
              r == creditsPerToken(a)
              c == creditBalances[a]
  <1>1. /\ c \in Nat /\ r \in Nat /\ r > 0 /\ g \in Nat /\ g > 0
        /\ creditBalances \in [Accounts -> Nat]
        /\ nonRebasingCreditsPerToken \in [Accounts -> Nat]
    BY ViewTypes DEF IInv, TypeOK, RateMatchesChoice
  <1>2. /\ creditBalances' = [creditBalances EXCEPT ![a] = (c * g) \div r]
        /\ nonRebasingCreditsPerToken' =
              [nonRebasingCreditsPerToken EXCEPT ![a] = 0]
        /\ rebasingCreditsPerToken' = g
    BY DEF RebaseOptIn, Converted
  <1>3. creditBalances'[a] = (c * g) \div r /\ creditsPerToken(a)' = g
    BY <1>1, <1>2 DEF creditsPerToken
  <1>4. /\ balanceOf(a) = divPrecisely(c, r)
        /\ balanceOf(a)' = divPrecisely((c * g) \div r, g)
    BY <1>3, BalanceIsWorth, NextBalanceIsWorth
  <1>5. /\ divPrecisely((c * g) \div r, g) <= divPrecisely(c, r)
        /\ divPrecisely((c * g) \div r, g) >= divPrecisely(c, r) - Slack(g)
    BY <1>1, ConvertingKeeps
  <1>6. ASSUME NEW b \in Accounts \ {a}
        PROVE  balanceOf(b)' = balanceOf(b)
    <2>1. /\ creditBalances'[b] = creditBalances[b]
          /\ nonRebasingCreditsPerToken'[b] = nonRebasingCreditsPerToken[b]
      BY <1>1, <1>2
    <2>. QED  BY <1>2, <2>1 DEF balanceOf, creditsPerToken
  <1>. QED  BY <1>4, <1>5, <1>6

(* An opt-out changes nobody's balance.                                     *)
LEMMA OptOutStep ==
    ASSUME IInv, NEW a \in Accounts, RebaseOptOut(a)
    PROVE  \A b \in Accounts : balanceOf(b)' = balanceOf(b)
  <1>1. nonRebasingCreditsPerToken[a] = 0
    <2>1. /\ nonRebasingCreditsPerToken[a] \in Nat
          /\ rebasingCreditsPerToken \in Nat /\ rebasingCreditsPerToken > 0
      BY DEF IInv, TypeOK, RateMatchesChoice
    <2>. QED  BY <2>1 DEF RebaseOptOut, isNonRebasing, FrozenRate
  <1>2. TAKE b \in Accounts
  <1>3. creditsPerToken(b)' = creditsPerToken(b)
    BY <1>1 DEF RebaseOptOut, creditsPerToken, IInv, TypeOK
  <1>. QED  BY <1>3 DEF RebaseOptOut, balanceOf

(* Opting in costs an account at most a credit's worth and a rounding and  *)
(* never pays; opting out is neutral; neither concerns anybody else.       *)
THEOREM ChoicesKeepBalances == Spec => ChoiceKeepsBalances
  <1>. DEFINE Kept(a) ==
          /\ RebaseOptIn(a) =>
                /\ balanceOf(a)' <= balanceOf(a)
                /\ balanceOf(a)' >= balanceOf(a) - Slack(rebasingCreditsPerToken)
          /\ RebaseOptOut(a) => balanceOf(a)' = balanceOf(a)
          /\ RebaseOptIn(a) \/ RebaseOptOut(a) =>
                \A b \in Accounts \ {a} : balanceOf(b)' = balanceOf(b)
  <1>1. IInv /\ [Next]_vars => [\A a \in Accounts : Kept(a)]_vars
    <2>. SUFFICES ASSUME IInv, [Next]_vars, NEW a \in Accounts PROVE Kept(a)
      OBVIOUS
    <2>1. IInv'
      BY NextIInv
    <2>. QED  BY <2>1, OptInStep, OptOutStep
  <1>. QED
    BY <1>1, InitIInv, NextIInv, PTL DEF Spec, ChoiceKeepsBalances

-----------------------------------------------------------------------------
(* The counters.                                                           *)

(* As the code stands the gateway's counters never leave zero.             *)
CInv == IInv /\ mintedViaGateway = 0 /\ burntViaGateway = 0

LEMMA HoldersLeaveSupply ==
    ASSUME NEW a \in Accounts, HolderStep(a)
    PROVE  UNCHANGED <<totalSupply, flows>>
  <1>1. ASSUME NEW b, NEW d, NEW n, executeTransfer(b, d, n)
        PROVE  UNCHANGED <<totalSupply, flows>>
    BY <1>1 DEF executeTransfer
  <1>2. ASSUME NEW o, NEW s, NEW n, SetAllowance(o, s, n)
        PROVE  UNCHANGED <<totalSupply, flows>>
    BY <1>2 DEF SetAllowance
  <1>3. CASE \E b \in Accounts, n \in Amounts : Transfer(a, b, n)
    BY <1>1, <1>3 DEF Transfer
  <1>4. CASE \E b, d \in Accounts, n \in Amounts : TransferFrom(a, b, d, n)
    BY <1>1, <1>4 DEF TransferFrom
  <1>5. CASE \E s \in Accounts, n \in Approvals :
               \/ Approve(a, s, n)
               \/ IncreaseAllowance(a, s, n)
               \/ DecreaseAllowance(a, s, n)
    BY <1>2, <1>5 DEF Approve, IncreaseAllowance, DecreaseAllowance
  <1>. QED  BY <1>3, <1>4, <1>5 DEF HolderStep

LEMMA NextCInv == CInv /\ [Next]_vars => CInv'
  <1>. SUFFICES ASSUME CInv, [Next]_vars
                PROVE  mintedViaGateway' = 0 /\ burntViaGateway' = 0
    BY NextIInv DEF CInv
  <1>1. ASSUME NEW c, VaultStep(c)
        PROVE  UNCHANGED <<mintedViaGateway, burntViaGateway>>
    BY <1>1 DEF VaultStep, Mint, Burn, BurnExclFromOutFlow, ChangeSupply, flows
  <1>2. ASSUME NEW c, GatewayStep(c)
        PROVE  mintedViaGateway' = 0 /\ burntViaGateway' = 0
    BY <1>2 DEF GatewayStep, BridgeMint, BridgeBurn, CInv
  <1>3. ASSUME NEW a \in Accounts, HolderStep(a)
        PROVE  UNCHANGED <<mintedViaGateway, burntViaGateway>>
    BY <1>3, HoldersLeaveSupply DEF flows
  <1>4. ASSUME OwnerStep \/ (\E a \in Accounts : Deploy(a)) \/ UNCHANGED vars
        PROVE  UNCHANGED <<mintedViaGateway, burntViaGateway>>
    BY <1>4 DEF OwnerStep, RebaseOptIn, RebaseOptOut, ChangeVault,
                ChangeArbToken, Deploy, vars, flows
  <1>5. mintedViaGateway = 0 /\ burntViaGateway = 0
    BY DEF CInv
  <1>. QED  BY <1>1, <1>2, <1>3, <1>4, <1>5 DEF Next

(* Supply is created and destroyed only as counted, or by a rebase and the *)
(* burn it makes, and the flows the oracle reads never run backwards.      *)
THEOREM SupplyCounted == Spec => SupplyIsCounted
  <1>. DEFINE Counted ==
          /\ \/ totalSupply' - totalSupply =
                    (totalMinted' - totalMinted) - (totalBurnt' - totalBurnt)
             \/ /\ UNCHANGED flows
                /\ \/ \E c \in Callers, t \in RebaseTargets : ChangeSupply(c, t)
                   \/ \E c \in Callers, a \in Accounts, n \in Amounts :
                         BurnExclFromOutFlow(c, a, n)
          /\ mintedViaUsers' >= mintedViaUsers
          /\ burntViaUsers' >= burntViaUsers
  <1>1. CInv /\ [Next]_vars => [Counted]_vars
    <2>. SUFFICES ASSUME CInv, Next PROVE Counted
      OBVIOUS
    <2>1. /\ totalSupply \in Nat /\ totalMinted \in Nat /\ totalBurnt \in Nat
          /\ mintedViaGateway = 0 /\ burntViaGateway = 0
          /\ mintedViaGateway' = 0 /\ burntViaGateway' = 0
          /\ Amounts \subseteq Nat
      BY NextCInv, TokenAssumption DEF CInv, IInv, TypeOK
    <2>2. ASSUME NEW c \in Callers, NEW a \in Accounts, NEW n \in Amounts,
                 Mint(c, a, n) \/ BridgeMint(c, a, n)
          PROVE  Counted
      BY <2>1, <2>2 DEF Mint, BridgeMint, mintTo, mintedViaUsers, burntViaUsers
    <2>3. ASSUME NEW c \in Callers, NEW a \in Accounts, NEW n \in Amounts,
                 Burn(c, a, n) \/ BridgeBurn(c, a, n)
          PROVE  Counted
      BY <2>1, <2>3 DEF Burn, BridgeBurn, burnFrom, mintedViaUsers, burntViaUsers
    <2>4. ASSUME NEW c \in Callers, NEW a \in Accounts, NEW n \in Amounts,
                 BurnExclFromOutFlow(c, a, n)
          PROVE  Counted
      <3>1. UNCHANGED flows
        BY <2>1, <2>4 DEF BurnExclFromOutFlow, burnFrom, flows
      <3>. QED
        BY <2>1, <2>4, <3>1 DEF mintedViaUsers, burntViaUsers, flows
    <2>5. ASSUME NEW c \in Callers, NEW t \in RebaseTargets, ChangeSupply(c, t)
          PROVE  Counted
      <3>1. UNCHANGED flows
        BY <2>5 DEF ChangeSupply
      <3>. QED
        BY <2>1, <2>5, <3>1 DEF mintedViaUsers, burntViaUsers, flows
    <2>6. ASSUME UNCHANGED <<totalSupply, flows>>
          PROVE  Counted
      BY <2>1, <2>6 DEF mintedViaUsers, burntViaUsers, flows
    <2>7. ASSUME NEW a \in Accounts, HolderStep(a) \/ Deploy(a)
          PROVE  UNCHANGED <<totalSupply, flows>>
      BY <2>7, HoldersLeaveSupply DEF Deploy
    <2>8. ASSUME OwnerStep
          PROVE  UNCHANGED <<totalSupply, flows>>
      BY <2>8 DEF OwnerStep, RebaseOptIn, RebaseOptOut, ChangeVault,
                  ChangeArbToken
    <2>9. ASSUME NEW c \in Callers, VaultStep(c) \/ GatewayStep(c)
          PROVE  Counted
      <3>. HIDE DEF Counted
      <3>. QED
        BY <2>2, <2>3, <2>4, <2>5, <2>9 DEF VaultStep, GatewayStep
    <2>. HIDE DEF Counted
    <2>. QED  BY <2>6, <2>7, <2>8, <2>9 DEF Next
  <1>2. Init => CInv
    BY InitIInv DEF CInv, Init
  <1>. QED  BY <1>1, <1>2, NextCInv, PTL DEF Spec, SupplyIsCounted

-----------------------------------------------------------------------------
(* The pool's tally.                                                       *)

(* The credits an account has in the pool.                                 *)
Pooled(a) == IF InPool(a) THEN creditBalances[a] ELSE 0
PooledOf == [a \in Accounts |-> Pooled(a)]

LEMMA PoolIsPooled ==
    ASSUME IInv
    PROVE  PoolCredits = SumFunctionOnSet(PooledOf, Accounts)
  <1>1. \A a \in Accounts :
           /\ creditBalances[a] \in Int
           /\ PooledOf[a] = IF a \in Pool THEN creditBalances[a] ELSE 0
    BY DEF IInv, TypeOK, Pool, PooledOf, Pooled
  <1>2. Pool \in SUBSET Accounts
    BY DEF Pool
  <1>. QED  BY <1>1, <1>2, SumFiltered, TokenAssumption DEF PoolCredits

LEMMA NextPoolIsPooled ==
    ASSUME IInv'
    PROVE  PoolCredits' = SumFunctionOnSet(PooledOf', Accounts)
  <1>1. \A a \in Accounts :
           /\ creditBalances'[a] \in Int
           /\ PooledOf'[a] = IF a \in Pool' THEN creditBalances'[a] ELSE 0
    BY DEF IInv, TypeOK, Pool, PooledOf, Pooled
  <1>2. Pool' \in SUBSET Accounts
    BY DEF Pool
  <1>. QED  BY <1>1, <1>2, SumFiltered, TokenAssumption DEF PoolCredits

(* What a step does to the pool, when one account or two are concerned.     *)
LEMMA PoolMovesByOne ==
    ASSUME IInv, IInv', NEW x \in Accounts,
           \A a \in Accounts \ {x} : Pooled(a)' = Pooled(a)
    PROVE  /\ PoolCredits' = PoolCredits + Pooled(x)' - Pooled(x)
           /\ PoolCredits \in Int /\ Pooled(x) \in Nat /\ Pooled(x)' \in Nat
  <1>1. \A a \in Accounts : Pooled(a) \in Nat /\ Pooled(a)' \in Nat
    BY DEF IInv, TypeOK, Pooled
  <1>2. \A a \in Accounts : PooledOf[a] = Pooled(a) /\ PooledOf'[a] = Pooled(a)'
    BY DEF PooledOf
  <1>. DEFINE f == PooledOf
              g == PooledOf'
  <1>3. /\ \A a \in Accounts : f[a] \in Int /\ g[a] \in Int
        /\ \A a \in Accounts \ {x} : g[a] = f[a]
    BY <1>1, <1>2
  <1>4. PoolCredits = SumFunctionOnSet(f, Accounts) /\ PoolCredits' = SumFunctionOnSet(g, Accounts)
    BY PoolIsPooled, NextPoolIsPooled
  <1>5. f[x] = Pooled(x) /\ g[x] = Pooled(x)'
    BY <1>2
  <1>. HIDE DEF f, g
  <1>6. SumFunctionOnSet(g, Accounts) = SumFunctionOnSet(f, Accounts) + g[x] - f[x]
    BY <1>3, SumChange, TokenAssumption
  <1>7. SumFunctionOnSet(f, Accounts) \in Int
    BY <1>3, SumInt, TokenAssumption
  <1>. QED  BY <1>1, <1>4, <1>5, <1>6, <1>7

LEMMA PoolMovesByTwo ==
    ASSUME IInv, IInv', NEW x \in Accounts, NEW y \in Accounts, x # y,
           \A a \in Accounts \ {x, y} : Pooled(a)' = Pooled(a)
    PROVE  /\ PoolCredits' = PoolCredits + Pooled(x)' - Pooled(x) + Pooled(y)' - Pooled(y)
           /\ PoolCredits \in Int
  <1>1. \A a \in Accounts : Pooled(a) \in Nat /\ Pooled(a)' \in Nat
    BY DEF IInv, TypeOK, Pooled
  <1>2. \A a \in Accounts : PooledOf[a] = Pooled(a) /\ PooledOf'[a] = Pooled(a)'
    BY DEF PooledOf
  <1>. DEFINE f == PooledOf
              g == PooledOf'
  <1>3. /\ \A a \in Accounts : f[a] \in Int /\ g[a] \in Int
        /\ \A a \in Accounts \ {x, y} : g[a] = f[a]
    BY <1>1, <1>2
  <1>4. PoolCredits = SumFunctionOnSet(f, Accounts) /\ PoolCredits' = SumFunctionOnSet(g, Accounts)
    BY PoolIsPooled, NextPoolIsPooled
  <1>5. f[x] = Pooled(x) /\ g[x] = Pooled(x)' /\ f[y] = Pooled(y) /\ g[y] = Pooled(y)'
    BY <1>2
  <1>. HIDE DEF f, g
  <1>6. SumFunctionOnSet(g, Accounts)
           = SumFunctionOnSet(f, Accounts) + g[x] - f[x] + g[y] - f[y]
    BY <1>3, SumChangeTwo, TokenAssumption
  <1>7. SumFunctionOnSet(f, Accounts) \in Int
    BY <1>3, SumInt, TokenAssumption
  <1>. QED  BY <1>4, <1>5, <1>6, <1>7

(* An account that a call has just migrated, or that was outside, counts    *)
(* nothing in the pool; one that stays uses the global rate.                *)
LEMMA MigrationAndPool ==
    ASSUME IInv, NEW S \in SUBSET Accounts,
           nonRebasingCreditsPerToken' = FrozenRates(S), NEW a \in Accounts
    PROVE  /\ a \notin S => InPool(a)' = InPool(a)
           /\ a \in S => InPool(a)' = ~isNonRebasing(a)
           /\ isNonRebasing(a) => Pooled(a) = MigratedCredits(a)
           /\ ~isNonRebasing(a) => /\ InPool(a) /\ MigratedCredits(a) = 0
                                   /\ Pooled(a) = creditBalances[a]
                                   /\ creditsPerToken(a) = rebasingCreditsPerToken
  <1>1. /\ nonRebasingCreditsPerToken[a] \in Nat /\ creditBalances[a] \in Nat
        /\ rebasingCreditsPerToken \in Nat /\ rebasingCreditsPerToken > 0
    BY DEF IInv, TypeOK, RateMatchesChoice
  <1>2. nonRebasingCreditsPerToken'[a] = IF a \in S THEN FrozenRate(a)
                                         ELSE nonRebasingCreditsPerToken[a]
    BY DEF FrozenRates
  <1>3. CASE Migrates(a)
    <2>1. FrozenRate(a) = rebasingCreditsPerToken /\ InPool(a)
      BY <1>3 DEF FrozenRate, Migrates, InPool
    <2>. QED  BY <1>1, <1>2, <1>3, <2>1 DEF InPool, isNonRebasing, Pooled, MigratedCredits
  <1>4. CASE ~Migrates(a)
    <2>1. FrozenRate(a) = nonRebasingCreditsPerToken[a]
      BY <1>4 DEF FrozenRate
    <2>. QED
      BY <1>1, <1>2, <1>4, <2>1
      DEF InPool, isNonRebasing, Pooled, MigratedCredits, creditsPerToken
  <1>. QED  BY <1>3, <1>4

Covered == IInv /\ RebasingCreditsCoverHolders

LEMMA TransferCovered ==
    ASSUME Covered, IInv', NEW from \in Accounts, NEW to \in Accounts,
           NEW value \in Nat, executeTransfer(from, to, value)
    PROVE  RebasingCreditsCoverHolders'
  <1>. DEFINE credited == mulTruncateCeil(value, creditsPerToken(to))
              deducted == mulTruncateCeil(value, creditsPerToken(from))
              inside   == rebasingCredits - MigratedCredits(to)
                            - IF from = to THEN 0 ELSE MigratedCredits(from)
              debited  == [creditBalances EXCEPT ![from] = @ - deducted]
  <1>0. IInv /\ PoolCredits <= rebasingCredits /\ rebasingCredits \in Nat
    BY DEF Covered, RebasingCreditsCoverHolders, IInv, TypeOK
  <1>1. credited \in Nat /\ deducted \in Nat
    BY <1>0, ViewTypes, CeilNat
  <1>2. /\ MigratedCredits(to) \in Nat /\ MigratedCredits(from) \in Nat
        /\ creditBalances \in [Accounts -> Nat]
    BY <1>0, ViewTypes DEF IInv, TypeOK
  <1>3. /\ creditBalances' = [debited EXCEPT ![to] = @ + credited]
        /\ nonRebasingCreditsPerToken' = FrozenRates({from, to})
        /\ \/ /\ isNonRebasing(to) /\ ~isNonRebasing(from)
              /\ rebasingCredits' = inside - deducted
           \/ /\ ~isNonRebasing(to) /\ isNonRebasing(from)
              /\ rebasingCredits' = inside + credited
           \/ /\ isNonRebasing(to) = isNonRebasing(from)
              /\ rebasingCredits' = inside
    BY DEF executeTransfer
  <1>. HIDE DEF credited, deducted
  <1>4. ASSUME NEW a \in Accounts \ {from, to}  PROVE Pooled(a)' = Pooled(a)
    <2>1. InPool(a)' = InPool(a)
      BY <1>0, <1>3, MigrationAndPool
    <2>2. creditBalances'[a] = creditBalances[a]
      BY <1>2, <1>3
    <2>. QED  BY <2>1, <2>2 DEF Pooled
  <1>5. \A a \in {from, to} :
          /\ InPool(a)' = ~isNonRebasing(a)
          /\ isNonRebasing(a) => Pooled(a) = MigratedCredits(a) /\ Pooled(a)' = 0
          /\ ~isNonRebasing(a) => /\ MigratedCredits(a) = 0
                                  /\ Pooled(a) = creditBalances[a]
                                  /\ Pooled(a)' = creditBalances'[a]
                                  /\ creditsPerToken(a) = rebasingCreditsPerToken
    BY <1>0, <1>3, MigrationAndPool DEF Pooled
  <1>6. CASE from = to
    <2>1. credited = deducted
      BY <1>6 DEF credited, deducted
    <2>2. creditBalances'[to] = creditBalances[to]
      BY <1>1, <1>2, <1>3, <1>6, <2>1
    <2>3. Pooled(to)' = Pooled(to) - MigratedCredits(to)
      BY <1>2, <1>5, <2>2
    <2>4. rebasingCredits' = rebasingCredits - MigratedCredits(to)
      BY <1>0, <1>2, <1>3, <1>6
    <2>5. /\ PoolCredits' = PoolCredits + Pooled(to)' - Pooled(to)
          /\ PoolCredits \in Int /\ Pooled(to) \in Nat
      BY <1>0, <1>4, <1>6, PoolMovesByOne
    <2>. QED  BY <1>0, <1>2, <2>3, <2>4, <2>5 DEF RebasingCreditsCoverHolders
  <1>7. CASE from # to
    <2>1. /\ creditBalances'[to] = creditBalances[to] + credited
          /\ creditBalances'[from] = creditBalances[from] - deducted
          /\ creditBalances[to] \in Nat /\ creditBalances[from] \in Nat
      BY <1>1, <1>2, <1>3, <1>7
    <2>2. /\ PoolCredits' = PoolCredits + Pooled(from)' - Pooled(from)
                               + Pooled(to)' - Pooled(to)
          /\ PoolCredits \in Int
      BY <1>0, <1>4, <1>7, PoolMovesByTwo
    <2>3. inside = rebasingCredits - MigratedCredits(to) - MigratedCredits(from)
      BY <1>7
    <2>. HIDE DEF inside
    <2>4. CASE isNonRebasing(to) /\ ~isNonRebasing(from)
      <3>1. /\ Pooled(to) = MigratedCredits(to) /\ Pooled(to)' = 0
            /\ MigratedCredits(from) = 0 /\ Pooled(from) = creditBalances[from]
            /\ Pooled(from)' = creditBalances[from] - deducted
            /\ rebasingCredits' = inside - deducted
        BY <1>3, <1>5, <2>1, <2>4
      <3>. QED
        BY <1>0, <1>1, <1>2, <2>1, <2>2, <2>3, <3>1 DEF RebasingCreditsCoverHolders
    <2>5. CASE ~isNonRebasing(to) /\ isNonRebasing(from)
      <3>1. /\ Pooled(from) = MigratedCredits(from) /\ Pooled(from)' = 0
            /\ MigratedCredits(to) = 0 /\ Pooled(to) = creditBalances[to]
            /\ Pooled(to)' = creditBalances[to] + credited
            /\ rebasingCredits' = inside + credited
        BY <1>3, <1>5, <2>1, <2>5
      <3>. QED
        BY <1>0, <1>1, <1>2, <2>1, <2>2, <2>3, <3>1 DEF RebasingCreditsCoverHolders
    <2>6. CASE isNonRebasing(to) /\ isNonRebasing(from)
      BY <1>0, <1>1, <1>2, <1>3, <1>5, <2>1, <2>2, <2>3, <2>6
      DEF RebasingCreditsCoverHolders
    <2>7. CASE ~isNonRebasing(to) /\ ~isNonRebasing(from)
      <3>1. credited = deducted
        BY <1>5, <2>7 DEF credited, deducted
      <3>. QED
        BY <1>0, <1>1, <1>2, <1>3, <1>5, <2>1, <2>2, <2>3, <2>7, <3>1
        DEF RebasingCreditsCoverHolders
    <2>. QED  BY <2>4, <2>5, <2>6, <2>7
  <1>. QED  BY <1>6, <1>7

LEMMA MintCovered ==
    ASSUME Covered, IInv', NEW x \in Accounts, NEW n \in Nat, mintTo(x, n)
    PROVE  RebasingCreditsCoverHolders'
  <1>. DEFINE credit == mulTruncateCeil(n, creditsPerToken(x))
  <1>0. /\ IInv /\ PoolCredits <= rebasingCredits /\ rebasingCredits \in Nat
        /\ creditBalances \in [Accounts -> Nat]
    BY DEF Covered, RebasingCreditsCoverHolders, IInv, TypeOK
  <1>1. credit \in Nat /\ MigratedCredits(x) \in Nat
    BY <1>0, ViewTypes, CeilNat
  <1>2. /\ creditBalances' = [creditBalances EXCEPT ![x] = @ + credit]
        /\ nonRebasingCreditsPerToken' = FrozenRates({x})
        /\ \/ /\ isNonRebasing(x)
              /\ rebasingCredits' = rebasingCredits - MigratedCredits(x)
           \/ /\ ~isNonRebasing(x)
              /\ rebasingCredits' = rebasingCredits - MigratedCredits(x) + credit
    BY DEF mintTo
  <1>. HIDE DEF credit
  <1>3. \A a \in Accounts \ {x} : Pooled(a)' = Pooled(a)
    <2>. TAKE a \in Accounts \ {x}
    <2>1. InPool(a)' = InPool(a)
      BY <1>0, <1>2, MigrationAndPool
    <2>. QED  BY <1>0, <1>2, <2>1 DEF Pooled
  <1>4. /\ PoolCredits' = PoolCredits + Pooled(x)' - Pooled(x)
        /\ PoolCredits \in Int /\ Pooled(x) \in Nat /\ Pooled(x)' \in Nat
    BY <1>0, <1>3, PoolMovesByOne
  <1>5. CASE isNonRebasing(x)
    <2>1. Pooled(x) = MigratedCredits(x) /\ Pooled(x)' = 0
      BY <1>0, <1>2, <1>5, MigrationAndPool DEF Pooled
    <2>. QED  BY <1>0, <1>1, <1>2, <1>4, <1>5, <2>1 DEF RebasingCreditsCoverHolders
  <1>6. CASE ~isNonRebasing(x)
    <2>1. /\ MigratedCredits(x) = 0 /\ Pooled(x) = creditBalances[x]
          /\ Pooled(x)' = creditBalances'[x]
      BY <1>0, <1>2, <1>6, MigrationAndPool DEF Pooled
    <2>2. creditBalances'[x] = creditBalances[x] + credit /\ creditBalances[x] \in Nat
      BY <1>0, <1>2
    <2>. QED
      BY <1>0, <1>1, <1>2, <1>4, <1>6, <2>1, <2>2 DEF RebasingCreditsCoverHolders
  <1>. QED  BY <1>5, <1>6

(* Dust that a burn drops leaves the pool, but not the tally.               *)
LEMMA BurnCovered ==
    ASSUME Covered, IInv', NEW x \in Accounts, NEW n \in Nat, burnFrom(x, n)
    PROVE  RebasingCreditsCoverHolders'
  <1>. DEFINE credit == mulTruncateCeil(n, creditsPerToken(x))
              rest == Remainder(creditBalances[x], credit)
  <1>0. /\ IInv /\ PoolCredits <= rebasingCredits /\ rebasingCredits \in Nat
        /\ creditBalances \in [Accounts -> Nat]
    BY DEF Covered, RebasingCreditsCoverHolders, IInv, TypeOK
  <1>1. credit \in Nat /\ MigratedCredits(x) \in Nat
    BY <1>0, ViewTypes, CeilNat
  <1>2. /\ credit <= creditBalances[x]
        /\ creditBalances' = [creditBalances EXCEPT ![x] = rest]
        /\ nonRebasingCreditsPerToken' = FrozenRates({x})
        /\ \/ /\ isNonRebasing(x)
              /\ rebasingCredits' = rebasingCredits - MigratedCredits(x)
           \/ /\ ~isNonRebasing(x)
              /\ rebasingCredits' = rebasingCredits - MigratedCredits(x) - credit
    BY DEF burnFrom
  <1>. HIDE DEF credit
  <1>3. \A a \in Accounts \ {x} : Pooled(a)' = Pooled(a)
    <2>. TAKE a \in Accounts \ {x}
    <2>1. InPool(a)' = InPool(a)
      BY <1>0, <1>2, MigrationAndPool
    <2>. QED  BY <1>0, <1>2, <2>1 DEF Pooled
  <1>4. /\ PoolCredits' = PoolCredits + Pooled(x)' - Pooled(x)
        /\ PoolCredits \in Int /\ Pooled(x) \in Nat /\ Pooled(x)' \in Nat
    BY <1>0, <1>3, PoolMovesByOne
  <1>5. CASE isNonRebasing(x)
    <2>1. Pooled(x) = MigratedCredits(x) /\ Pooled(x)' = 0
      BY <1>0, <1>2, <1>5, MigrationAndPool DEF Pooled
    <2>. QED  BY <1>0, <1>1, <1>2, <1>4, <1>5, <2>1 DEF RebasingCreditsCoverHolders
  <1>6. CASE ~isNonRebasing(x)
    <2>1. /\ MigratedCredits(x) = 0 /\ Pooled(x) = creditBalances[x]
          /\ Pooled(x)' = creditBalances'[x]
      BY <1>0, <1>2, <1>6, MigrationAndPool DEF Pooled
    <2>2. /\ creditBalances[x] \in Nat /\ creditBalances'[x] = rest
          /\ rest <= creditBalances[x] - credit
      BY <1>0, <1>1, <1>2 DEF Remainder
    <2>. HIDE DEF rest
    <2>. QED
      BY <1>0, <1>1, <1>2, <1>4, <1>6, <2>1, <2>2 DEF RebasingCreditsCoverHolders
  <1>. QED  BY <1>5, <1>6

LEMMA ChoiceCovered ==
    ASSUME Covered, IInv', NEW x \in Accounts, RebaseOptIn(x) \/ RebaseOptOut(x)
    PROVE  RebasingCreditsCoverHolders'
  <1>0. /\ IInv /\ PoolCredits <= rebasingCredits /\ rebasingCredits \in Nat
        /\ creditBalances \in [Accounts -> Nat]
        /\ nonRebasingCreditsPerToken \in [Accounts -> Nat]
        /\ rebasingCreditsPerToken \in Nat /\ rebasingCreditsPerToken > 0
    BY DEF Covered, RebasingCreditsCoverHolders, IInv, TypeOK, RateMatchesChoice
  <1>1. \A a \in Accounts \ {x} : Pooled(a)' = Pooled(a)
    BY <1>0 DEF Pooled, InPool, RebaseOptIn, RebaseOptOut
  <1>2. /\ PoolCredits' = PoolCredits + Pooled(x)' - Pooled(x)
        /\ PoolCredits \in Int /\ Pooled(x) \in Nat /\ Pooled(x)' \in Nat
    BY <1>0, <1>1, PoolMovesByOne
  <1>3. CASE RebaseOptIn(x)
    <2>1. Pooled(x)' = Converted(x)
      BY <1>0, <1>3 DEF RebaseOptIn, Pooled, InPool
    <2>2. Pooled(x) = MigratedCredits(x)
      BY <1>0, <1>3 DEF RebaseOptIn, Pooled, InPool, isNonRebasing, FrozenRate,
                        MigratedCredits, Migrates
    <2>3. rebasingCredits' = rebasingCredits - MigratedCredits(x) + Converted(x)
      BY <1>3 DEF RebaseOptIn
    <2>. QED  BY <1>0, <1>2, <2>1, <2>2, <2>3 DEF RebasingCreditsCoverHolders
  <1>4. CASE RebaseOptOut(x)
    <2>1. Pooled(x)' = 0
      BY <1>0, <1>4 DEF RebaseOptOut, Pooled, InPool
    <2>2. Pooled(x) = creditBalances[x]
      BY <1>0, <1>4 DEF RebaseOptOut, Pooled, InPool, isNonRebasing, FrozenRate
    <2>3. rebasingCredits' = rebasingCredits - creditBalances[x]
      BY <1>4 DEF RebaseOptOut
    <2>. QED  BY <1>0, <1>2, <2>1, <2>2, <2>3 DEF RebasingCreditsCoverHolders
  <1>. QED  BY <1>3, <1>4

LEMMA OthersCovered ==
    ASSUME Covered,
           UNCHANGED <<creditBalances, nonRebasingCreditsPerToken, rebasingCredits>>
    PROVE  RebasingCreditsCoverHolders'
  BY DEF Covered, RebasingCreditsCoverHolders, PoolCredits, Pool, InPool

LEMMA NextCovered == Covered /\ [Next]_vars => Covered'
  <1>. SUFFICES ASSUME Covered, [Next]_vars, IInv'
                PROVE  RebasingCreditsCoverHolders'
    BY NextIInv DEF Covered
  <1>0. Amounts \subseteq Nat
    BY TokenAssumption
  <1>1. ASSUME NEW c, VaultStep(c) \/ GatewayStep(c)
        PROVE  RebasingCreditsCoverHolders'
    <2>1. \/ \E a \in Accounts, n \in Amounts : mintTo(a, n) \/ burnFrom(a, n)
          \/ UNCHANGED pool
      BY <1>1 DEF VaultStep, GatewayStep, Mint, Burn, BurnExclFromOutFlow, BridgeMint,
                  BridgeBurn, ChangeSupply
    <2>. QED  BY <1>0, <2>1, MintCovered, BurnCovered, OthersCovered DEF pool
  <1>2. ASSUME NEW a \in Accounts, HolderStep(a)
        PROVE  RebasingCreditsCoverHolders'
    <2>1. \/ \E b, d \in Accounts, n \in Amounts : executeTransfer(b, d, n)
          \/ UNCHANGED pool
      BY <1>2 DEF HolderStep, Transfer, TransferFrom, Approve, IncreaseAllowance,
                  DecreaseAllowance, SetAllowance
    <2>. QED  BY <1>0, <2>1, TransferCovered, OthersCovered DEF pool
  <1>3. CASE OwnerStep
    <2>1. (\E a \in Accounts : RebaseOptIn(a) \/ RebaseOptOut(a)) \/ UNCHANGED pool
      BY <1>3 DEF OwnerStep, ChangeVault, ChangeArbToken
    <2>. QED  BY <2>1, ChoiceCovered, OthersCovered DEF pool
  <1>4. CASE (\E a \in Accounts : Deploy(a)) \/ UNCHANGED vars
    BY <1>4, OthersCovered DEF Deploy, vars, pool
  <1>. QED  BY <1>1, <1>2, <1>3, <1>4 DEF Next

LEMMA InitCovered == Init => Covered
  <1>. SUFFICES ASSUME Init  PROVE RebasingCreditsCoverHolders
    BY InitIInv DEF Covered
  <1>1. IsFiniteSet(Pool)
    BY FS_Subset, TokenAssumption DEF Pool
  <1>2. \A a \in Pool : creditBalances[a] = 0
    BY DEF Init, Pool
  <1>3. PoolCredits = 0
    BY <1>1, <1>2, SumZero DEF PoolCredits
  <1>. QED  BY <1>3 DEF RebasingCreditsCoverHolders, Init

(* The tally covers the credits of all accounts in the pool, however many  *)
(* they are and however often they migrate, opt, burn dust or trade.       *)
THEOREM CreditsCovered == Spec => []RebasingCreditsCoverHolders
  <1>1. Covered => RebasingCreditsCoverHolders
    BY DEF Covered
  <1>. QED  BY <1>1, InitCovered, NextCovered, PTL DEF Spec

-----------------------------------------------------------------------------
(* Rebases.                                                                *)

(* The supply recomputed from the rounded rate is not less than what the   *)
(* rate was computed for.                                                  *)
LEMMA RateReaches ==
    ASSUME NEW c \in Nat, NEW s \in Nat, s > 0, divPrecisely(c, s) > 0
    PROVE  divPrecisely(c, divPrecisely(c, s)) >= s
  <1>. DEFINE r == divPrecisely(c, s)
              n == divPrecisely(c, r)
  <1>1. r \in Nat /\ r > 0 /\ r * s <= c * FULL_SCALE
    BY WorthFacts
  <1>2. n \in Nat /\ c * FULL_SCALE < n * r + r
    BY <1>1, WorthFacts
  <1>. HIDE DEF r, n
  <1>3. /\ r * s \in Nat /\ c * FULL_SCALE \in Nat /\ n * r \in Nat
        /\ n * r + r = (n + 1) * r /\ r * s = s * r
    BY <1>1, <1>2, MulNat, ScaleAssumption
  <1>4. s * r < (n + 1) * r
    BY <1>1, <1>2, <1>3
  <1>5. s < n + 1
    BY <1>1, <1>2, <1>4, CancelFactor
  <1>. QED  BY <1>2, <1>5 DEF n, r

(* Balances rounded down account by account are worth together no more     *)
(* than the pool's credits rounded down at once.                           *)
LEMMA PoolIsWorth ==
    ASSUME NEW S, IsFiniteSet(S), NEW b, NEW k, NEW c \in Nat, NEW r \in Nat, r > 0,
           \A a \in S : k[a] \in Nat /\ b[a] = divPrecisely(k[a], r),
           SumFunctionOnSet(k, S) <= c
    PROVE  SumFunctionOnSet(b, S) <= divPrecisely(c, r)
  <1>. DEFINE B == SumFunctionOnSet(b, S)
              K == SumFunctionOnSet(k, S)
              n == divPrecisely(c, r)
  <1>0. FULL_SCALE \in Nat
    BY ScaleAssumption
  <1>1. \A a \in S : k[a] \in Int /\ b[a] \in Int /\ b[a] * r <= k[a] * FULL_SCALE
    BY WorthFacts
  <1>2. B * r <= K * FULL_SCALE
    BY <1>0, <1>1, SumScaled
  <1>3. B \in Int /\ K \in Int
    BY <1>1, SumInt
  <1>4. n \in Nat /\ c * FULL_SCALE < n * r + r
    BY WorthFacts
  <1>5. K <= c
    OBVIOUS
  <1>. HIDE DEF B, K, n
  <1>6. K * FULL_SCALE <= c * FULL_SCALE
    BY <1>0, <1>3, <1>5, SMT
  <1>7. /\ B * r \in Int /\ K * FULL_SCALE \in Int /\ c * FULL_SCALE \in Int
        /\ n * r \in Int /\ n * r + r = (n + 1) * r
    BY <1>0, <1>3, <1>4
  <1>8. B * r < (n + 1) * r
    BY <1>2, <1>4, <1>6, <1>7
  <1>9. B < n + 1
    BY <1>3, <1>4, <1>8, CancelFactor
  <1>. QED  BY <1>3, <1>4, <1>9 DEF B, n

LEMMA RebaseStep ==
    ASSUME Covered, IInv', NEW c, NEW t \in Nat, ChangeSupply(c, t)
    PROVE  /\ \A a \in Accounts : ~InPool(a) => balanceOf(a)' = balanceOf(a)
           /\ totalSupply' >= t \/ totalSupply' >= MAX_SUPPLY
           /\ PoolBalance' <= totalSupply' - nonRebasingSupply'
  <1>. DEFINE capped == IF t > MAX_SUPPLY THEN MAX_SUPPLY ELSE t
              rate == RebasedRate(capped)
              n == divPrecisely(rebasingCredits, rate)
  <1>1. /\ nonRebasingSupply < capped /\ rate > 0
        /\ rebasingCreditsPerToken' = rate
        /\ totalSupply' = n + nonRebasingSupply
        /\ creditBalances' = creditBalances /\ rebasingCredits' = rebasingCredits
        /\ nonRebasingSupply' = nonRebasingSupply
        /\ nonRebasingCreditsPerToken' = nonRebasingCreditsPerToken
    BY DEF ChangeSupply, pool
  <1>2. /\ rebasingCredits \in Nat /\ nonRebasingSupply \in Nat
        /\ capped \in Nat /\ PoolCredits <= rebasingCredits /\ MAX_SUPPLY \in Nat
    BY TokenAssumption DEF Covered, IInv, TypeOK, RebasingCreditsCoverHolders
  <1>3. capped - nonRebasingSupply \in Nat /\ capped - nonRebasingSupply > 0
    BY <1>1, <1>2
  <1>4. rate = divPrecisely(rebasingCredits, capped - nonRebasingSupply)
    BY DEF RebasedRate
  <1>5. rate \in Nat
    BY <1>2, <1>3, <1>4, WorthFacts
  <1>6. n >= capped - nonRebasingSupply /\ n \in Nat
    BY <1>1, <1>2, <1>3, <1>4, <1>5, RateReaches, WorthFacts
  <1>7. capped >= t \/ capped >= MAX_SUPPLY
    BY <1>2
  <1>8. \A a \in Accounts : ~InPool(a) => balanceOf(a)' = balanceOf(a)
    BY <1>1 DEF InPool, balanceOf, creditsPerToken
  <1>. HIDE DEF capped, rate, n
  <1>9. totalSupply' >= t \/ totalSupply' >= MAX_SUPPLY
    BY <1>1, <1>2, <1>6, <1>7
  <1>10. PoolBalance' <= n
    <2>. DEFINE b == Balances'
    <2>1. Pool' = Pool /\ IsFiniteSet(Pool) /\ Pool \subseteq Accounts
      BY <1>1, FS_Subset, TokenAssumption DEF Pool, InPool
    <2>2. \A a \in Pool : creditBalances[a] \in Nat /\ b[a] = divPrecisely(creditBalances[a], rate)
      <3>. SUFFICES ASSUME NEW a \in Pool
                    PROVE  creditBalances[a] \in Nat /\ b[a] = divPrecisely(creditBalances[a], rate)
        OBVIOUS
      <3>1. balanceOf(a)' = divPrecisely(creditBalances'[a], creditsPerToken(a)')
        BY <2>1, NextBalanceIsWorth
      <3>2. creditsPerToken(a)' = rate
        BY <1>1 DEF creditsPerToken, Pool, InPool
      <3>3. b[a] = balanceOf(a)'
        BY <2>1 DEF Balances
      <3>4. creditBalances[a] \in Nat
        BY <2>1 DEF Covered, IInv, TypeOK
      <3>. QED  BY <1>1, <3>1, <3>2, <3>3, <3>4
    <2>3. SumFunctionOnSet(creditBalances, Pool) <= rebasingCredits
      BY <1>2 DEF PoolCredits
    <2>4. PoolBalance' = SumFunctionOnSet(b, Pool)
      BY <2>1 DEF PoolBalance
    <2>. HIDE DEF b
    <2>5. SumFunctionOnSet(b, Pool) <= divPrecisely(rebasingCredits, rate)
      BY <1>1, <1>2, <1>5, <2>1, <2>2, <2>3, PoolIsWorth
    <2>. QED  BY <2>4, <2>5 DEF n
  <1>11. totalSupply' - nonRebasingSupply' = n
    BY <1>1, <1>2, <1>6
  <1>. QED  BY <1>8, <1>9, <1>10, <1>11

(* A rebase leaves the pool solvent and everybody outside it untouched,    *)
(* for any number of holders and whatever rounding built up before.        *)
THEOREM RebasesSettle == Spec => RebaseSettles
  <1>1. Covered /\ [Next]_vars =>
          [\A c \in Callers, t \in RebaseTargets :
              ChangeSupply(c, t) =>
                 /\ \A a \in Accounts : ~InPool(a) => balanceOf(a)' = balanceOf(a)
                 /\ totalSupply' >= t \/ totalSupply' >= MAX_SUPPLY
                 /\ PoolBalance' <= totalSupply' - nonRebasingSupply']_vars
    <2>. SUFFICES ASSUME Covered, [Next]_vars, NEW c \in Callers, NEW t \in RebaseTargets,
                         ChangeSupply(c, t)
                  PROVE  /\ \A a \in Accounts : ~InPool(a) => balanceOf(a)' = balanceOf(a)
                         /\ totalSupply' >= t \/ totalSupply' >= MAX_SUPPLY
                         /\ PoolBalance' <= totalSupply' - nonRebasingSupply'
      OBVIOUS
    <2>1. IInv'
      BY NextCovered DEF Covered
    <2>2. t \in Nat
      BY TokenAssumption
    <2>. QED  BY <2>1, <2>2, RebaseStep
  <1>. QED  BY <1>1, InitCovered, NextCovered, PTL DEF Spec, RebaseSettles

-----------------------------------------------------------------------------
(* Losses.                                                                 *)

Loses(a) == balanceOf(a)' < balanceOf(a)

(* The amount 0 is worth no credits.                                        *)
LEMMA NothingIsFree == ASSUME NEW r \in Nat PROVE mulTruncateCeil(0, r) = 0
  <1>. DEFINE q == mulTruncateCeil(0, r)
  <1>1. q \in Nat /\ q * FULL_SCALE <= 0 * r + (FULL_SCALE - 1)
    BY CeilFacts
  <1>. HIDE DEF q
  <1>2. FULL_SCALE \in Nat /\ FULL_SCALE > 0 /\ 0 * r = 0
    BY ScaleAssumption
  <1>3. q * FULL_SCALE < 1 * FULL_SCALE
    BY <1>1, <1>2
  <1>4. q < 1
    BY <1>1, <1>2, <1>3, CancelFactor
  <1>. QED  BY <1>1, <1>4 DEF q

(* Only the sender of a positive amount loses in a transfer.                *)
LEMMA SendersLose ==
    ASSUME IInv, IInv', NEW from \in Accounts, NEW to \in Accounts, NEW value \in Nat,
           executeTransfer(from, to, value), NEW a \in Accounts, Loses(a)
    PROVE  /\ a = from /\ value > 0
           /\ balanceOf(a) - balanceOf(a)' <= value + Slack(creditsPerToken(a))
  <1>1. MovesValue(from, to, value)
    BY TransferStep
  <1>2. /\ balanceOf(a) \in Nat /\ balanceOf(a)' \in Nat
        /\ balanceOf(from) \in Nat /\ balanceOf(from)' \in Nat
    <2>. SUFFICES ASSUME NEW x \in Accounts  PROVE balanceOf(x) \in Nat /\ balanceOf(x)' \in Nat
      OBVIOUS
    <2>1. /\ creditBalances'[x] \in Nat /\ nonRebasingCreditsPerToken'[x] \in Nat
          /\ rebasingCreditsPerToken' \in Nat /\ rebasingCreditsPerToken' > 0
      BY DEF IInv, TypeOK, RateMatchesChoice
    <2>2. creditsPerToken(x)' \in Nat /\ creditsPerToken(x)' > 0
      BY <2>1 DEF creditsPerToken
    <2>3. divPrecisely(creditBalances'[x], creditsPerToken(x)') \in Nat
      BY <2>1, <2>2, WorthFacts
    <2>. QED  BY <2>3, ViewTypes, NextBalanceIsWorth
  <1>3. a = from /\ from # to
    BY <1>1, <1>2 DEF MovesValue, Loses
  <1>4. value # 0
    <2>1. SUFFICES ASSUME value = 0  PROVE FALSE
      OBVIOUS
    <2>2. /\ creditsPerToken(from) \in Nat /\ creditsPerToken(to) \in Nat
          /\ creditBalances \in [Accounts -> Nat]
      BY ViewTypes DEF IInv, TypeOK
    <2>3. creditBalances' = [[creditBalances EXCEPT ![from] = @ - 0] EXCEPT ![to] = @ + 0]
      BY <2>1, <2>2, NothingIsFree DEF executeTransfer
    <2>4. creditBalances'[from] = creditBalances[from]
      BY <1>3, <2>2, <2>3
    <2>5. creditsPerToken(from)' = creditsPerToken(from)
      BY MigrationKeepsUsedRates DEF executeTransfer
    <2>6. balanceOf(from)' = balanceOf(from)
      BY <2>4, <2>5, BalanceIsWorth, NextBalanceIsWorth
    <2>. QED  BY <1>2, <1>3, <2>6 DEF Loses
  <1>5. Slack(creditsPerToken(from)) \in Nat
    <2>1. /\ creditsPerToken(from) \in Nat /\ creditsPerToken(from) > 0
          /\ FULL_SCALE \in Nat
      BY ViewTypes, ScaleAssumption
    <2>. QED  BY <2>1, DivFacts DEF Slack
  <1>6. balanceOf(from)' >= balanceOf(from) - value - Slack(creditsPerToken(from))
    BY <1>1, <1>3 DEF MovesValue
  <1>. QED  BY <1>2, <1>3, <1>4, <1>5, <1>6

(* Whoever does not touch credits and rates leaves every balance.           *)
LEMMA BalancesKept ==
    ASSUME UNCHANGED <<creditBalances, nonRebasingCreditsPerToken, rebasingCreditsPerToken>>,
           NEW a \in Accounts
    PROVE  balanceOf(a)' = balanceOf(a)
  BY DEF balanceOf, creditsPerToken

-----------------------------------------------------------------------------
(* Balances and supply.                                                     *)

(* Crediting an amount adds at most a credit's worth and a unit besides.    *)
LEMMA CreditingGivesLittleMore ==
    ASSUME NEW c \in Nat, NEW r \in Nat, r > 0, NEW v \in Nat
    PROVE  divPrecisely(c + mulTruncateCeil(v, r), r)
              <= divPrecisely(c, r) + v + Slack(r)
  <1>. DEFINE q == mulTruncateCeil(v, r)
              p == divPrecisely(c, r)
              n == divPrecisely(c + q, r)
              k == FULL_SCALE \div r
  <1>0. FULL_SCALE \in Nat /\ FULL_SCALE > 0
    BY ScaleAssumption
  <1>1. q \in Nat /\ q * FULL_SCALE <= v * r + (FULL_SCALE - 1)
    BY CeilFacts
  <1>2. p \in Nat /\ c * FULL_SCALE < p * r + r
    BY WorthFacts
  <1>3. n \in Nat /\ n * r <= (c + q) * FULL_SCALE
    <2>1. c + q \in Nat
      BY <1>1
    <2>. HIDE DEF q
    <2>. QED  BY <2>1, WorthFacts
  <1>4. k \in Nat /\ FULL_SCALE < k * r + r
    BY <1>0, DivFacts
  <1>. HIDE DEF q, p, n, k
  <1>5. /\ v * r \in Nat /\ p * r \in Nat /\ c * FULL_SCALE \in Nat
        /\ q * FULL_SCALE \in Nat /\ n * r \in Nat /\ k * r \in Nat
    BY <1>0, <1>1, <1>2, <1>3, <1>4, MulNat
  <1>6. /\ (c + q) * FULL_SCALE = c * FULL_SCALE + q * FULL_SCALE
        /\ (p + v + k + 2) * r = p * r + v * r + k * r + r + r
    BY <1>0, <1>1, <1>2, <1>4, SMT
  <1>7. n * r < (p + v + k + 2) * r
    BY <1>0, <1>1, <1>2, <1>3, <1>4, <1>5, <1>6
  <1>8. n < p + v + k + 2
    BY <1>2, <1>3, <1>4, <1>7, CancelFactor
  <1>9. Slack(r) = k + 1
    BY DEF Slack, k
  <1>. QED  BY <1>2, <1>3, <1>4, <1>8, <1>9 DEF n, p, q

(* More credits are not worth less.                                         *)
LEMMA WorthMono ==
    ASSUME NEW c \in Nat, NEW d \in Nat, c <= d, NEW r \in Nat, r > 0
    PROVE  divPrecisely(c, r) <= divPrecisely(d, r)
  <1>. DEFINE p == divPrecisely(c, r)
              n == divPrecisely(d, r)
  <1>0. FULL_SCALE \in Nat
    BY ScaleAssumption
  <1>1. p \in Nat /\ p * r <= c * FULL_SCALE
    BY WorthFacts
  <1>2. n \in Nat /\ d * FULL_SCALE < n * r + r
    BY WorthFacts
  <1>. HIDE DEF p, n
  <1>3. c * FULL_SCALE <= d * FULL_SCALE
    BY <1>0, SMT
  <1>4. /\ p * r \in Int /\ n * r \in Int /\ n * r + r = (n + 1) * r
        /\ c * FULL_SCALE \in Int /\ d * FULL_SCALE \in Int
    BY <1>0, <1>1, <1>2
  <1>5. p * r < (n + 1) * r
    BY <1>1, <1>2, <1>3, <1>4
  <1>6. p < n + 1
    BY <1>1, <1>2, <1>5, CancelFactor
  <1>. QED  BY <1>1, <1>2, <1>6 DEF p, n

(* The balance of an account outside the pool.                              *)
Outside(a) == IF InPool(a) THEN 0 ELSE balanceOf(a)
OutsideOf == [a \in Accounts |-> Outside(a)]

LEMMA NextBalances ==
    ASSUME IInv', NEW a \in Accounts
    PROVE  balanceOf(a)' \in Nat /\ Outside(a)' \in Nat
  <1>1. /\ creditBalances'[a] \in Nat /\ nonRebasingCreditsPerToken'[a] \in Nat
        /\ rebasingCreditsPerToken' \in Nat /\ rebasingCreditsPerToken' > 0
    BY DEF IInv, TypeOK, RateMatchesChoice
  <1>2. creditsPerToken(a)' \in Nat /\ creditsPerToken(a)' > 0
    BY <1>1 DEF creditsPerToken
  <1>3. divPrecisely(creditBalances'[a], creditsPerToken(a)') \in Nat
    BY <1>1, <1>2, WorthFacts
  <1>4. balanceOf(a)' \in Nat
    BY <1>3, NextBalanceIsWorth
  <1>. QED  BY <1>4 DEF Outside

(* All that the sums of this section are made of.                           *)
LEMMA BalanceFacts ==
    ASSUME IInv, IInv', NEW a \in Accounts
    PROVE  /\ balanceOf(a) \in Nat /\ balanceOf(a)' \in Nat
           /\ Outside(a) \in Nat /\ Outside(a)' \in Nat
           /\ Balances[a] = balanceOf(a) /\ Balances'[a] = balanceOf(a)'
           /\ OutsideOf[a] = Outside(a) /\ OutsideOf'[a] = Outside(a)'
  <1>1. balanceOf(a) \in Nat
    BY ViewTypes
  <1>. QED  BY <1>1, NextBalances DEF Outside, Balances, OutsideOf

LEMMA OutsideIsSum ==
    ASSUME IInv
    PROVE  SumFunctionOnSet(Balances, Accounts \ Pool) = SumFunctionOnSet(OutsideOf, Accounts)
  <1>1. \A a \in Accounts : balanceOf(a) \in Int
    BY ViewTypes
  <1>2. \A a \in Accounts :
          /\ Balances[a] \in Int
          /\ OutsideOf[a] = IF a \in Accounts \ Pool THEN Balances[a] ELSE 0
    BY <1>1 DEF Balances, OutsideOf, Outside, Pool
  <1>. QED  BY <1>2, SumFiltered, TokenAssumption

LEMMA NextOutsideIsSum ==
    ASSUME IInv'
    PROVE  SumFunctionOnSet(Balances', Accounts \ Pool') = SumFunctionOnSet(OutsideOf', Accounts)
  <1>1. \A a \in Accounts : balanceOf(a)' \in Int
    BY NextBalances
  <1>2. \A a \in Accounts :
          /\ Balances'[a] \in Int
          /\ OutsideOf'[a] = IF a \in Accounts \ Pool' THEN Balances'[a] ELSE 0
    BY <1>1 DEF Balances, OutsideOf, Outside, Pool
  <1>. QED  BY <1>2, SumFiltered, TokenAssumption

(* The two sums move by what the accounts concerned move by.                *)
LEMMA SumsMoveByOne ==
    ASSUME IInv, IInv', NEW x \in Accounts,
           \A a \in Accounts \ {x} :
              balanceOf(a)' = balanceOf(a) /\ Outside(a)' = Outside(a)
    PROVE  /\ Excess \in Int /\ OutsideExcess \in Int
           /\ Excess' = Excess + balanceOf(x)' - balanceOf(x)
                           - totalSupply' + totalSupply
           /\ OutsideExcess' = OutsideExcess + Outside(x)' - Outside(x)
                           - nonRebasingSupply' + nonRebasingSupply
  <1>1. /\ \A a \in Accounts : Balances[a] \in Int /\ Balances'[a] \in Int
        /\ \A a \in Accounts \ {x} : Balances'[a] = Balances[a]
        /\ \A a \in Accounts : OutsideOf[a] \in Int /\ OutsideOf'[a] \in Int
        /\ \A a \in Accounts \ {x} : OutsideOf'[a] = OutsideOf[a]
    BY BalanceFacts
  <1>2. SumFunctionOnSet(Balances', Accounts)
           = SumFunctionOnSet(Balances, Accounts) + Balances'[x] - Balances[x]
    BY <1>1, SumChange, TokenAssumption
  <1>3. SumFunctionOnSet(OutsideOf', Accounts)
           = SumFunctionOnSet(OutsideOf, Accounts) + OutsideOf'[x] - OutsideOf[x]
    BY <1>1, SumChange, TokenAssumption
  <1>4. /\ SumFunctionOnSet(Balances, Accounts) \in Int
        /\ SumFunctionOnSet(OutsideOf, Accounts) \in Int
    BY <1>1, SumInt, TokenAssumption
  <1>5. /\ totalSupply \in Int /\ totalSupply' \in Int
        /\ nonRebasingSupply \in Int /\ nonRebasingSupply' \in Int
    BY DEF IInv, TypeOK
  <1>6. /\ Excess = SumFunctionOnSet(Balances, Accounts) - totalSupply
        /\ Excess' = SumFunctionOnSet(Balances', Accounts) - totalSupply'
        /\ OutsideExcess = SumFunctionOnSet(OutsideOf, Accounts) - nonRebasingSupply
        /\ OutsideExcess' = SumFunctionOnSet(OutsideOf', Accounts) - nonRebasingSupply'
    BY OutsideIsSum, NextOutsideIsSum DEF Excess, OutsideExcess
  <1>. QED  BY <1>2, <1>3, <1>4, <1>5, <1>6, BalanceFacts

LEMMA SumsMoveByTwo ==
    ASSUME IInv, IInv', NEW x \in Accounts, NEW y \in Accounts, x # y,
           \A a \in Accounts \ {x, y} :
              balanceOf(a)' = balanceOf(a) /\ Outside(a)' = Outside(a)
    PROVE  /\ Excess \in Int /\ OutsideExcess \in Int
           /\ Excess' = Excess + balanceOf(x)' - balanceOf(x)
                           + balanceOf(y)' - balanceOf(y) - totalSupply' + totalSupply
           /\ OutsideExcess' = OutsideExcess + Outside(x)' - Outside(x)
                           + Outside(y)' - Outside(y)
                           - nonRebasingSupply' + nonRebasingSupply
  <1>1. /\ \A a \in Accounts : Balances[a] \in Int /\ Balances'[a] \in Int
        /\ \A a \in Accounts \ {x, y} : Balances'[a] = Balances[a]
        /\ \A a \in Accounts : OutsideOf[a] \in Int /\ OutsideOf'[a] \in Int
        /\ \A a \in Accounts \ {x, y} : OutsideOf'[a] = OutsideOf[a]
    BY BalanceFacts
  <1>2. SumFunctionOnSet(Balances', Accounts)
           = SumFunctionOnSet(Balances, Accounts) + Balances'[x] - Balances[x]
                + Balances'[y] - Balances[y]
    <2>. DEFINE f == Balances
                g == Balances'
    <2>1. /\ \A a \in Accounts : f[a] \in Int /\ g[a] \in Int
          /\ \A a \in Accounts \ {x, y} : g[a] = f[a]
      BY <1>1
    <2>. HIDE DEF f, g
    <2>2. SumFunctionOnSet(g, Accounts)
             = SumFunctionOnSet(f, Accounts) + g[x] - f[x] + g[y] - f[y]
      BY <2>1, SumChangeTwo, TokenAssumption
    <2>. QED  BY <2>2 DEF f, g
  <1>3. SumFunctionOnSet(OutsideOf', Accounts)
           = SumFunctionOnSet(OutsideOf, Accounts) + OutsideOf'[x] - OutsideOf[x]
                + OutsideOf'[y] - OutsideOf[y]
    <2>. DEFINE f == OutsideOf
                g == OutsideOf'
    <2>1. /\ \A a \in Accounts : f[a] \in Int /\ g[a] \in Int
          /\ \A a \in Accounts \ {x, y} : g[a] = f[a]
      BY <1>1
    <2>. HIDE DEF f, g
    <2>2. SumFunctionOnSet(g, Accounts)
             = SumFunctionOnSet(f, Accounts) + g[x] - f[x] + g[y] - f[y]
      BY <2>1, SumChangeTwo, TokenAssumption
    <2>. QED  BY <2>2 DEF f, g
  <1>4. /\ SumFunctionOnSet(Balances, Accounts) \in Int
        /\ SumFunctionOnSet(OutsideOf, Accounts) \in Int
    BY <1>1, SumInt, TokenAssumption
  <1>5. /\ totalSupply \in Int /\ totalSupply' \in Int
        /\ nonRebasingSupply \in Int /\ nonRebasingSupply' \in Int
    BY DEF IInv, TypeOK
  <1>6. /\ Excess = SumFunctionOnSet(Balances, Accounts) - totalSupply
        /\ Excess' = SumFunctionOnSet(Balances', Accounts) - totalSupply'
        /\ OutsideExcess = SumFunctionOnSet(OutsideOf, Accounts) - nonRebasingSupply
        /\ OutsideExcess' = SumFunctionOnSet(OutsideOf', Accounts) - nonRebasingSupply'
    BY OutsideIsSum, NextOutsideIsSum DEF Excess, OutsideExcess
  <1>. QED  BY <1>2, <1>3, <1>4, <1>5, <1>6, BalanceFacts

(* What an account that a call touches counts for outside the pool, before  *)
(* its migration (which adds the rest to the tally) and after the call.     *)
LEMMA MigrationAndOutside ==
    ASSUME IInv, NEW S \in SUBSET Accounts,
           nonRebasingCreditsPerToken' = FrozenRates(S), NEW a \in Accounts
    PROVE  /\ a \notin S => InPool(a)' = InPool(a)
           /\ a \in S /\ isNonRebasing(a) =>
                 /\ Outside(a) + MigratedSupply(a) = balanceOf(a)
                 /\ Outside(a)' = balanceOf(a)'
           /\ a \in S /\ ~isNonRebasing(a) =>
                 Outside(a) = 0 /\ MigratedSupply(a) = 0 /\ Outside(a)' = 0
  <1>1. /\ nonRebasingCreditsPerToken[a] \in Nat /\ balanceOf(a) \in Nat
        /\ rebasingCreditsPerToken \in Nat /\ rebasingCreditsPerToken > 0
    BY ViewTypes DEF IInv, TypeOK, RateMatchesChoice
  <1>2. /\ a \notin S => InPool(a)' = InPool(a)
        /\ a \in S => InPool(a)' = ~isNonRebasing(a)
    BY MigrationAndPool
  <1>3. CASE Migrates(a)
    BY <1>1, <1>2, <1>3
    DEF Outside, InPool, isNonRebasing, FrozenRate, Migrates, MigratedSupply
  <1>4. CASE ~Migrates(a)
    BY <1>1, <1>2, <1>4 DEF Outside, InPool, isNonRebasing, FrozenRate, MigratedSupply
  <1>. QED  BY <1>3, <1>4

LEMMA ReceiversGainLittle ==
    ASSUME IInv, IInv', NEW from \in Accounts, NEW to \in Accounts, from # to,
           NEW v \in Nat, executeTransfer(from, to, v)
    PROVE  /\ creditBalances'[to] = creditBalances[to]
                                      + mulTruncateCeil(v, creditsPerToken(to))
           /\ creditBalances[to] \in Nat
           /\ balanceOf(to)' <= balanceOf(to) + v + Slack(creditsPerToken(to))
  <1>. DEFINE rt == creditsPerToken(to)
              qt == mulTruncateCeil(v, rt)
              qf == mulTruncateCeil(v, creditsPerToken(from))
  <1>1. /\ creditBalances' = [[creditBalances EXCEPT ![from] = @ - qf] EXCEPT ![to] = @ + qt]
        /\ nonRebasingCreditsPerToken' = FrozenRates({from, to})
        /\ rebasingCreditsPerToken' = rebasingCreditsPerToken
    BY DEF executeTransfer
  <1>2. creditBalances \in [Accounts -> Nat] /\ rt \in Nat /\ rt > 0
    BY ViewTypes DEF IInv, TypeOK
  <1>3. creditsPerToken(to)' = rt
    BY <1>1, MigrationKeepsUsedRates
  <1>. HIDE DEF qf, qt, rt
  <1>4. creditBalances'[to] = creditBalances[to] + qt /\ creditBalances[to] \in Nat
    BY <1>1, <1>2
  <1>5. divPrecisely(creditBalances[to] + qt, rt)
             <= divPrecisely(creditBalances[to], rt) + v + Slack(rt)
    BY <1>2, <1>4, CreditingGivesLittleMore DEF qt
  <1>6. /\ balanceOf(to) = divPrecisely(creditBalances[to], rt)
        /\ balanceOf(to)' = divPrecisely(creditBalances[to] + qt, rt)
    BY <1>3, <1>4, BalanceIsWorth, NextBalanceIsWorth DEF rt
  <1>. QED  BY <1>4, <1>5, <1>6 DEF qt, rt

(* What a step other than a rebase may add to the two sums.                 *)
RoundsUp ==
    \/ OutsideExcess' <= OutsideExcess /\ Excess' <= Excess
    \/ \E a \in Accounts :
          /\ Gains(a) /\ \A b \in Accounts \ {a} : ~Gains(b)
          /\ OutsideExcess' <= OutsideExcess + Slack(creditsPerToken(a))
          /\ Excess' <= Excess + Slack(creditsPerToken(a))

LEMMA TransferRounds ==
    ASSUME IInv, IInv', NEW from \in Accounts, NEW to \in Accounts, NEW v \in Nat,
           executeTransfer(from, to, v)
    PROVE  RoundsUp
  <1>. DEFINE rt == creditsPerToken(to)
              qf == mulTruncateCeil(v, creditsPerToken(from))
              qt == mulTruncateCeil(v, rt)
              debited == [creditBalances EXCEPT ![from] = @ - qf]
              M(a) == MigratedSupply(a)
              outside == nonRebasingSupply + MigratedSupply(to)
                            + IF from = to THEN 0 ELSE MigratedSupply(from)
  <1>1. /\ creditBalances' = [debited EXCEPT ![to] = @ + qt]
        /\ nonRebasingCreditsPerToken' = FrozenRates({from, to})
        /\ rebasingCreditsPerToken' = rebasingCreditsPerToken
        /\ totalSupply' = totalSupply
        /\ \/ /\ isNonRebasing(to) /\ ~isNonRebasing(from)
              /\ nonRebasingSupply' = outside + v
           \/ /\ ~isNonRebasing(to) /\ isNonRebasing(from)
              /\ nonRebasingSupply' = outside - v
           \/ /\ isNonRebasing(to) = isNonRebasing(from)
              /\ nonRebasingSupply' = outside
    BY DEF executeTransfer
  <1>2. MovesValue(from, to, v)
    BY TransferStep
  <1>3. \A a \in Accounts :
           /\ balanceOf(a) \in Nat /\ balanceOf(a)' \in Nat
           /\ Outside(a) \in Nat /\ Outside(a)' \in Nat /\ M(a) \in Nat
    BY BalanceFacts, ViewTypes
  <1>4. \A a \in Accounts \ {from, to} :
           balanceOf(a)' = balanceOf(a) /\ Outside(a)' = Outside(a)
    <2>. SUFFICES ASSUME NEW a \in Accounts \ {from, to}
                  PROVE  balanceOf(a)' = balanceOf(a) /\ Outside(a)' = Outside(a)
      OBVIOUS
    <2>1. InPool(a)' = InPool(a)
      BY <1>1, MigrationAndOutside
    <2>2. balanceOf(a)' = balanceOf(a)
      BY <1>2 DEF MovesValue
    <2>. QED  BY <2>1, <2>2 DEF Outside
  <1>5. \A a \in {from, to} :
           /\ isNonRebasing(a) => /\ Outside(a) + M(a) = balanceOf(a)
                                  /\ Outside(a)' = balanceOf(a)'
           /\ ~isNonRebasing(a) => Outside(a) = 0 /\ M(a) = 0 /\ Outside(a)' = 0
    BY <1>1, MigrationAndOutside
  <1>6. totalSupply \in Nat /\ nonRebasingSupply \in Nat /\ nonRebasingSupply' \in Nat
    BY DEF IInv, TypeOK
  <1>7. /\ creditBalances \in [Accounts -> Nat] /\ rt \in Nat /\ rt > 0
        /\ qf \in Nat /\ qt \in Nat
    BY ViewTypes, CeilNat DEF IInv, TypeOK
  <1>8. creditsPerToken(to)' = rt
    BY <1>1, MigrationKeepsUsedRates
  <1>9. CASE from = to
    <2>1. balanceOf(to)' = balanceOf(to)
      BY <1>2, <1>9 DEF MovesValue
    <2>2. /\ Excess \in Int /\ OutsideExcess \in Int
          /\ Excess' = Excess + balanceOf(to)' - balanceOf(to) - totalSupply' + totalSupply
          /\ OutsideExcess' = OutsideExcess + Outside(to)' - Outside(to)
                                  - nonRebasingSupply' + nonRebasingSupply
      BY <1>4, <1>9, SumsMoveByOne
    <2>3. nonRebasingSupply' = nonRebasingSupply + M(to)
      <3>1. outside = nonRebasingSupply + M(to)
        BY <1>3, <1>6, <1>9
      <3>. HIDE DEF outside
      <3>. QED  BY <1>1, <1>9, <3>1
    <2>4. Outside(to)' = Outside(to) + M(to)
      BY <1>3, <1>5, <2>1
    <2>. HIDE DEF M
    <2>. QED  BY <1>1, <1>3, <1>6, <2>1, <2>2, <2>3, <2>4 DEF RoundsUp
  <1>10. CASE from # to
    <2>1. creditBalances'[to] = creditBalances[to] + qt /\ creditBalances[to] \in Nat
      BY <1>10, ReceiversGainLittle
    <2>2. balanceOf(to)' <= balanceOf(to) + v + Slack(rt)
      BY <1>10, ReceiversGainLittle
    <2>3. balanceOf(to)' >= balanceOf(to) + v /\ balanceOf(from)' <= balanceOf(from) - v
      BY <1>2, <1>10 DEF MovesValue
    <2>4. Slack(rt) \in Nat
      BY <1>7, ScaleAssumption, DivFacts DEF Slack
    <2>5. /\ Excess \in Int /\ OutsideExcess \in Int
          /\ Excess' = Excess + balanceOf(to)' - balanceOf(to)
                           + balanceOf(from)' - balanceOf(from) - totalSupply' + totalSupply
          /\ OutsideExcess' = OutsideExcess + Outside(to)' - Outside(to)
                           + Outside(from)' - Outside(from)
                           - nonRebasingSupply' + nonRebasingSupply
      BY <1>4, <1>10, SumsMoveByTwo
    <2>6. outside = nonRebasingSupply + M(to) + M(from)
      BY <1>10
    <2>. HIDE DEF M, qf, qt, rt, outside
    <2>7. /\ Excess' - Excess <= balanceOf(to)' - balanceOf(to) - v
          /\ OutsideExcess' - OutsideExcess <= balanceOf(to)' - balanceOf(to) - v
      <3>1. Excess' - Excess <= balanceOf(to)' - balanceOf(to) - v
        BY <1>1, <1>3, <1>6, <2>3, <2>5
      <3>2. CASE isNonRebasing(to) /\ isNonRebasing(from)
        <4>1. nonRebasingSupply' = nonRebasingSupply + M(to) + M(from)
          BY <1>1, <2>6, <3>2
        <4>2. /\ Outside(to) + M(to) = balanceOf(to) /\ Outside(to)' = balanceOf(to)'
              /\ Outside(from) + M(from) = balanceOf(from)
              /\ Outside(from)' = balanceOf(from)'
          BY <1>5, <3>2
        <4>. QED  BY <1>3, <1>6, <2>3, <2>5, <3>1, <4>1, <4>2
      <3>3. CASE isNonRebasing(to) /\ ~isNonRebasing(from)
        <4>1. nonRebasingSupply' = nonRebasingSupply + M(to) + M(from) + v
          BY <1>1, <2>6, <3>3
        <4>2. /\ Outside(to) + M(to) = balanceOf(to) /\ Outside(to)' = balanceOf(to)'
              /\ Outside(from) = 0 /\ M(from) = 0 /\ Outside(from)' = 0
          BY <1>5, <3>3
        <4>. QED  BY <1>3, <1>6, <2>3, <2>5, <3>1, <4>1, <4>2
      <3>4. CASE ~isNonRebasing(to) /\ isNonRebasing(from)
        <4>1. nonRebasingSupply' = nonRebasingSupply + M(to) + M(from) - v
          <5>1. nonRebasingSupply' = outside - v
            BY <1>1, <3>4
          <5>. QED  BY <1>3, <1>6, <2>6, <5>1
        <4>2. /\ Outside(from) + M(from) = balanceOf(from)
              /\ Outside(from)' = balanceOf(from)'
              /\ Outside(to) = 0 /\ M(to) = 0 /\ Outside(to)' = 0
          BY <1>5, <3>4
        <4>. QED  BY <1>3, <1>6, <2>3, <2>5, <3>1, <4>1, <4>2
      <3>5. CASE ~isNonRebasing(to) /\ ~isNonRebasing(from)
        <4>1. nonRebasingSupply' = nonRebasingSupply + M(to) + M(from)
          BY <1>1, <2>6, <3>5
        <4>2. /\ Outside(to) = 0 /\ M(to) = 0 /\ Outside(to)' = 0
              /\ Outside(from) = 0 /\ M(from) = 0 /\ Outside(from)' = 0
          BY <1>5, <3>5
        <4>. QED  BY <1>3, <1>6, <2>3, <2>5, <3>1, <4>1, <4>2
      <3>. QED  BY <3>2, <3>3, <3>4, <3>5
    <2>8. CASE v > 0
      <3>1. Gains(to) /\ \A b \in Accounts \ {to} : ~Gains(b)
        BY <1>3, <1>4, <2>3, <2>8 DEF Gains
      <3>2. /\ OutsideExcess' <= OutsideExcess + Slack(rt)
            /\ Excess' <= Excess + Slack(rt)
        <4>1. Excess' \in Int /\ OutsideExcess' \in Int
          BY <1>3, <1>6, <2>5, <1>1
        <4>. QED  BY <1>3, <2>2, <2>4, <2>5, <2>7, <4>1
      <3>. QED  BY <3>1, <3>2 DEF RoundsUp, rt
    <2>9. CASE v = 0
      <3>1. qt = 0
        BY <1>7, <2>9, NothingIsFree DEF qt
      <3>2. balanceOf(to)' = balanceOf(to)
        <4>1. creditBalances'[to] = creditBalances[to]
          BY <2>1, <3>1
        <4>. QED  BY <1>8, <4>1, BalanceIsWorth, NextBalanceIsWorth DEF rt
      <3>3. Excess' \in Int /\ OutsideExcess' \in Int
        BY <1>1, <1>3, <1>6, <2>5
      <3>4. Excess' <= Excess /\ OutsideExcess' <= OutsideExcess
        BY <1>3, <2>5, <2>7, <2>9, <3>2, <3>3
      <3>. QED  BY <3>4 DEF RoundsUp
    <2>. QED  BY <2>8, <2>9
  <1>. QED  BY <1>9, <1>10

LEMMA MintRounds ==
    ASSUME IInv, IInv', NEW x \in Accounts, NEW n \in Nat, mintTo(x, n)
    PROVE  RoundsUp
  <1>. DEFINE r == creditsPerToken(x)
              credit == mulTruncateCeil(n, r)
  <1>1. /\ creditBalances' = [creditBalances EXCEPT ![x] = @ + credit]
        /\ nonRebasingCreditsPerToken' = FrozenRates({x})
        /\ rebasingCreditsPerToken' = rebasingCreditsPerToken
        /\ totalSupply' = totalSupply + n
        /\ \/ /\ isNonRebasing(x)
              /\ nonRebasingSupply' = nonRebasingSupply + MigratedSupply(x) + n
           \/ /\ ~isNonRebasing(x)
              /\ nonRebasingSupply' = nonRebasingSupply
    BY DEF mintTo
  <1>2. /\ creditBalances \in [Accounts -> Nat] /\ r \in Nat /\ r > 0
        /\ totalSupply \in Nat /\ nonRebasingSupply \in Nat
        /\ credit \in Nat /\ MigratedSupply(x) \in Nat
    BY ViewTypes, CeilNat DEF IInv, TypeOK
  <1>3. \A a \in Accounts : creditsPerToken(a)' = creditsPerToken(a)
    BY <1>1, MigrationKeepsUsedRates
  <1>4. \A a \in Accounts :
           /\ balanceOf(a) \in Nat /\ balanceOf(a)' \in Nat
           /\ Outside(a) \in Nat /\ Outside(a)' \in Nat
    BY BalanceFacts
  <1>. HIDE DEF credit
  <1>5. \A a \in Accounts \ {x} :
           balanceOf(a)' = balanceOf(a) /\ Outside(a)' = Outside(a)
    <2>. SUFFICES ASSUME NEW a \in Accounts \ {x}
                  PROVE  balanceOf(a)' = balanceOf(a) /\ Outside(a)' = Outside(a)
      OBVIOUS
    <2>1. InPool(a)' = InPool(a)
      BY <1>1, MigrationAndOutside
    <2>2. creditBalances'[a] = creditBalances[a]
      BY <1>1, <1>2
    <2>3. balanceOf(a)' = balanceOf(a)
      BY <1>3, <2>2, BalanceIsWorth, NextBalanceIsWorth
    <2>. QED  BY <2>1, <2>3 DEF Outside
  <1>6. /\ Excess \in Int /\ OutsideExcess \in Int
        /\ Excess' = Excess + balanceOf(x)' - balanceOf(x) - totalSupply' + totalSupply
        /\ OutsideExcess' = OutsideExcess + Outside(x)' - Outside(x)
                                - nonRebasingSupply' + nonRebasingSupply
    BY <1>5, SumsMoveByOne
  <1>7. creditBalances'[x] = creditBalances[x] + credit /\ creditBalances[x] \in Nat
    BY <1>1, <1>2
  <1>8. /\ balanceOf(x) = divPrecisely(creditBalances[x], r)
        /\ balanceOf(x)' = divPrecisely(creditBalances[x] + credit, r)
    BY <1>3, <1>7, BalanceIsWorth, NextBalanceIsWorth
  <1>9. /\ balanceOf(x)' <= balanceOf(x) + n + Slack(r)
        /\ balanceOf(x)' >= balanceOf(x) + n
    BY <1>2, <1>7, <1>8, CreditingGives, CreditingGivesLittleMore DEF credit
  <1>10. OutsideExcess' <= OutsideExcess + (balanceOf(x)' - balanceOf(x) - n)
    <2>1. CASE isNonRebasing(x)
      <3>1. Outside(x) + MigratedSupply(x) = balanceOf(x) /\ Outside(x)' = balanceOf(x)'
        BY <1>1, <2>1, MigrationAndOutside
      <3>2. nonRebasingSupply' = nonRebasingSupply + MigratedSupply(x) + n
        BY <1>1, <2>1
      <3>. QED  BY <1>2, <1>4, <1>6, <3>1, <3>2
    <2>2. CASE ~isNonRebasing(x)
      <3>1. Outside(x) = 0 /\ Outside(x)' = 0
        BY <1>1, <2>2, MigrationAndOutside
      <3>2. nonRebasingSupply' = nonRebasingSupply
        BY <1>1, <2>2
      <3>. QED  BY <1>2, <1>4, <1>6, <1>9, <3>1, <3>2
    <2>. QED  BY <2>1, <2>2
  <1>11. /\ Excess' = Excess + (balanceOf(x)' - balanceOf(x) - n)
         /\ Excess' \in Int /\ OutsideExcess' \in Int
    <2>1. nonRebasingSupply' \in Int
      BY DEF IInv, TypeOK
    <2>. QED  BY <1>1, <1>2, <1>4, <1>6, <2>1
  <1>12. CASE n = 0
    <2>1. credit = 0
      BY <1>2, <1>12, NothingIsFree DEF credit
    <2>2. balanceOf(x)' = balanceOf(x)
      BY <1>7, <1>8, <2>1
    <2>. QED  BY <1>4, <1>6, <1>10, <1>11, <1>12, <2>2 DEF RoundsUp
  <1>13. CASE n > 0
    <2>1. Gains(x) /\ \A b \in Accounts \ {x} : ~Gains(b)
      BY <1>4, <1>5, <1>9, <1>13 DEF Gains
    <2>2. Slack(r) \in Nat
      BY <1>2, ScaleAssumption, DivFacts DEF Slack
    <2>3. /\ OutsideExcess' <= OutsideExcess + Slack(r)
          /\ Excess' <= Excess + Slack(r)
      BY <1>4, <1>6, <1>9, <1>10, <1>11, <2>2
    <2>. QED  BY <2>1, <2>3 DEF RoundsUp
  <1>. QED  BY <1>12, <1>13

(* A burn takes at least its amount, dust besides.                          *)
LEMMA BurnRounds ==
    ASSUME IInv, IInv', NEW x \in Accounts, NEW n \in Nat, burnFrom(x, n)
    PROVE  RoundsUp
  <1>. DEFINE r == creditsPerToken(x)
              credit == mulTruncateCeil(n, r)
              rest == Remainder(creditBalances[x], credit)
  <1>1. /\ credit <= creditBalances[x]
        /\ creditBalances' = [creditBalances EXCEPT ![x] = rest]
        /\ nonRebasingCreditsPerToken' = FrozenRates({x})
        /\ rebasingCreditsPerToken' = rebasingCreditsPerToken
        /\ totalSupply' = totalSupply - n
        /\ \/ /\ isNonRebasing(x)
              /\ nonRebasingSupply' = nonRebasingSupply + MigratedSupply(x) - n
           \/ /\ ~isNonRebasing(x)
              /\ nonRebasingSupply' = nonRebasingSupply
    <2>. HIDE DEF credit, rest
    <2>1. /\ credit <= creditBalances[x]
          /\ creditBalances' = [creditBalances EXCEPT ![x] = rest]
      BY DEF burnFrom, credit, rest
    <2>2. /\ nonRebasingCreditsPerToken' = FrozenRates({x})
          /\ rebasingCreditsPerToken' = rebasingCreditsPerToken
          /\ totalSupply' = totalSupply - n
      BY DEF burnFrom
    <2>3. \/ /\ isNonRebasing(x)
             /\ nonRebasingSupply' = nonRebasingSupply + MigratedSupply(x) - n
          \/ /\ ~isNonRebasing(x)
             /\ nonRebasingSupply' = nonRebasingSupply
      <3>1. MigratedSupply(x) \in Nat /\ nonRebasingSupply \in Nat
        BY ViewTypes DEF IInv, TypeOK
      <3>. QED  BY <3>1 DEF burnFrom
    <2>. QED  BY <2>1, <2>2, <2>3
  <1>2. /\ creditBalances \in [Accounts -> Nat] /\ r \in Nat /\ r > 0
        /\ totalSupply \in Nat /\ nonRebasingSupply \in Nat
        /\ nonRebasingSupply' \in Int
        /\ credit \in Nat /\ MigratedSupply(x) \in Nat
    <2>1. /\ r \in Nat /\ r > 0 /\ MigratedSupply(x) \in Nat
      BY ViewTypes DEF IInv
    <2>2. credit \in Nat
      BY <2>1, CeilNat
    <2>. HIDE DEF credit, r
    <2>. QED  BY <2>1, <2>2 DEF IInv, TypeOK
  <1>3. \A a \in Accounts : creditsPerToken(a)' = creditsPerToken(a)
    BY <1>1, MigrationKeepsUsedRates
  <1>4. \A a \in Accounts :
           /\ balanceOf(a) \in Nat /\ balanceOf(a)' \in Nat
           /\ Outside(a) \in Nat /\ Outside(a)' \in Nat
    BY BalanceFacts
  <1>. HIDE DEF credit
  <1>5. \A a \in Accounts \ {x} :
           balanceOf(a)' = balanceOf(a) /\ Outside(a)' = Outside(a)
    <2>. SUFFICES ASSUME NEW a \in Accounts \ {x}
                  PROVE  balanceOf(a)' = balanceOf(a) /\ Outside(a)' = Outside(a)
      OBVIOUS
    <2>1. InPool(a)' = InPool(a)
      BY <1>1, MigrationAndOutside
    <2>2. creditBalances'[a] = creditBalances[a]
      BY <1>1, <1>2
    <2>3. balanceOf(a)' = balanceOf(a)
      BY <1>3, <2>2, BalanceIsWorth, NextBalanceIsWorth
    <2>. QED  BY <2>1, <2>3 DEF Outside
  <1>6. /\ Excess \in Int /\ OutsideExcess \in Int
        /\ Excess' = Excess + balanceOf(x)' - balanceOf(x) - totalSupply' + totalSupply
        /\ OutsideExcess' = OutsideExcess + Outside(x)' - Outside(x)
                                - nonRebasingSupply' + nonRebasingSupply
    BY <1>5, SumsMoveByOne
  <1>7. /\ creditBalances[x] \in Nat /\ creditBalances'[x] = rest /\ rest \in Nat
        /\ rest <= creditBalances[x] - credit
    BY <1>1, <1>2 DEF Remainder
  <1>. HIDE DEF rest
  <1>8. balanceOf(x)' <= balanceOf(x) - n
    <2>1. /\ balanceOf(x) = divPrecisely(creditBalances[x], r)
          /\ balanceOf(x)' = divPrecisely(rest, r)
      BY <1>3, <1>7, BalanceIsWorth, NextBalanceIsWorth
    <2>2. divPrecisely(creditBalances[x] - credit, r) <= balanceOf(x) - n
      BY <1>1, <1>2, <1>7, <2>1, DebitingTakes DEF credit
    <2>3. divPrecisely(rest, r) <= divPrecisely(creditBalances[x] - credit, r)
      BY <1>1, <1>2, <1>7, WorthMono
    <2>4. /\ divPrecisely(rest, r) \in Int
          /\ divPrecisely(creditBalances[x] - credit, r) \in Int
      <3>1. creditBalances[x] - credit \in Nat
        BY <1>1, <1>2, <1>7
      <3>. QED  BY <1>2, <1>7, <3>1, WorthFacts
    <2>. QED  BY <1>4, <2>1, <2>2, <2>3, <2>4
  <1>9. Excess' <= Excess
    BY <1>1, <1>2, <1>4, <1>6, <1>8
  <1>10. OutsideExcess' <= OutsideExcess
    <2>1. CASE isNonRebasing(x)
      <3>1. Outside(x) + MigratedSupply(x) = balanceOf(x) /\ Outside(x)' = balanceOf(x)'
        BY <1>1, <2>1, MigrationAndOutside
      <3>2. nonRebasingSupply' = nonRebasingSupply + MigratedSupply(x) - n
        BY <1>1, <2>1
      <3>. QED  BY <1>2, <1>4, <1>6, <1>8, <3>1, <3>2
    <2>2. CASE ~isNonRebasing(x)
      <3>1. Outside(x) = 0 /\ Outside(x)' = 0
        BY <1>1, <2>2, MigrationAndOutside
      <3>2. nonRebasingSupply' = nonRebasingSupply
        BY <1>1, <2>2
      <3>. QED  BY <1>2, <1>4, <1>6, <3>1, <3>2
    <2>. QED  BY <2>1, <2>2
  <1>. QED  BY <1>9, <1>10 DEF RoundsUp

(* An opt-in takes from the tally what the account had, an opt-out adds     *)
(* what it has.                                                             *)
LEMMA ChoiceRounds ==
    ASSUME IInv, IInv', NEW x \in Accounts, RebaseOptIn(x) \/ RebaseOptOut(x)
    PROVE  RoundsUp
  <1>1. /\ totalSupply \in Nat /\ nonRebasingSupply \in Nat
        /\ nonRebasingSupply' \in Nat /\ MigratedSupply(x) \in Nat
        /\ nonRebasingCreditsPerToken \in [Accounts -> Nat]
        /\ rebasingCreditsPerToken \in Nat /\ rebasingCreditsPerToken > 0
    BY ViewTypes DEF IInv, TypeOK, RateMatchesChoice
  <1>2. \A a \in Accounts :
           /\ balanceOf(a) \in Nat /\ balanceOf(a)' \in Nat
           /\ Outside(a) \in Nat /\ Outside(a)' \in Nat
    BY BalanceFacts
  <1>3. totalSupply' = totalSupply
    BY DEF RebaseOptIn, RebaseOptOut
  <1>4. /\ balanceOf(x)' <= balanceOf(x)
        /\ \A a \in Accounts \ {x} : balanceOf(a)' = balanceOf(a)
    BY <1>2, OptInStep, OptOutStep
  <1>5. \A a \in Accounts \ {x} : Outside(a)' = Outside(a)
    <2>1. \A a \in Accounts \ {x} : InPool(a)' = InPool(a)
      BY <1>1 DEF InPool, RebaseOptIn, RebaseOptOut
    <2>. QED  BY <1>4, <2>1 DEF Outside
  <1>6. /\ Excess \in Int /\ OutsideExcess \in Int
        /\ Excess' = Excess + balanceOf(x)' - balanceOf(x) - totalSupply' + totalSupply
        /\ OutsideExcess' = OutsideExcess + Outside(x)' - Outside(x)
                                - nonRebasingSupply' + nonRebasingSupply
    BY <1>4, <1>5, SumsMoveByOne
  <1>7. Excess' <= Excess
    BY <1>1, <1>2, <1>3, <1>4, <1>6
  <1>8. CASE RebaseOptIn(x)
    <2>1. /\ nonRebasingSupply' = nonRebasingSupply + MigratedSupply(x) - balanceOf(x)
          /\ isNonRebasing(x)
      BY <1>1, <1>2, <1>8 DEF RebaseOptIn
    <2>2. Outside(x)' = 0
      <3>1. nonRebasingCreditsPerToken' = [nonRebasingCreditsPerToken EXCEPT ![x] = 0]
        BY <1>8, Zenon DEF RebaseOptIn
      <3>. QED  BY <1>1, <3>1 DEF Outside, InPool
    <2>3. Outside(x) + MigratedSupply(x) = balanceOf(x)
      <3>1. CASE Migrates(x)
        BY <1>2, <3>1 DEF Outside, MigratedSupply, Migrates, InPool
      <3>2. CASE ~Migrates(x)
        <4>1. ~InPool(x)
          BY <1>1, <2>1, <3>2 DEF isNonRebasing, FrozenRate, InPool
        <4>. QED  BY <1>2, <3>2, <4>1 DEF Outside, MigratedSupply
      <3>. QED  BY <3>1, <3>2
    <2>4. OutsideExcess' <= OutsideExcess
      BY <1>1, <1>2, <1>6, <2>1, <2>2, <2>3
    <2>. QED  BY <1>7, <2>4 DEF RoundsUp
  <1>9. CASE RebaseOptOut(x)
    <2>1. nonRebasingSupply' = nonRebasingSupply + balanceOf(x) /\ ~isNonRebasing(x)
      BY <1>9 DEF RebaseOptOut
    <2>2. Outside(x)' = balanceOf(x)'
      BY <1>1, <1>9 DEF RebaseOptOut, Outside, InPool
    <2>3. OutsideExcess' <= OutsideExcess
      BY <1>1, <1>2, <1>4, <1>6, <2>1, <2>2
    <2>. QED  BY <1>7, <2>3 DEF RoundsUp
  <1>. QED  BY <1>8, <1>9

(* Calls that concern neither balances nor tallies.                         *)
LEMMA OtherRounds ==
    ASSUME IInv, IInv', UNCHANGED <<totalSupply, pool, rebasingCreditsPerToken>>
    PROVE  RoundsUp
  <1>1. /\ creditBalances' = creditBalances
        /\ nonRebasingCreditsPerToken' = nonRebasingCreditsPerToken
        /\ rebasingCreditsPerToken' = rebasingCreditsPerToken
        /\ nonRebasingSupply' = nonRebasingSupply /\ totalSupply' = totalSupply
    BY DEF pool
  <1>2. Balances' = Balances /\ Pool' = Pool
    BY <1>1, BalancesKept DEF Balances, Pool, InPool
  <1>3. Excess' = Excess /\ OutsideExcess' = OutsideExcess
    BY <1>1, <1>2 DEF Excess, OutsideExcess
  <1>4. Excess \in Int /\ OutsideExcess \in Int
    <2>1. \A a \in Accounts : Balances[a] \in Int /\ OutsideOf[a] \in Int
      BY BalanceFacts
    <2>2. /\ SumFunctionOnSet(Balances, Accounts) \in Int
          /\ SumFunctionOnSet(OutsideOf, Accounts) \in Int
      BY <2>1, SumInt, TokenAssumption
    <2>. QED  BY <2>2, OutsideIsSum DEF Excess, OutsideExcess, IInv, TypeOK
  <1>. QED  BY <1>3, <1>4 DEF RoundsUp

(* A rebase leaves outside the pool what was there and covers the rest.     *)
LEMMA RebaseForgets ==
    ASSUME Covered, IInv', NEW c, NEW t \in Nat, ChangeSupply(c, t)
    PROVE  OutsideExcess' = OutsideExcess /\ Excess' <= OutsideExcess
  <1>1. /\ \A a \in Accounts : ~InPool(a) => balanceOf(a)' = balanceOf(a)
        /\ PoolBalance' <= totalSupply' - nonRebasingSupply'
    BY RebaseStep
  <1>2. /\ nonRebasingCreditsPerToken' = nonRebasingCreditsPerToken
        /\ nonRebasingSupply' = nonRebasingSupply
    BY DEF ChangeSupply, pool
  <1>3. IInv
    BY DEF Covered
  <1>. DEFINE b == Balances'
              o == OutsideOf'
              i == [a \in Accounts |-> IF a \in Pool' THEN b[a] ELSE 0]
  <1>4. \A a \in Accounts :
           /\ b[a] \in Int /\ o[a] \in Int /\ OutsideOf[a] \in Int
           /\ o[a] = OutsideOf[a]
           /\ i[a] \in Int /\ b[a] = i[a] + o[a]
    <2>. SUFFICES ASSUME NEW a \in Accounts
                  PROVE  /\ b[a] \in Int /\ o[a] \in Int /\ OutsideOf[a] \in Int
                         /\ o[a] = OutsideOf[a]
                         /\ i[a] \in Int /\ b[a] = i[a] + o[a]
      OBVIOUS
    <2>1. /\ b[a] = balanceOf(a)' /\ balanceOf(a)' \in Nat
          /\ o[a] = Outside(a)' /\ Outside(a)' \in Nat
          /\ OutsideOf[a] = Outside(a) /\ Outside(a) \in Nat
      BY <1>3, BalanceFacts
    <2>2. InPool(a)' = InPool(a) /\ (a \in Pool' <=> InPool(a))
      BY <1>2 DEF InPool, Pool
    <2>3. Outside(a)' = Outside(a)
      BY <1>1, <2>2 DEF Outside
    <2>4. b[a] = i[a] + o[a] /\ i[a] \in Int
      BY <2>1, <2>2 DEF Outside
    <2>. QED  BY <2>1, <2>3, <2>4
  <1>. DEFINE sum(f) == SumFunctionOnSet(f, Accounts)
  <1>5. /\ \A a \in Accounts : i[a] = IF a \in Pool' THEN b[a] ELSE 0
        /\ Pool' \in SUBSET Accounts
    BY DEF Pool
  <1>6. sum(o) = sum(OutsideOf)
    <2>. HIDE DEF o, b, i
    <2>1. sum(OutsideOf) = sum(o)
      BY <1>4, SumSame, TokenAssumption
    <2>. QED  BY <2>1
  <1>7. /\ OutsideExcess = sum(OutsideOf) - nonRebasingSupply
        /\ OutsideExcess' = sum(o) - nonRebasingSupply'
        /\ Excess' = sum(b) - totalSupply'
        /\ PoolBalance' = SumFunctionOnSet(b, Pool')
    BY <1>3, OutsideIsSum, NextOutsideIsSum DEF Excess, OutsideExcess, PoolBalance
  <1>. HIDE DEF o, b, i
  <1>8. SumFunctionOnSet(b, Pool') = sum(i)
    BY <1>4, <1>5, SumFiltered, TokenAssumption
  <1>9. sum(b) = sum(i) + sum(o)
    BY <1>4, SumAdd, TokenAssumption
  <1>10. sum(i) \in Int /\ sum(o) \in Int
    BY <1>4, SumInt, TokenAssumption
  <1>11. totalSupply' \in Int /\ nonRebasingSupply' \in Int
    BY DEF IInv, TypeOK
  <1>. HIDE DEF sum
  <1>12. OutsideExcess' = OutsideExcess
    BY <1>2, <1>6, <1>7
  <1>13. Excess' <= OutsideExcess'
    BY <1>1, <1>7, <1>8, <1>9, <1>10, <1>11
  <1>. QED  BY <1>12, <1>13

LEMMA SupplyStep ==
    ASSUME Covered, Next
    PROVE  IF \E c \in Callers, t \in RebaseTargets : ChangeSupply(c, t)
           THEN OutsideExcess' = OutsideExcess /\ Excess' <= OutsideExcess
           ELSE RoundsUp
  <1>0. /\ IInv /\ IInv' /\ Amounts \subseteq Nat /\ RebaseTargets \subseteq Nat
    BY NextCovered, TokenAssumption DEF Covered
  <1>1. CASE \E c \in Callers, t \in RebaseTargets : ChangeSupply(c, t)
    BY <1>0, <1>1, RebaseForgets
  <1>2. CASE ~\E c \in Callers, t \in RebaseTargets : ChangeSupply(c, t)
    <2>. SUFFICES RoundsUp
      BY <1>2
    <2>1. ASSUME NEW c \in Callers, VaultStep(c) \/ GatewayStep(c)
          PROVE  RoundsUp
      <3>1. \E x \in Accounts, n \in Amounts : mintTo(x, n) \/ burnFrom(x, n)
        BY <1>2, <2>1 DEF VaultStep, GatewayStep, Mint, Burn, BurnExclFromOutFlow,
                          BridgeMint, BridgeBurn
      <3>. QED  BY <1>0, <3>1, MintRounds, BurnRounds
    <2>2. ASSUME NEW a \in Accounts, HolderStep(a)
          PROVE  RoundsUp
      <3>1. CASE \E b \in Accounts, n \in Amounts : Transfer(a, b, n)
        BY <1>0, <3>1, TransferRounds DEF Transfer
      <3>2. CASE \E b, d \in Accounts, n \in Amounts : TransferFrom(a, b, d, n)
        BY <1>0, <3>2, TransferRounds DEF TransferFrom
      <3>3. CASE \E s \in Accounts, n \in Approvals :
                   \/ Approve(a, s, n) \/ IncreaseAllowance(a, s, n)
                   \/ DecreaseAllowance(a, s, n)
        BY <1>0, <3>3, OtherRounds
        DEF Approve, IncreaseAllowance, DecreaseAllowance, SetAllowance
      <3>. QED  BY <2>2, <3>1, <3>2, <3>3 DEF HolderStep
    <2>3. ASSUME NEW a \in Accounts, Deploy(a)  PROVE RoundsUp
      BY <1>0, <2>3, OtherRounds DEF Deploy
    <2>4. CASE OwnerStep
      BY <1>0, <2>4, ChoiceRounds, OtherRounds DEF OwnerStep, ChangeVault, ChangeArbToken
    <2>. QED  BY <2>1, <2>2, <2>3, <2>4 DEF Next
  <1>. QED  BY <1>1, <1>2

(* Between two rebases the balances outgrow the supply by at most a credit  *)
(* and a unit for each call that credits an account, for any number of      *)
(* holders; a rebase leaves of that only what built up outside the pool.    *)
THEOREM SupplyCovers == Spec => SupplyCoversBalances
  <1>1. Covered /\ [Next]_vars =>
          [IF \E c \in Callers, t \in RebaseTargets : ChangeSupply(c, t)
           THEN OutsideExcess' = OutsideExcess /\ Excess' <= OutsideExcess
           ELSE RoundsUp]_vars
    BY SupplyStep
  <1>. QED
    BY <1>1, InitCovered, NextCovered, PTL DEF Spec, SupplyCoversBalances, RoundsUp

-----------------------------------------------------------------------------
(* The refinement of RebasingLedger.                                       *)

LEMMA ProductMono ==
    ASSUME NEW x \in Nat, NEW y \in Nat, NEW c \in Nat, NEW d \in Nat, x <= c, y <= d
    PROVE  x * y <= c * d
  <1>1. x * y <= c * y
    BY SMT
  <1>2. c * y <= c * d
    BY SMT
  <1>. QED  BY <1>1, <1>2, MulNat

(* The same credits at the same two rates: nobody's part of the pool grows *)
(* faster than another's.                                                  *)
LEMMA OneRate ==
    ASSUME NEW k \in Nat, NEW l \in Nat, NEW r \in Nat, r > 0, NEW g \in Nat, g > 0
    PROVE  divPrecisely(k, g) * divPrecisely(l, r)
              < (divPrecisely(k, r) + 1) * (divPrecisely(l, g) + 1)
  <1>. DEFINE kr == divPrecisely(k, r)
              kg == divPrecisely(k, g)
              lr == divPrecisely(l, r)
              lg == divPrecisely(l, g)
              X == k * FULL_SCALE
              Y == l * FULL_SCALE
  <1>1. X \in Nat /\ Y \in Nat
    BY MulNat, ScaleAssumption
  <1>2. /\ kr \in Nat /\ X < kr * r + r
        /\ kg \in Nat /\ kg * g <= X
        /\ lr \in Nat /\ lr * r <= Y
        /\ lg \in Nat /\ Y < lg * g + g
    BY WorthFacts
  <1>. HIDE DEF kr, kg, lr, lg, X, Y
  <1>3. kr * r + r = (kr + 1) * r /\ lg * g + g = (lg + 1) * g
    BY <1>2, SMT
  <1>4. /\ kg * g \in Nat /\ lr * r \in Nat
        /\ (kr + 1) * r \in Nat /\ (lg + 1) * g \in Nat
    BY <1>2, MulNat
  <1>5. (kg * g) * (lr * r) <= X * Y
    BY <1>1, <1>2, <1>4, ProductMono
  <1>6. X * Y < ((kr + 1) * r) * ((lg + 1) * g)
    <2>. DEFINE A == (kr + 1) * r
                B == (lg + 1) * g
    <2>1. A \in Nat /\ B \in Nat /\ X < A /\ Y < B
      BY <1>2, <1>3, <1>4
    <2>. HIDE DEF A, B
    <2>2. X + 1 <= A /\ Y + 1 <= B
      BY <1>1, <2>1
    <2>3. (X + 1) * (Y + 1) <= A * B
      BY <1>1, <2>1, <2>2, ProductMono
    <2>4. (X + 1) * (Y + 1) = X * Y + X + Y + 1
      BY <1>1, SMT
    <2>5. X * Y \in Nat /\ A * B \in Nat
      BY <1>1, <2>1, MulNat
    <2>6. X * Y < A * B
      BY <1>1, <2>3, <2>4, <2>5
    <2>. QED  BY <2>6 DEF A, B
  <1>7. /\ (kg * g) * (lr * r) = (kg * lr) * (g * r)
        /\ ((kr + 1) * r) * ((lg + 1) * g) = ((kr + 1) * (lg + 1)) * (g * r)
    BY <1>2, SMT
  <1>8. g * r \in Nat /\ g * r > 0
    BY SMT
  <1>9. kg * lr \in Int /\ (kr + 1) * (lg + 1) \in Int
    BY <1>2, MulNat
  <1>10. (kg * lr) * (g * r) < ((kr + 1) * (lg + 1)) * (g * r)
    <2>1. /\ (kg * lr) * (g * r) \in Int /\ ((kr + 1) * (lg + 1)) * (g * r) \in Int
          /\ X * Y \in Int
      BY <1>1, <1>8, <1>9, SMT
    <2>. QED  BY <1>5, <1>6, <1>7, <2>1
  <1>11. kg * lr < (kr + 1) * (lg + 1)
    BY <1>8, <1>9, <1>10, CancelFactor
  <1>. QED  BY <1>11 DEF kr, kg, lr, lg

(* A burn costs at most two credits more than its amount: one for rounding *)
(* the amount up, one for the remainder.                                   *)
LEMMA BurningLeaves ==
    ASSUME NEW c \in Nat, NEW r \in Nat, r > 0, NEW v \in Nat,
           mulTruncateCeil(v, r) <= c
    PROVE  divPrecisely(Remainder(c, mulTruncateCeil(v, r)), r)
              >= divPrecisely(c, r) - v - 2 * Slack(r)
  <1>. DEFINE q == mulTruncateCeil(v, r)
              m == Remainder(c, q)
              p == divPrecisely(c, r)
              n == divPrecisely(m, r)
              k == FULL_SCALE \div r
              S == FULL_SCALE
  <1>0. S \in Nat /\ S > 0
    BY ScaleAssumption
  <1>1. q \in Nat /\ q * S <= v * r + (S - 1)
    BY CeilFacts
  <1>. HIDE DEF q
  <1>2. q <= c
    BY DEF q
  <1>3. m \in Nat /\ m >= c - q - 1
    BY <1>1, <1>2 DEF Remainder
  <1>4. p \in Nat /\ p * r <= c * S
    BY WorthFacts
  <1>. HIDE DEF m
  <1>5. n \in Nat /\ m * S < n * r + r
    BY <1>3, WorthFacts
  <1>6. k \in Nat /\ S < k * r + r
    BY <1>0, DivFacts
  <1>. HIDE DEF p, n, k, S
  <1>7. (c - q - 1) * S <= m * S
    BY <1>0, <1>1, <1>3, SMT
  <1>8. (c - q - 1) * S = c * S - q * S - S
    BY <1>0, <1>1, SMT
  <1>9. /\ c * S \in Int /\ q * S \in Int /\ m * S \in Int /\ v * r \in Int
        /\ n * r \in Int /\ p * r \in Int /\ k * r \in Int
    BY <1>0, <1>1, <1>3, <1>4, <1>5, <1>6, MulNat
  <1>10. p * r < n * r + v * r + (k * r + r) + (k * r + r) + r
    BY <1>0, <1>1, <1>4, <1>5, <1>6, <1>7, <1>8, <1>9
  <1>11. n * r + v * r + (k * r + r) + (k * r + r) + r = (n + v + 2 * (k + 1) + 1) * r
    BY <1>5, <1>6, SMT
  <1>12. p < n + v + 2 * (k + 1) + 1
    BY <1>4, <1>5, <1>6, <1>10, <1>11, CancelFactor
  <1>13. Slack(r) = k + 1
    BY DEF Slack, k, S
  <1>14. n >= p - v - 2 * (k + 1)
    BY <1>4, <1>5, <1>6, <1>12
  <1>. QED  BY <1>13, <1>14 DEF n, p, m, q

LEMMA GrainFacts ==
    ASSUME IInv, IInv', NEW a \in Accounts
    PROVE  /\ Grains[a] = Slack(creditsPerToken(a)) /\ Grains[a] \in Nat
           /\ Grains'[a] = Slack(creditsPerToken(a)') /\ Grains'[a] \in Nat
  <1>1. creditsPerToken(a) \in Nat /\ creditsPerToken(a) > 0
    BY ViewTypes
  <1>2. creditsPerToken(a)' \in Nat /\ creditsPerToken(a)' > 0
    BY DEF creditsPerToken, IInv, TypeOK, RateMatchesChoice
  <1>3. ASSUME NEW r \in Nat, r > 0  PROVE Slack(r) \in Nat
    BY <1>3, ScaleAssumption, DivFacts DEF Slack
  <1>. QED  BY <1>1, <1>2, <1>3 DEF Grains

(* Where only migrations touch the rates, balances stay as coarse as they  *)
(* are and only the accounts that the call names may leave the pool.       *)
LEMMA MigrationLeaves ==
    ASSUME IInv, NEW S \in SUBSET Accounts,
           nonRebasingCreditsPerToken' = FrozenRates(S),
           rebasingCreditsPerToken' = rebasingCreditsPerToken
    PROVE  Ledger!Leave(S) /\ Grains' = Grains
  <1>1. \A a \in Accounts : creditsPerToken(a)' = creditsPerToken(a)
    BY MigrationKeepsUsedRates
  <1>2. Grains' = Grains
    BY <1>1 DEF Grains
  <1>3. \A a \in Accounts : InPool(a)' => InPool(a)
    <2>. SUFFICES ASSUME NEW a \in Accounts, InPool(a)'  PROVE InPool(a)
      OBVIOUS
    <2>1. CASE a \notin S
      BY <2>1, MigrationAndPool
    <2>2. CASE a \in S
      <3>1. ~isNonRebasing(a)
        BY <2>2, MigrationAndPool
      <3>2. /\ nonRebasingCreditsPerToken[a] \in Nat
            /\ rebasingCreditsPerToken \in Nat /\ rebasingCreditsPerToken > 0
        BY DEF IInv, TypeOK, RateMatchesChoice
      <3>. QED  BY <3>1, <3>2 DEF isNonRebasing, FrozenRate, InPool, Migrates
    <2>. QED  BY <2>1, <2>2
  <1>4. \A a \in Accounts \ S : InPool(a)' = InPool(a)
    BY MigrationAndPool
  <1>. QED  BY <1>2, <1>3, <1>4 DEF Pool, Ledger!Leave

LEMMA TransferIsMove ==
    ASSUME IInv, IInv', NEW from \in Accounts, NEW to \in Accounts, NEW n \in Nat,
           n <= balanceOf(from), executeTransfer(from, to, n)
    PROVE  Ledger!Transfer(from, to, n)
  <1>1. /\ nonRebasingCreditsPerToken' = FrozenRates({from, to})
        /\ rebasingCreditsPerToken' = rebasingCreditsPerToken
        /\ totalSupply' = totalSupply
    BY DEF executeTransfer
  <1>2. Ledger!Leave({from, to}) /\ Grains' = Grains
    BY <1>1, MigrationLeaves
  <1>3. MovesValue(from, to, n)
    BY TransferStep
  <1>4. \A a \in Accounts :
           /\ Balances[a] = balanceOf(a) /\ balanceOf(a) \in Nat
           /\ Balances'[a] = balanceOf(a)' /\ balanceOf(a)' \in Nat
           /\ Grains[a] = Slack(creditsPerToken(a)) /\ Grains[a] \in Nat
    BY BalanceFacts, GrainFacts
  <1>5. Balances = [a \in Accounts |-> Balances[a]] /\ Balances' = [a \in Accounts |-> Balances'[a]]
    BY DEF Balances
  <1>6. CASE from = to
    <2>1. \A a \in Accounts : Balances'[a] = Balances[a]
      BY <1>3, <1>4, <1>6 DEF MovesValue
    <2>2. Balances' = Balances
      BY <1>5, <2>1
    <2>. QED  BY <1>1, <1>2, <1>4, <1>6, <2>2 DEF Ledger!Transfer
  <1>7. CASE from # to
    <2>1. balanceOf(to)' <= balanceOf(to) + n + Slack(creditsPerToken(to))
      BY <1>7, ReceiversGainLittle
    <2>2. /\ balanceOf(to)' >= balanceOf(to) + n
          /\ balanceOf(from)' <= balanceOf(from) - n
          /\ balanceOf(from)' >= balanceOf(from) - n - Slack(creditsPerToken(from))
          /\ \A a \in Accounts \ {from, to} : balanceOf(a)' = balanceOf(a)
      BY <1>3, <1>7 DEF MovesValue
    <2>. DEFINE less == Balances[from] - n - Balances'[from]
                more == Balances'[to] - Balances[to] - n
    <2>3. less \in 0 .. Grains[from] /\ more \in 0 .. Grains[to]
      BY <1>4, <2>1, <2>2
    <2>4. /\ Balances'[from] = Balances[from] - (n + less)
          /\ Balances'[to] = Balances[to] + (n + more)
      BY <1>4
    <2>. HIDE DEF less, more
    <2>5. Balances' = [Balances EXCEPT ![from] = @ - (n + less), ![to] = @ + (n + more)]
      <3>. DEFINE new == [Balances EXCEPT ![from] = @ - (n + less), ![to] = @ + (n + more)]
      <3>1. new = [a \in Accounts |-> new[a]]
        BY <1>5
      <3>2. \A a \in Accounts : new[a] = Balances'[a]
        BY <1>4, <1>5, <1>7, <2>2, <2>4
      <3>. QED  BY <1>5, <3>1, <3>2
    <2>. QED  BY <1>1, <1>2, <1>4, <1>7, <2>3, <2>5 DEF Ledger!Transfer
  <1>. QED  BY <1>6, <1>7

(* A mint or a burn changes one balance.                                   *)
LEMMA OneBalance ==
    ASSUME IInv, IInv', NEW x \in Accounts, NEW S \in SUBSET {x},
           nonRebasingCreditsPerToken' = FrozenRates(S),
           rebasingCreditsPerToken' = rebasingCreditsPerToken,
           NEW k, creditBalances' = [creditBalances EXCEPT ![x] = k]
    PROVE  /\ Balances' = [Balances EXCEPT ![x] = balanceOf(x)']
           /\ Balances[x] = balanceOf(x)
           /\ balanceOf(x) = divPrecisely(creditBalances[x], creditsPerToken(x))
           /\ balanceOf(x)' = divPrecisely(k, creditsPerToken(x))
  <1>1. \A a \in Accounts : creditsPerToken(a)' = creditsPerToken(a)
    BY MigrationKeepsUsedRates
  <1>2. creditBalances \in [Accounts -> Nat]
    BY DEF IInv, TypeOK
  <1>3. \A a \in Accounts \ {x} : balanceOf(a)' = balanceOf(a)
    BY <1>1, <1>2, BalanceIsWorth, NextBalanceIsWorth
  <1>4. Balances' = [Balances EXCEPT ![x] = balanceOf(x)']
    BY <1>3 DEF Balances
  <1>5. Balances[x] = balanceOf(x)
    BY DEF Balances
  <1>. QED  BY <1>1, <1>2, <1>4, <1>5, BalanceIsWorth, NextBalanceIsWorth

LEMMA MintIsMint ==
    ASSUME IInv, IInv', NEW x \in Accounts, NEW n \in Nat, mintTo(x, n)
    PROVE  Ledger!Mint(x, n)
  <1>. DEFINE r == creditsPerToken(x)
              credit == mulTruncateCeil(n, r)
              more == balanceOf(x)' - balanceOf(x) - n
  <1>1. /\ creditBalances' = [creditBalances EXCEPT ![x] = creditBalances[x] + credit]
        /\ nonRebasingCreditsPerToken' = FrozenRates({x})
        /\ rebasingCreditsPerToken' = rebasingCreditsPerToken
        /\ totalSupply' = totalSupply + n
    BY DEF mintTo
  <1>2. /\ creditBalances[x] \in Nat /\ r \in Nat /\ r > 0
        /\ balanceOf(x) \in Nat /\ balanceOf(x)' \in Nat
        /\ Grains[x] = Slack(r) /\ Grains[x] \in Nat
    BY ViewTypes, BalanceFacts, GrainFacts DEF IInv, TypeOK
  <1>3. Ledger!Leave({x}) /\ Grains' = Grains
    BY <1>1, MigrationLeaves
  <1>4. /\ Balances' = [Balances EXCEPT ![x] = balanceOf(x)']
        /\ Balances[x] = balanceOf(x)
        /\ balanceOf(x) = divPrecisely(creditBalances[x], r)
        /\ balanceOf(x)' = divPrecisely(creditBalances[x] + credit, r)
    <2>. HIDE DEF credit, r
    <2>1. /\ Balances' = [Balances EXCEPT ![x] = balanceOf(x)']
          /\ Balances[x] = balanceOf(x)
          /\ balanceOf(x) = divPrecisely(creditBalances[x], creditsPerToken(x))
          /\ balanceOf(x)' = divPrecisely(creditBalances[x] + credit, creditsPerToken(x))
      BY <1>1, OneBalance
    <2>. QED  BY <2>1 DEF r
  <1>5. /\ balanceOf(x)' >= balanceOf(x) + n
        /\ balanceOf(x)' <= balanceOf(x) + n + Slack(r)
    BY <1>2, <1>4, CreditingGives, CreditingGivesLittleMore
  <1>6. more \in 0 .. Grains[x] /\ balanceOf(x)' = Balances[x] + (n + more)
    BY <1>2, <1>4, <1>5
  <1>. HIDE DEF more, r, credit
  <1>. QED  BY <1>1, <1>3, <1>4, <1>6 DEF Ledger!Mint

LEMMA BurnIsBurn ==
    ASSUME IInv, IInv', NEW x \in Accounts, NEW n \in Nat, burnFrom(x, n)
    PROVE  Ledger!Burn(x, n)
  <1>. DEFINE r == creditsPerToken(x)
              credit == mulTruncateCeil(n, r)
              rest == Remainder(creditBalances[x], credit)
              less == balanceOf(x) - n - balanceOf(x)'
  <1>1. /\ creditBalances' = [creditBalances EXCEPT ![x] = rest]
        /\ nonRebasingCreditsPerToken' = FrozenRates({x})
        /\ rebasingCreditsPerToken' = rebasingCreditsPerToken
        /\ n <= totalSupply /\ totalSupply' = totalSupply - n
        /\ credit <= creditBalances[x]
    BY DEF burnFrom
  <1>2. /\ creditBalances[x] \in Nat /\ r \in Nat /\ r > 0 /\ credit \in Nat
        /\ balanceOf(x) \in Nat /\ balanceOf(x)' \in Nat
        /\ Grains[x] = Slack(r) /\ Grains[x] \in Nat
    <2>1. r \in Nat /\ r > 0 /\ creditBalances[x] \in Nat
      BY ViewTypes DEF IInv, TypeOK
    <2>. QED  BY <2>1, BalanceFacts, GrainFacts, CeilNat
  <1>3. Ledger!Leave({x}) /\ Grains' = Grains
    BY <1>1, MigrationLeaves
  <1>4. /\ Balances' = [Balances EXCEPT ![x] = balanceOf(x)']
        /\ Balances[x] = balanceOf(x)
        /\ balanceOf(x) = divPrecisely(creditBalances[x], r)
        /\ balanceOf(x)' = divPrecisely(rest, r)
    <2>. HIDE DEF rest
    <2>. QED  BY <1>1, OneBalance
  <1>5. balanceOf(x)' <= balanceOf(x) - n
    <2>1. divPrecisely(creditBalances[x] - credit, r) <= balanceOf(x) - n
      BY <1>1, <1>2, <1>4, DebitingTakes
    <2>. HIDE DEF credit
    <2>2. creditBalances[x] - credit \in Nat /\ rest \in Nat /\ rest <= creditBalances[x] - credit
      BY <1>1, <1>2 DEF Remainder
    <2>. HIDE DEF rest
    <2>3. divPrecisely(rest, r) <= divPrecisely(creditBalances[x] - credit, r)
      BY <1>2, <2>2, WorthMono
    <2>4. /\ divPrecisely(rest, r) \in Int
          /\ divPrecisely(creditBalances[x] - credit, r) \in Int
      BY <1>2, <2>2, WorthFacts
    <2>. QED  BY <1>2, <1>4, <2>1, <2>3, <2>4
  <1>6. balanceOf(x)' >= balanceOf(x) - n - 2 * Slack(r)
    BY <1>1, <1>2, <1>4, BurningLeaves
  <1>. HIDE DEF r, credit, rest
  <1>7. less \in 0 .. 2 * Grains[x] /\ balanceOf(x)' = Balances[x] - (n + less)
    BY <1>2, <1>4, <1>5, <1>6
  <1>. HIDE DEF less
  <1>. QED  BY <1>1, <1>3, <1>4, <1>7 DEF Ledger!Burn

LEMMA ChoiceIsChoice ==
    ASSUME IInv, IInv', NEW x \in Accounts
    PROVE  /\ RebaseOptIn(x) => Ledger!OptIn(x)
           /\ RebaseOptOut(x) => Ledger!OptOut(x)
  <1>1. \A a \in Accounts :
           /\ Balances[a] = balanceOf(a) /\ balanceOf(a) \in Nat
           /\ Balances'[a] = balanceOf(a)' /\ balanceOf(a)' \in Nat
           /\ Grains[a] = Slack(creditsPerToken(a)) /\ Grains[a] \in Nat
           /\ Grains'[a] = Slack(creditsPerToken(a)') /\ Grains'[a] \in Nat
    BY BalanceFacts, GrainFacts
  <1>2. /\ Balances = [a \in Accounts |-> Balances[a]]
        /\ Balances' = [a \in Accounts |-> Balances'[a]]
        /\ Grains = [a \in Accounts |-> Grains[a]]
        /\ Grains' = [a \in Accounts |-> Grains'[a]]
    BY DEF Balances, Grains
  <1>3. nonRebasingCreditsPerToken \in [Accounts -> Nat] /\ rebasingCreditsPerToken > 0
        /\ rebasingCreditsPerToken \in Nat
    BY DEF IInv, TypeOK, RateMatchesChoice
  <1>4. ASSUME RebaseOptIn(x)  PROVE Ledger!OptIn(x)
    <2>1. /\ nonRebasingCreditsPerToken' = [nonRebasingCreditsPerToken EXCEPT ![x] = 0]
          /\ rebasingCreditsPerToken' = rebasingCreditsPerToken
          /\ totalSupply' = totalSupply
      BY <1>4, Zenon DEF RebaseOptIn
    <2>2. /\ \A a \in Accounts \ {x} : creditsPerToken(a)' = creditsPerToken(a)
          /\ creditsPerToken(x)' = rebasingCreditsPerToken
      BY <1>3, <2>1 DEF creditsPerToken
    <2>3. Pool' = Pool \cup {x}
      BY <1>3, <2>1 DEF Pool, InPool
    <2>4. /\ balanceOf(x)' <= balanceOf(x)
          /\ balanceOf(x)' >= balanceOf(x) - Slack(rebasingCreditsPerToken)
          /\ \A b \in Accounts \ {x} : balanceOf(b)' = balanceOf(b)
      BY <1>4, OptInStep
    <2>. DEFINE less == Balances[x] - Balances'[x]
    <2>5. less \in 0 .. Grains'[x] /\ Balances'[x] = Balances[x] - less
      BY <1>1, <2>2, <2>4
    <2>. HIDE DEF less
    <2>6. Balances' = [Balances EXCEPT ![x] = @ - less]
      BY <1>1, <1>2, <2>4, <2>5
    <2>7. Grains' \in [Accounts -> Nat]
      BY <1>1, <1>2
    <2>8. \A b \in Accounts \ {x} : Grains'[b] = Grains[b]
      BY <1>1, <2>2
    <2>. QED  BY <2>1, <2>3, <2>5, <2>6, <2>7, <2>8 DEF Ledger!OptIn
  <1>5. ASSUME RebaseOptOut(x)  PROVE Ledger!OptOut(x)
    <2>1. /\ nonRebasingCreditsPerToken' =
                 [nonRebasingCreditsPerToken EXCEPT ![x] = rebasingCreditsPerToken]
          /\ rebasingCreditsPerToken' = rebasingCreditsPerToken
          /\ totalSupply' = totalSupply /\ ~isNonRebasing(x)
      BY <1>5 DEF RebaseOptOut
    <2>2. InPool(x)
      BY <1>3, <2>1 DEF isNonRebasing, FrozenRate, InPool
    <2>3. \A a \in Accounts : creditsPerToken(a)' = creditsPerToken(a)
      BY <1>3, <2>1, <2>2 DEF creditsPerToken, InPool
    <2>4. Grains' = Grains
      BY <2>3 DEF Grains
    <2>5. Pool' = Pool \ {x} /\ x \in Pool
      BY <1>3, <2>1, <2>2 DEF Pool, InPool
    <2>6. Balances' = Balances
      BY <1>5, OptOutStep DEF Balances
    <2>. QED  BY <2>1, <2>4, <2>5, <2>6 DEF Ledger!OptOut
  <1>. QED  BY <1>4, <1>5

LEMMA RebaseIsRebase ==
    ASSUME IInv, IInv', NEW c, NEW t \in Nat, ChangeSupply(c, t)
    PROVE  Ledger!Rebase
  <1>1. /\ creditBalances' = creditBalances
        /\ nonRebasingCreditsPerToken' = nonRebasingCreditsPerToken
    BY DEF ChangeSupply, pool
  <1>2. \A a \in Accounts :
           /\ Balances[a] = balanceOf(a) /\ balanceOf(a) \in Nat
           /\ Balances'[a] = balanceOf(a)' /\ balanceOf(a)' \in Nat
           /\ Grains[a] = Slack(creditsPerToken(a)) /\ Grains[a] \in Nat
           /\ Grains'[a] = Slack(creditsPerToken(a)') /\ Grains'[a] \in Nat
    BY BalanceFacts, GrainFacts
  <1>3. Balances' \in [Accounts -> Nat] /\ Grains' \in [Accounts -> Nat]
    BY <1>2 DEF Balances, Grains
  <1>4. Pool' = Pool
    BY <1>1 DEF Pool, InPool
  <1>5. \A a \in Accounts \ Pool : Balances'[a] = Balances[a] /\ Grains'[a] = Grains[a]
    <2>1. \A a \in Accounts \ Pool : creditsPerToken(a)' = creditsPerToken(a)
      BY <1>1 DEF Pool, InPool, creditsPerToken
    <2>2. \A a \in Accounts \ Pool : balanceOf(a)' = balanceOf(a)
      BY <1>1, <2>1, BalanceIsWorth, NextBalanceIsWorth
    <2>. QED  BY <1>2, <2>1, <2>2
  <1>6. ASSUME NEW a \in Pool, NEW b \in Pool
        PROVE  Balances'[a] * Balances[b] < (Balances[a] + 1) * (Balances'[b] + 1)
    <2>. DEFINE r == rebasingCreditsPerToken
                g == rebasingCreditsPerToken'
    <2>1. /\ a \in Accounts /\ b \in Accounts
          /\ creditsPerToken(a) = r /\ creditsPerToken(a)' = g
          /\ creditsPerToken(b) = r /\ creditsPerToken(b)' = g
      BY <1>1 DEF Pool, InPool, creditsPerToken
    <2>2. /\ creditBalances[a] \in Nat /\ creditBalances[b] \in Nat
          /\ r \in Nat /\ r > 0 /\ g \in Nat /\ g > 0
      BY <2>1 DEF IInv, TypeOK, RateMatchesChoice
    <2>3. /\ Balances[a] = divPrecisely(creditBalances[a], r)
          /\ Balances'[a] = divPrecisely(creditBalances[a], g)
          /\ Balances[b] = divPrecisely(creditBalances[b], r)
          /\ Balances'[b] = divPrecisely(creditBalances[b], g)
      BY <1>1, <1>2, <2>1, BalanceIsWorth, NextBalanceIsWorth
    <2>. HIDE DEF r, g
    <2>. QED  BY <2>2, <2>3, OneRate
  <1>7. totalSupply' \in Nat
    BY DEF IInv, TypeOK
  <1>. QED  BY <1>3, <1>4, <1>5, <1>6, <1>7 DEF Ledger!Rebase

LedgerVars == <<Balances, totalSupply, Pool, Grains>>

LEMMA OtherKeepsLedger ==
    ASSUME UNCHANGED <<totalSupply, pool, rebasingCreditsPerToken>>
    PROVE  UNCHANGED LedgerVars
  <1>1. \A a \in Accounts : /\ balanceOf(a)' = balanceOf(a)
                            /\ creditsPerToken(a)' = creditsPerToken(a)
    BY BalancesKept DEF pool, creditsPerToken
  <1>2. Pool' = Pool
    BY DEF Pool, InPool, pool
  <1>. QED  BY <1>1, <1>2 DEF LedgerVars, Balances, Grains

LEMMA LedgerStep ==
    ASSUME IInv, IInv', [Next]_vars
    PROVE  Ledger!Next \/ UNCHANGED LedgerVars
  <1>0. Amounts \subseteq Nat /\ RebaseTargets \subseteq Nat
    BY TokenAssumption
  <1>1. ASSUME NEW c \in Callers, VaultStep(c) \/ GatewayStep(c)
        PROVE  Ledger!Next
    <2>1. CASE \E t \in RebaseTargets : ChangeSupply(c, t)
      BY <1>0, <2>1, RebaseIsRebase DEF Ledger!Next
    <2>2. CASE \E x \in Accounts, n \in Amounts : mintTo(x, n) \/ burnFrom(x, n)
      BY <1>0, <2>2, MintIsMint, BurnIsBurn DEF Ledger!Next
    <2>. QED  BY <1>1, <2>1, <2>2
           DEF VaultStep, GatewayStep, Mint, Burn, BurnExclFromOutFlow, BridgeMint, BridgeBurn
  <1>2. ASSUME NEW a \in Accounts, HolderStep(a)
        PROVE  Ledger!Next \/ UNCHANGED LedgerVars
    <2>1. CASE \E b \in Accounts, n \in Amounts : Transfer(a, b, n)
      BY <1>0, <2>1, TransferIsMove DEF Transfer, Ledger!Next
    <2>2. CASE \E b, d \in Accounts, n \in Amounts : TransferFrom(a, b, d, n)
      BY <1>0, <2>2, TransferIsMove DEF TransferFrom, Ledger!Next
    <2>3. CASE \E s \in Accounts, n \in Approvals :
                 \/ Approve(a, s, n) \/ IncreaseAllowance(a, s, n)
                 \/ DecreaseAllowance(a, s, n)
      BY <2>3, OtherKeepsLedger
      DEF Approve, IncreaseAllowance, DecreaseAllowance, SetAllowance
    <2>. QED  BY <1>2, <2>1, <2>2, <2>3 DEF HolderStep
  <1>3. ASSUME NEW a \in Accounts, Deploy(a)  PROVE UNCHANGED LedgerVars
    BY <1>3, OtherKeepsLedger DEF Deploy
  <1>4. CASE OwnerStep
    BY <1>4, ChoiceIsChoice, OtherKeepsLedger
    DEF OwnerStep, ChangeVault, ChangeArbToken, Ledger!Next
  <1>5. CASE UNCHANGED vars
    BY <1>5, OtherKeepsLedger DEF vars
  <1>. QED  BY <1>1, <1>2, <1>3, <1>4, <1>5 DEF Next

LEMMA InitLedger == Init => Ledger!Init
  <1>. SUFFICES ASSUME Init PROVE Ledger!Init
    OBVIOUS
  <1>1. \A a \in Accounts : /\ balanceOf(a) = 0 /\ InPool(a)
                            /\ Slack(creditsPerToken(a)) \in Nat
    <2>1. FULL_SCALE \div FULL_SCALE \in Nat
      BY DivFacts, ScaleAssumption
    <2>. QED  BY <2>1 DEF Init, balanceOf, InPool, creditsPerToken, Slack
  <1>. QED  BY <1>1 DEF Ledger!Init, Balances, Pool, Grains, Init

(* Whatever the rates, migrations, choices and roundings, and however many *)
(* holders, each call does to all balances what a ledger's call does, and  *)
(* a rebase pays all holders of the pool at one rate.                      *)
THEOREM ImplementsRebasingLedger == Spec => ImplementsLedger
  <1>1. IInv /\ IInv' /\ [Next]_vars => [Ledger!Next]_LedgerVars
    BY LedgerStep
  <1>. QED
    BY <1>1, InitLedger, InitIInv, NextIInv, PTL
    DEF Spec, ImplementsLedger, Ledger!Spec, Ledger!vars, LedgerVars
-----------------------------------------------------------------------------
(* What a balance may lose.                                                 *)

LEMMA SlackNat == ASSUME NEW r \in Nat, r > 0 PROVE Slack(r) \in Nat
  <1>1. FULL_SCALE \in Nat
    BY ScaleAssumption
  <1>. QED  BY <1>1, DivFacts DEF Slack

(* A mint costs nobody, a burn its own account.                             *)
LEMMA MintsCostNobody ==
    ASSUME IInv, IInv', NEW x \in Accounts, NEW n \in Nat, mintTo(x, n), NEW a \in Accounts
    PROVE  ~Loses(a)
  <1>1. /\ Balances[a] = balanceOf(a) /\ balanceOf(a) \in Nat
        /\ Balances'[a] = balanceOf(a)' /\ balanceOf(a)' \in Nat
        /\ Grains[x] \in Nat /\ Balances = [b \in Accounts |-> Balances[b]]
    BY BalanceFacts, GrainFacts DEF Balances
  <1>2. PICK more \in 0 .. Grains[x] : Balances' = [Balances EXCEPT ![x] = @ + (n + more)]
    BY MintIsMint DEF Ledger!Mint
  <1>3. Balances'[a] >= Balances[a]
    BY <1>1, <1>2
  <1>. QED  BY <1>1, <1>3 DEF Loses

LEMMA BurnsCostTheirOwn ==
    ASSUME IInv, IInv', NEW x \in Accounts, NEW n \in Nat, burnFrom(x, n),
           NEW a \in Accounts, Loses(a)
    PROVE  a = x /\ loss(a) <= n + 2 * Slack(creditsPerToken(a))
  <1>1. /\ Balances[a] = balanceOf(a) /\ balanceOf(a) \in Nat
        /\ Balances'[a] = balanceOf(a)' /\ balanceOf(a)' \in Nat
        /\ Grains[x] \in Nat /\ Grains[x] = Slack(creditsPerToken(x))
        /\ Balances = [b \in Accounts |-> Balances[b]]
    BY BalanceFacts, GrainFacts DEF Balances
  <1>2. PICK less \in 0 .. 2 * Grains[x] : Balances' = [Balances EXCEPT ![x] = @ - (n + less)]
    BY BurnIsBurn DEF Ledger!Burn
  <1>3. a = x
    BY <1>1, <1>2 DEF Loses
  <1>4. Balances'[x] = Balances[x] - (n + less)
    BY <1>1, <1>2
  <1>. QED  BY <1>1, <1>3, <1>4 DEF loss

LEMMA LossStep ==
    ASSUME IInv, Next, NEW a \in Accounts, loss(a) > 0
    PROVE  Approved(a)
  <1>0. /\ IInv' /\ Amounts \subseteq Nat /\ balanceOf(a) \in Nat /\ balanceOf(a)' \in Nat
        /\ Loses(a)
    <2>1. IInv' /\ Amounts \subseteq Nat
      BY NextIInv, TokenAssumption
    <2>2. balanceOf(a) \in Nat /\ balanceOf(a)' \in Nat
      BY <2>1, BalanceFacts
    <2>. QED  BY <2>1, <2>2 DEF loss, Loses
  <1>1. ASSUME balanceOf(a)' = balanceOf(a)  PROVE FALSE
    BY <1>0, <1>1 DEF Loses
  <1>2. ASSUME NEW c \in Callers, VaultStep(c) \/ GatewayStep(c)
        PROVE  Approved(a)
    <2>1. CASE \E x \in Accounts, n \in Amounts : mintTo(x, n)
      BY <1>0, <2>1, MintsCostNobody
    <2>2. CASE \E x \in Accounts, n \in Amounts :
                  Burn(c, x, n) \/ BurnExclFromOutFlow(c, x, n) \/ BridgeBurn(c, x, n)
      <3>1. PICK x \in Accounts, n \in Amounts :
               Burn(c, x, n) \/ BurnExclFromOutFlow(c, x, n) \/ BridgeBurn(c, x, n)
        BY <2>2
      <3>2. burnFrom(x, n) /\ n \in Nat
        BY <1>0, <3>1 DEF Burn, BurnExclFromOutFlow, BridgeBurn
      <3>3. a = x /\ loss(a) <= n + 2 * Slack(creditsPerToken(a))
        BY <1>0, <3>2, BurnsCostTheirOwn
      <3>4. burnOf(a, n)
        BY <3>1, <3>3 DEF burnOf
      <3>. QED  BY <3>3, <3>4 DEF Approved
    <2>3. CASE \E t \in RebaseTargets : ChangeSupply(c, t)
      <3>1. PICK t \in RebaseTargets : ChangeSupply(c, t)
        BY <2>3
      <3>2. /\ creditBalances' = creditBalances
            /\ nonRebasingCreditsPerToken' = nonRebasingCreditsPerToken
        BY <3>1 DEF ChangeSupply, pool
      <3>3. InPool(a)
        <4>. SUFFICES ASSUME ~InPool(a)  PROVE FALSE
          OBVIOUS
        <4>1. creditsPerToken(a)' = creditsPerToken(a)
          BY <3>2 DEF InPool, creditsPerToken
        <4>2. balanceOf(a)' = balanceOf(a)
          BY <1>0, <3>2, <4>1, BalanceIsWorth, NextBalanceIsWorth
        <4>. QED  BY <1>1, <4>2
      <3>. QED  BY <3>1, <3>3 DEF Approved
    <2>. QED  BY <1>2, <2>1, <2>2, <2>3 DEF VaultStep, GatewayStep, Mint, BridgeMint
  <1>3. ASSUME NEW x \in Accounts, NEW b \in Accounts, NEW n \in Amounts, Transfer(x, b, n)
        PROVE  Approved(a)
    <2>1. a = x /\ n > 0 /\ loss(a) <= n + Slack(creditsPerToken(a))
      BY <1>0, <1>3, SendersLose DEF Transfer, loss
    <2>. QED  BY <1>3, <2>1 DEF Approved
  <1>4. ASSUME NEW s \in Accounts, NEW x \in Accounts, NEW b \in Accounts,
               NEW n \in Amounts, TransferFrom(s, x, b, n)
        PROVE  Approved(a)
    <2>1. /\ a = x /\ n > 0
          /\ loss(a) <= n + Slack(creditsPerToken(a))
      BY <1>0, <1>4, SendersLose DEF TransferFrom, loss
    <2>2. /\ allowances' = [allowances EXCEPT ![x][s] = @ - n]
          /\ allowances \in [Accounts -> [Accounts -> Nat]]
      BY <1>4 DEF TransferFrom, IInv, TypeOK
    <2>3. allowances'[a][s] = allowances[a][s] - n /\ allowances[a][s] \in Nat
      BY <2>1, <2>2
    <2>4. /\ allowances'[a][s] < allowances[a][s]
          /\ allowances[a][s] - allowances'[a][s] = n
      BY <1>0, <2>1, <2>3
    <2>. QED  BY <2>1, <2>4 DEF Approved
  <1>5. ASSUME NEW o, NEW s, NEW n, SetAllowance(o, s, n)
        PROVE  Approved(a)
    BY <1>1, <1>5, BalancesKept DEF SetAllowance, pool
  <1>6. ASSUME NEW x \in Accounts, RebaseOptIn(x)
        PROVE  Approved(a)
    <2>1. /\ balanceOf(x)' >= balanceOf(x) - Slack(rebasingCreditsPerToken)
          /\ \A b \in Accounts \ {x} : balanceOf(b)' = balanceOf(b)
      BY <1>0, <1>6, OptInStep
    <2>2. a = x
      BY <1>1, <2>1
    <2>3. Slack(rebasingCreditsPerToken) \in Nat
      BY SlackNat DEF IInv, TypeOK, RateMatchesChoice
    <2>4. loss(a) <= Slack(rebasingCreditsPerToken)
      BY <1>0, <2>1, <2>2, <2>3 DEF loss
    <2>. QED  BY <1>6, <2>2, <2>4 DEF Approved
  <1>7. ASSUME NEW x \in Accounts, RebaseOptOut(x)
        PROVE  Approved(a)
    BY <1>1, <1>7, OptOutStep
  <1>8. ASSUME NEW v, NEW x, ChangeVault(v) \/ ChangeArbToken(v) \/ Deploy(x)
        PROVE  Approved(a)
    BY <1>1, <1>8, BalancesKept DEF ChangeVault, ChangeArbToken, Deploy, pool
  <1>9. ASSUME NEW x \in Accounts, HolderStep(x)
        PROVE  Approved(a)
    <2>1. CASE \E b \in Accounts, n \in Amounts : Transfer(x, b, n)
      BY <1>3, <2>1
    <2>2. CASE \E b, d \in Accounts, n \in Amounts : TransferFrom(x, b, d, n)
      BY <1>4, <2>2
    <2>3. CASE \E s \in Accounts, n \in Approvals :
                 \/ Approve(x, s, n) \/ IncreaseAllowance(x, s, n)
                 \/ DecreaseAllowance(x, s, n)
      BY <1>5, <2>3 DEF Approve, IncreaseAllowance, DecreaseAllowance
    <2>. QED  BY <1>9, <2>1, <2>2, <2>3 DEF HolderStep
  <1>10. CASE OwnerStep
    BY <1>6, <1>7, <1>8, <1>10 DEF OwnerStep
  <1>. QED  BY <1>2, <1>8, <1>9, <1>10 DEF Next

(* Nobody's balance falls but by a transfer of its own, an allowance used   *)
(* up, a burn of this account, a rebase of its pool or an opt-in, and by no *)
(* more than that (and rounding).                                           *)
THEOREM LossesApproved == Spec => NoUnapprovedLoss
  <1>1. IInv /\ [Next]_vars => [\A a \in Accounts : loss(a) > 0 => Approved(a)]_vars
    BY LossStep
  <1>. QED
    BY <1>1, InitIInv, NextIInv, PTL DEF Spec, NoUnapprovedLoss
=============================================================================
