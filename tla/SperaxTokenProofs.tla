------------------------- MODULE SperaxTokenProofs -------------------------
(***************************************************************************)
(* Theorems about SperaxToken, on either layer and for every set of        *)
(* accounts, amounts and bounds.                                           *)
(***************************************************************************)
EXTENDS SperaxToken, SumLemmas, SequenceTheorems

(* Locks are covered only because balances are natural and tokens leave    *)
(* through _beforeTokenTransfer, so types and locks are proved together.   *)
LInv == TypeOK /\ LocksAreFunded

Locks == [Accounts -> [releaseTime : Nat, amount : Nat]]
Covered(b, k) ==
    \A a \in Accounts :
       /\ k[a].amount <= b[a]
       /\ k[a].releaseTime = 0 => k[a].amount = 0

(* What _beforeTokenTransfer does to funded locks: they stay funded with   *)
(* the amount gone from the account.                                       *)
LEMMA LeavingKeepsLocks ==
    ASSUME NEW b \in [Accounts -> Nat], NEW k \in Locks, Covered(b, k),
           NEW from \in Accounts, NEW n \in Nat, n <= b[from]
    PROVE  /\ LocksAfter(b, k, from, n) \in Locks
           /\ Covered([b EXCEPT ![from] = @ - n], LocksAfter(b, k, from, n))
           /\ [b EXCEPT ![from] = @ - n] \in [Accounts -> Nat]
  <1>1. b[from] \in Nat /\ b[from] - n \in Nat /\ k[from].releaseTime \in Nat
    BY DEF Locks
  <1>2. ASSUME Triggers(b, k, from, n)
        PROVE  /\ MaturedLock(k, from, b[from] - n)
                     \in [releaseTime : Nat, amount : Nat]
               /\ MaturedLock(k, from, b[from] - n).amount <= b[from] - n
               /\ MaturedLock(k, from, b[from] - n).releaseTime = 0
                    => MaturedLock(k, from, b[from] - n).amount = 0
    BY <1>1, <1>2 DEF MaturedLock, NoLock, Triggers
  <1>3. CASE Triggers(b, k, from, n)
    BY <1>1, <1>2, <1>3 DEF LocksAfter, Covered, Locks
  <1>4. CASE ~Triggers(b, k, from, n)
    BY <1>1, <1>4 DEF LocksAfter, Triggers, Covered, Locks
  <1>. QED  BY <1>3, <1>4

(* Tokens that arrive only help.                                           *)
LEMMA ArrivingKeepsLocks ==
    ASSUME NEW b \in [Accounts -> Nat], NEW k \in Locks, Covered(b, k),
           NEW to \in Accounts, NEW n \in Nat
    PROVE  /\ [b EXCEPT ![to] = @ + n] \in [Accounts -> Nat]
           /\ Covered([b EXCEPT ![to] = @ + n], k)
  BY DEF Covered, Locks

LEMMA MovingKeepsLocks ==
    ASSUME NEW b \in [Accounts -> Nat], NEW k \in Locks, Covered(b, k),
           NEW from \in Accounts, NEW to \in Accounts, NEW n \in Nat,
           n <= b[from]
    PROVE  /\ LocksAfter(b, k, from, n) \in Locks
           /\ Moved(b, from, to, n) \in [Accounts -> Nat]
           /\ Covered(Moved(b, from, to, n), LocksAfter(b, k, from, n))
  BY LeavingKeepsLocks, ArrivingKeepsLocks DEF Moved

LEMMA InvIsCovered ==
    ASSUME LInv
    PROVE  /\ balances \in [Accounts -> Nat] /\ timelock \in Locks
           /\ Covered(balances, timelock)
  BY DEF LInv, TypeOK, LocksAreFunded, Covered, Locks

LEMMA CoveredIsInv ==
    ASSUME balances' \in [Accounts -> Nat], timelock' \in Locks,
           Covered(balances', timelock'), allowances' \in [Accounts -> [Accounts -> Nat]],
           totalSupply' \in Nat, LInv, UNCHANGED <<minters, switches, now>>
    PROVE  LInv'
  <1>1. LocksAreFunded'
    BY DEF LocksAreFunded, Covered
  <1>2. /\ mintableGroup' = mintableGroup /\ mintableAccounts' = mintableAccounts
        /\ paused' = paused /\ mintPaused' = mintPaused
        /\ l2Gateway' = l2Gateway /\ now' = now
    BY DEF minters, switches
  <1>3. TypeOK'
    BY <1>2 DEF LInv, TypeOK, Locks
  <1>. QED  BY <1>1, <1>3 DEF LInv

LEMMA InitLInv == Init => LInv
  <1>. SUFFICES ASSUME Init PROVE LInv
    OBVIOUS
  <1>1. balances \in [Accounts -> Nat] /\ totalSupply \in Nat
    BY SpaAssumption DEF Init
  <1>2. \A a \in Accounts : timelock[a] = NoLock
    BY DEF Init
  <1>3. timelock \in [Accounts -> [releaseTime : Nat, amount : Nat]]
    BY DEF Init, NoLock
  <1>4. /\ mintableAccounts \in Seq(Accounts)
        /\ mintableGroup \in [Accounts -> BOOLEAN]
        /\ allowances \in [Accounts -> [Accounts -> Nat]]
    BY DEF Init
  <1>5. paused = FALSE /\ mintPaused = FALSE /\ l2Gateway \in Gateways /\ now = 1
    BY DEF Init
  <1>6. TypeOK
    BY <1>1, <1>3, <1>4, <1>5 DEF TypeOK
  <1>7. LocksAreFunded
    BY <1>1, <1>2 DEF LocksAreFunded, NoLock
  <1>. QED  BY <1>6, <1>7 DEF LInv

(* A transfer within a transfer, transferFrom.                              *)
LEMMA MoveLInv ==
    ASSUME LInv, NEW from \in Accounts, NEW to \in Accounts, NEW n \in Nat,
           moveTokens(from, to, n),
           allowances' \in [Accounts -> [Accounts -> Nat]],
           UNCHANGED <<minters, switches, now>>
    PROVE  LInv'
  <1>1. /\ balances \in [Accounts -> Nat] /\ timelock \in Locks
        /\ Covered(balances, timelock)
    BY InvIsCovered
  <1>2. /\ timelock' \in Locks /\ balances' \in [Accounts -> Nat]
        /\ Covered(balances', timelock')
    BY <1>1, MovingKeepsLocks DEF moveTokens, MayLeave
  <1>3. totalSupply' \in Nat
    BY DEF moveTokens, LInv, TypeOK
  <1>. QED  BY <1>2, <1>3, CoveredIsInv

LEMMA BatchLInv ==
    ASSUME LInv, NEW from \in Accounts, NEW to1 \in Accounts, NEW to2 \in Accounts,
           NEW n1 \in Nat, NEW n2 \in Nat, BatchTransfer(from, to1, n1, to2, n2)
    PROVE  LInv'
  <1>. DEFINE b == Moved(balances, from, to1, n1)
              k == LocksAfter(balances, timelock, from, n1)
  <1>1. /\ balances \in [Accounts -> Nat] /\ timelock \in Locks
        /\ Covered(balances, timelock)
    BY InvIsCovered
  <1>2. b \in [Accounts -> Nat] /\ k \in Locks /\ Covered(b, k)
    BY <1>1, MovingKeepsLocks DEF BatchTransfer, MayLeave
  <1>3. /\ n2 <= b[from]
        /\ balances' = Moved(b, from, to2, n2)
        /\ timelock' = LocksAfter(b, k, from, n2)
        /\ UNCHANGED <<allowances, totalSupply, minters, switches, now>>
    BY DEF BatchTransfer, MayLeave
  <1>. HIDE DEF b, k
  <1>4. /\ timelock' \in Locks /\ balances' \in [Accounts -> Nat]
        /\ Covered(balances', timelock')
    BY <1>2, <1>3, MovingKeepsLocks
  <1>. QED  BY <1>3, <1>4, CoveredIsInv DEF LInv, TypeOK

LEMMA IssueLInv ==
    ASSUME LInv, NEW a \in Accounts, NEW n \in Nat, issue(a, n)
    PROVE  LInv'
  <1>1. /\ balances' \in [Accounts -> Nat] /\ timelock' \in Locks
        /\ Covered(balances', timelock')
    BY InvIsCovered, ArrivingKeepsLocks DEF issue
  <1>2. totalSupply' \in Nat
    BY DEF issue, LInv, TypeOK
  <1>. QED  BY <1>1, <1>2, CoveredIsInv DEF issue, LInv, TypeOK

(* A burn: OpenZeppelin's own subtraction keeps the supply natural.         *)
LEMMA DestroyLInv ==
    ASSUME LInv, NEW a \in Accounts, NEW n \in Nat, destroy(a, n),
           allowances' \in [Accounts -> [Accounts -> Nat]]
    PROVE  LInv'
  <1>1. /\ balances' \in [Accounts -> Nat] /\ timelock' \in Locks
        /\ Covered(balances', timelock')
    BY InvIsCovered, LeavingKeepsLocks DEF destroy, MayLeave
  <1>2. totalSupply' \in Nat
    BY DEF destroy, LInv, TypeOK
  <1>. QED  BY <1>1, <1>2, CoveredIsInv DEF destroy

(* A locked transfer: the owner's debit is checked under the new lock, which *)
(* the credit then covers.                                                   *)
LEMMA LockLInv ==
    ASSUME LInv, NEW a \in Accounts, NEW n \in Nat, NEW t \in Nat,
           TransferWithLock(a, n, t)
    PROVE  LInv'
  <1>. DEFINE lock == [releaseTime |-> t, amount |-> n]
              k == [timelock EXCEPT ![a] = lock]
  <1>1. /\ balances \in [Accounts -> Nat] /\ timelock \in Locks
        /\ Covered(balances, timelock) /\ now \in Nat
        /\ Owner \in Accounts
    BY InvIsCovered, SpaAssumption DEF LInv, TypeOK
  <1>2. k \in Locks
    BY <1>1 DEF Locks
  <1>3. /\ t > now /\ ~paused
        /\ n <= balances[Owner]
        /\ Triggers(balances, k, Owner, n) => now >= k[Owner].releaseTime
        /\ balances' = Moved(balances, Owner, a, n)
        /\ timelock' = LocksAfter(balances, k, Owner, n)
        /\ UNCHANGED <<allowances, totalSupply, minters, switches, now>>
    BY DEF TransferWithLock, MayLeave
  <1>4. balances' \in [Accounts -> Nat]
    BY <1>1, <1>3 DEF Moved
  <1>5. timelock' \in Locks /\ Covered(balances', timelock')
    <2>1. CASE a = Owner
      <3>1. k[Owner] = lock /\ lock.releaseTime = t /\ lock.amount = n
        BY <1>1, <2>1 DEF Locks
      <3>2. ~Triggers(balances, k, Owner, n)
        BY <1>1, <1>3, <3>1
      <3>3. timelock' = k
        BY <1>3, <3>2 DEF LocksAfter
      <3>4. balances[Owner] \in Nat /\ n <= balances[Owner] - n
        BY <1>1, <1>3, <3>1, <3>2 DEF Triggers
      <3>5. ASSUME NEW x \in Accounts  PROVE balances'[x] = balances[x]
        BY <1>1, <1>3, <2>1, <3>4 DEF Moved
      <3>6. ASSUME NEW x \in Accounts
            PROVE  /\ k[x].amount <= balances[x]
                   /\ k[x].releaseTime = 0 => k[x].amount = 0
        <4>1. CASE x = Owner
          BY <1>1, <1>3, <3>1, <3>4, <4>1
        <4>2. CASE x # Owner
          BY <1>1, <2>1, <4>2 DEF Covered, Locks
        <4>. QED  BY <4>1, <4>2
      <3>. HIDE DEF k, lock
      <3>. QED  BY <1>2, <3>3, <3>5, <3>6 DEF Covered
    <2>2. CASE a # Owner
      <3>. DEFINE after == LocksAfter(balances, k, Owner, n)
                  b == [balances EXCEPT ![Owner] = @ - n]
                  before == LocksAfter(balances, timelock, Owner, n)
      <3>1. before \in Locks /\ Covered(b, before) /\ b \in [Accounts -> Nat]
        BY <1>1, <1>3, LeavingKeepsLocks
      <3>2. after = [before EXCEPT ![a] = lock]
        <4>1. k[Owner] = timelock[Owner]
          BY <1>1, <2>2 DEF Locks
        <4>2. /\ Triggers(balances, k, Owner, n)
                   <=> Triggers(balances, timelock, Owner, n)
              /\ MaturedLock(k, Owner, balances[Owner] - n)
                   = MaturedLock(timelock, Owner, balances[Owner] - n)
          BY <4>1 DEF Triggers, MaturedLock
        <4>. QED  BY <1>1, <2>2, <4>2 DEF LocksAfter, Locks
      <3>3. balances' = [b EXCEPT ![a] = @ + n]
        BY <1>3 DEF Moved
      <3>. HIDE DEF after, before, b
      <3>4. timelock' = [before EXCEPT ![a] = lock]
        BY <1>3, <3>2 DEF after
      <3>5. timelock' \in Locks
        BY <3>1, <3>4 DEF Locks
      <3>6. ASSUME NEW x \in Accounts
            PROVE  /\ timelock'[x].amount <= balances'[x]
                   /\ timelock'[x].releaseTime = 0 => timelock'[x].amount = 0
        <4>1. CASE x = a
          <5>1. timelock'[x] = lock /\ balances'[x] = b[a] + n /\ b[a] \in Nat
            BY <3>1, <3>3, <3>4, <4>1 DEF Locks
          <5>. QED  BY <1>1, <1>3, <5>1
        <4>2. CASE x # a
          <5>1. timelock'[x] = before[x] /\ balances'[x] = b[x]
            BY <3>1, <3>3, <3>4, <4>2 DEF Locks
          <5>. QED  BY <3>1, <5>1 DEF Covered
        <4>. QED  BY <4>1, <4>2
      <3>. QED  BY <3>5, <3>6 DEF Covered
    <2>. QED  BY <2>1, <2>2
  <1>. QED  BY <1>3, <1>4, <1>5, CoveredIsInv DEF LInv, TypeOK

LEMMA ReleaseLInv ==
    ASSUME LInv, NEW a \in Accounts, NEW n \in Nat, Release(a, n)
    PROVE  LInv'
  <1>1. /\ balances \in [Accounts -> Nat] /\ timelock \in Locks
        /\ Covered(balances, timelock)
    BY InvIsCovered
  <1>2. timelock' \in Locks /\ Covered(balances, timelock')
    BY <1>1 DEF Release, Covered, Locks
  <1>. QED  BY <1>1, <1>2, CoveredIsInv DEF Release, LInv, TypeOK

(* Every step by a holder, a minter, the owner or the clock.                *)
LEMMA NextLInv == LInv /\ [Next]_vars => LInv'
  <1>. SUFFICES ASSUME LInv, [Next]_vars PROVE LInv'
    OBVIOUS
  <1>. USE SpaAssumption
  <1>0. /\ TypeOK /\ LocksAreFunded
        /\ allowances \in [Accounts -> [Accounts -> Nat]] /\ totalSupply \in Nat
    BY DEF LInv, TypeOK
  <1>1. CASE HolderStep
    <2>1. ASSUME NEW a \in Accounts, NEW b \in Accounts, NEW n \in Amounts,
                 Transfer(a, b, n)
          PROVE  LInv'
      BY <1>0, <2>1, MoveLInv DEF Transfer
    <2>2. ASSUME NEW a \in Accounts, NEW b \in Accounts, NEW n \in Approvals,
                 Approve(a, b, n)
          PROVE  LInv'
      <3>1. allowances' \in [Accounts -> [Accounts -> Nat]]
        BY <1>0, <2>2 DEF Approve
      <3>. QED  BY <1>0, <2>2, <3>1, InvIsCovered, CoveredIsInv DEF Approve
    <2>3. ASSUME NEW a \in Accounts, NEW b \in Accounts, NEW n \in Amounts,
                 BurnFrom(a, b, n)
          PROVE  LInv'
      <3>1. allowances' \in [Accounts -> [Accounts -> Nat]]
        BY <1>0, <2>3 DEF BurnFrom
      <3>. QED  BY <2>3, <3>1, DestroyLInv DEF BurnFrom
    <2>4. ASSUME NEW s \in Accounts, NEW a \in Accounts, NEW b \in Accounts,
                 NEW n \in Amounts, TransferFrom(s, a, b, n)
          PROVE  LInv'
      <3>1. allowances' \in [Accounts -> [Accounts -> Nat]]
        BY <1>0, <2>4 DEF TransferFrom
      <3>. QED  BY <2>4, <3>1, MoveLInv DEF TransferFrom
    <2>5. ASSUME NEW a \in Accounts, NEW b \in Accounts, NEW d \in Accounts,
                 NEW m \in Amounts, NEW n \in Amounts, BatchTransfer(a, b, m, d, n)
          PROVE  LInv'
      BY <2>5, BatchLInv
    <2>6. ASSUME NEW a \in Accounts, NEW n \in Amounts, Burn(a, n)
          PROVE  LInv'
      BY <1>0, <2>6, DestroyLInv DEF Burn
    <2>. QED  BY <1>1, <2>1, <2>2, <2>3, <2>4, <2>5, <2>6 DEF HolderStep
  <1>2. CASE MinterStep
    <2>1. ASSUME NEW c, NEW a \in Accounts, NEW n \in Amounts,
                 MintForUSDs(c, a, n) \/ BridgeMint(c, a, n)
          PROVE  LInv'
      BY <2>1, IssueLInv DEF MintForUSDs, BridgeMint
    <2>2. ASSUME NEW c, NEW a \in Accounts, NEW n \in Amounts, BridgeBurn(c, a, n)
          PROVE  LInv'
      BY <1>0, <2>2, DestroyLInv DEF BridgeBurn
    <2>. QED  BY <1>2, <2>1, <2>2 DEF MinterStep
  <1>3. CASE OwnerStep
    <2>1. ASSUME NEW a \in Accounts, NEW n \in Amounts, NEW t \in 1..MaxTime,
                 TransferWithLock(a, n, t)
          PROVE  LInv'
      BY <2>1, LockLInv
    <2>2. ASSUME NEW a \in Accounts, NEW n \in Amounts, Release(a, n)
          PROVE  LInv'
      BY <2>2, ReleaseLInv
    <2>3. ASSUME NEW a \in Accounts, NEW allow \in BOOLEAN, SetMintable(a, allow)
          PROVE  LInv'
      <3>1. /\ mintableGroup' \in [Accounts -> BOOLEAN]
            /\ mintableAccounts' \in Seq(Accounts)
        BY <1>0, <2>3 DEF SetMintable, Recorded, TypeOK
      <3>. QED  BY <1>0, <2>3, <3>1
             DEF SetMintable, LInv, TypeOK, LocksAreFunded, ledger, switches
    <2>4. CASE RevokeAllMintable
      <3>1. mintableAccounts' = <<>> /\ <<>> \in Seq(Accounts)
        BY <2>4 DEF RevokeAllMintable
      <3>2. mintableGroup' \in [Accounts -> BOOLEAN]
        BY <1>0, <2>4, Zenon DEF RevokeAllMintable, TypeOK
      <3>. QED  BY <1>0, <2>4, <3>1, <3>2
             DEF RevokeAllMintable, LInv, TypeOK, LocksAreFunded, ledger, switches
    <2>5. CASE Pause \/ Unpause \/ MintPause \/ MintUnpause
      BY <1>0, <2>5 DEF Pause, Unpause, MintPause, MintUnpause, LInv, TypeOK,
                       LocksAreFunded, ledger, minters
    <2>6. ASSUME NEW g \in Gateways, ChangeArbToken(g)
          PROVE  LInv'
      BY <1>0, <2>6 DEF ChangeArbToken, LInv, TypeOK, LocksAreFunded, ledger, minters
    <2>. QED  BY <1>3, <2>1, <2>2, <2>3, <2>4, <2>5, <2>6 DEF OwnerStep
  <1>4. CASE Tick
    BY <1>0, <1>4 DEF Tick, LInv, TypeOK, LocksAreFunded, ledger, minters, switches
  <1>5. CASE UNCHANGED vars
    BY <1>0, <1>5 DEF vars, LInv, TypeOK, LocksAreFunded, ledger, minters, switches
  <1>. QED  BY <1>1, <1>2, <1>3, <1>4, <1>5 DEF Next

(* No balance, allowance, lock or supply goes below zero: in particular the *)
(* subtractions in _beforeTokenTransfer never underflow.                    *)
THEOREM TypeCorrect == Spec => []TypeOK
  <1>1. LInv => TypeOK
    BY DEF LInv
  <1>. QED  BY <1>1, InitLInv, NextLInv, PTL DEF Spec

(* Locked tokens are there: no call takes from an account what its lock     *)
(* says it keeps.                                                           *)
THEOREM LocksFunded == Spec => []LocksAreFunded
  <1>1. LInv => LocksAreFunded
    BY DEF LInv
  <1>. QED  BY <1>1, InitLInv, NextLInv, PTL DEF Spec

-----------------------------------------------------------------------------
(* The supply.                                                             *)

Held(b) == SumFunctionOnSet(b, Accounts)

(* Tokens that leave an account, arrive at one, or both.                    *)
LEMMA LeavingHeld ==
    ASSUME NEW b \in [Accounts -> Nat], NEW a \in Accounts, NEW n \in Nat, n <= b[a]
    PROVE  /\ [b EXCEPT ![a] = @ - n] \in [Accounts -> Nat]
           /\ Held([b EXCEPT ![a] = @ - n]) = Held(b) - n
           /\ Held(b) \in Nat
  <1>. DEFINE c == [b EXCEPT ![a] = @ - n]
  <1>1. c \in [Accounts -> Nat] /\ c[a] = b[a] - n /\ b[a] \in Nat
    OBVIOUS
  <1>2. \A y \in Accounts : b[y] \in Nat /\ c[y] \in Nat
    BY <1>1
  <1>3. \A y \in Accounts \ {a} : c[y] = b[y]
    OBVIOUS
  <1>4. Held(b) \in Nat
    BY <1>2, SumNat, SpaAssumption DEF Held
  <1>. HIDE DEF c
  <1>5. Held(c) = Held(b) + c[a] - b[a]
    BY <1>2, <1>3, SumChange, SpaAssumption DEF Held
  <1>6. Held(c) = Held(b) - n
    BY <1>1, <1>4, <1>5
  <1>. QED  BY <1>1, <1>4, <1>6 DEF c

LEMMA ArrivingHeld ==
    ASSUME NEW b \in [Accounts -> Nat], NEW a \in Accounts, NEW n \in Nat
    PROVE  /\ [b EXCEPT ![a] = @ + n] \in [Accounts -> Nat]
           /\ Held([b EXCEPT ![a] = @ + n]) = Held(b) + n
  <1>. DEFINE c == [b EXCEPT ![a] = @ + n]
  <1>1. c \in [Accounts -> Nat] /\ c[a] = b[a] + n /\ b[a] \in Nat
    OBVIOUS
  <1>2. \A y \in Accounts : b[y] \in Nat /\ c[y] \in Nat
    BY <1>1
  <1>3. \A y \in Accounts \ {a} : c[y] = b[y]
    OBVIOUS
  <1>4. Held(b) \in Nat
    BY <1>2, SumNat, SpaAssumption DEF Held
  <1>. HIDE DEF c
  <1>5. Held(c) = Held(b) + c[a] - b[a]
    BY <1>2, <1>3, SumChange, SpaAssumption DEF Held
  <1>6. Held(c) = Held(b) + n
    BY <1>1, <1>4, <1>5
  <1>. QED  BY <1>1, <1>6 DEF c

LEMMA MovingHeld ==
    ASSUME NEW b \in [Accounts -> Nat], NEW from \in Accounts, NEW to \in Accounts,
           NEW n \in Nat, n <= b[from]
    PROVE  /\ Moved(b, from, to, n) \in [Accounts -> Nat]
           /\ Held(Moved(b, from, to, n)) = Held(b)
  <1>1. PICK c \in [Accounts -> Nat] :
               /\ c = [b EXCEPT ![from] = @ - n]
               /\ Held(c) = Held(b) - n /\ Held(b) \in Nat
    BY LeavingHeld
  <1>2. Moved(b, from, to, n) = [c EXCEPT ![to] = @ + n]
    BY <1>1 DEF Moved
  <1>3. /\ [c EXCEPT ![to] = @ + n] \in [Accounts -> Nat]
        /\ Held([c EXCEPT ![to] = @ + n]) = Held(c) + n
    BY ArrivingHeld
  <1>4. Held(c) + n = Held(b)
    BY <1>1
  <1>. QED  BY <1>2, <1>3, <1>4

(* At deployment the owner holds the supply of L1, and nobody that of L2.   *)
LEMMA InitHeld == Init => SupplyIsHeld
  <1>. SUFFICES ASSUME Init  PROVE SupplyIsHeld
    OBVIOUS
  <1>. DEFINE none == [a \in Accounts |-> 0]
              n == IF Layer = "L1" THEN InitialSupply ELSE 0
  <1>1. none \in [Accounts -> Nat] /\ n \in Nat /\ Owner \in Accounts /\ none[Owner] = 0
    BY SpaAssumption
  <1>2. Held(none) = 0
    BY SumZero, SpaAssumption DEF Held
  <1>3. balances = [none EXCEPT ![Owner] = @ + n] /\ totalSupply = n
    <2>1. 0 + n = n
      BY <1>1
    <2>2. [none EXCEPT ![Owner] = @ + n] = [a \in Accounts |-> IF a = Owner THEN n ELSE 0]
      BY <1>1, <2>1
    <2>3. balances = [a \in Accounts |-> IF a = Owner THEN n ELSE 0] /\ totalSupply = n
      <3>1. CASE Layer = "L1"
        BY <3>1 DEF Init
      <3>2. CASE Layer # "L1"
        BY <3>2 DEF Init
      <3>. QED  BY <3>1, <3>2
    <2>. QED  BY <2>2, <2>3
  <1>. HIDE DEF none, n
  <1>4. Held(balances) = Held(none) + n
    BY <1>1, <1>3, ArrivingHeld
  <1>. QED  BY <1>1, <1>2, <1>3, <1>4 DEF SupplyIsHeld, Held

LEMMA NextHeld == TypeOK /\ SupplyIsHeld /\ [Next]_vars => SupplyIsHeld'
  <1>. SUFFICES ASSUME TypeOK, SupplyIsHeld, [Next]_vars  PROVE SupplyIsHeld'
    OBVIOUS
  <1>0. balances \in [Accounts -> Nat] /\ totalSupply = Held(balances) /\ Owner \in Accounts
    BY SpaAssumption DEF TypeOK, SupplyIsHeld, Held
  <1>1. ASSUME UNCHANGED <<balances, totalSupply>>  PROVE SupplyIsHeld'
    BY <1>1 DEF SupplyIsHeld
  <1>2. ASSUME totalSupply' = Held(balances')  PROVE SupplyIsHeld'
    BY <1>2 DEF SupplyIsHeld, Held
  <1>3. ASSUME NEW from \in Accounts, NEW to \in Accounts, NEW n \in Nat, n <= balances[from],
               balances' = Moved(balances, from, to, n), totalSupply' = totalSupply
        PROVE  SupplyIsHeld'
    BY <1>0, <1>2, <1>3, MovingHeld
  <1>4. ASSUME NEW a \in Accounts, NEW n \in Nat, issue(a, n)  PROVE SupplyIsHeld'
    BY <1>0, <1>2, <1>4, ArrivingHeld DEF issue
  <1>5. ASSUME NEW a \in Accounts, NEW n \in Nat, destroy(a, n)  PROVE SupplyIsHeld'
    BY <1>0, <1>2, <1>5, LeavingHeld DEF destroy, MayLeave
  <1>6. Amounts \subseteq Nat
    BY SpaAssumption
  <1>7. CASE HolderStep
    <2>1. ASSUME NEW from \in Accounts, NEW to \in Accounts, NEW n \in Amounts,
                 moveTokens(from, to, n)
          PROVE  SupplyIsHeld'
      BY <1>3, <1>6, <2>1 DEF moveTokens, MayLeave
    <2>2. ASSUME NEW from \in Accounts, NEW to1 \in Accounts, NEW to2 \in Accounts,
                 NEW n1 \in Amounts, NEW n2 \in Amounts,
                 BatchTransfer(from, to1, n1, to2, n2)
          PROVE  SupplyIsHeld'
      <3>. DEFINE b == Moved(balances, from, to1, n1)
      <3>1. /\ n1 <= balances[from] /\ n2 <= b[from]
            /\ balances' = Moved(b, from, to2, n2) /\ totalSupply' = totalSupply
        BY <2>2 DEF BatchTransfer, MayLeave
      <3>2. b \in [Accounts -> Nat] /\ Held(b) = Held(balances)
        BY <1>0, <1>6, <3>1, MovingHeld
      <3>. HIDE DEF b
      <3>3. Held(balances') = Held(b)
        BY <1>6, <3>1, <3>2, MovingHeld
      <3>. QED  BY <1>0, <1>2, <3>1, <3>2, <3>3
    <2>3. \/ UNCHANGED <<balances, totalSupply>>
          \/ \E a, b \in Accounts, n \in Amounts : moveTokens(a, b, n) \/ destroy(a, n)
          \/ \E a, b, d \in Accounts, m, n \in Amounts : BatchTransfer(a, b, m, d, n)
      BY <1>7 DEF HolderStep, Transfer, BurnFrom, Approve, TransferFrom, Burn
    <2>. QED  BY <1>1, <1>5, <1>6, <2>1, <2>2, <2>3
  <1>8. CASE MinterStep
    <2>1. \E a \in Accounts, n \in Amounts : issue(a, n) \/ destroy(a, n)
      BY <1>8 DEF MinterStep, MintForUSDs, BridgeMint, BridgeBurn
    <2>. QED  BY <1>4, <1>5, <1>6, <2>1
  <1>9. CASE OwnerStep
    <2>1. ASSUME NEW a \in Accounts, NEW n \in Amounts, NEW t, TransferWithLock(a, n, t)
          PROVE  SupplyIsHeld'
      BY <1>0, <1>3, <1>6, <2>1 DEF TransferWithLock, MayLeave
    <2>2. \/ UNCHANGED <<balances, totalSupply>>
          \/ \E a \in Accounts, n \in Amounts, t \in 1 .. MaxTime : TransferWithLock(a, n, t)
      BY <1>9 DEF OwnerStep, Release, SetMintable, RevokeAllMintable, Pause, Unpause,
                  MintPause, MintUnpause, ChangeArbToken, ledger
    <2>. QED  BY <1>1, <2>1, <2>2
  <1>10. CASE Tick \/ UNCHANGED vars
    BY <1>1, <1>10 DEF Tick, vars, ledger
  <1>. QED  BY <1>7, <1>8, <1>9, <1>10 DEF Next

(* The supply is the sum of the balances after any mints, burns, batches    *)
(* and locked transfers, of any number of accounts.                         *)
THEOREM SupplyHeld == Spec => []SupplyIsHeld
  BY InitHeld, TypeCorrect, NextHeld, PTL DEF Spec

-----------------------------------------------------------------------------
(* The minters.                                                            *)

LEMMA NextReaches ==
    TypeOK /\ RevocationReachesAll /\ [Next]_vars => RevocationReachesAll'
  <1>. SUFFICES ASSUME TypeOK, RevocationReachesAll, [Next]_vars
                PROVE  RevocationReachesAll'
    OBVIOUS
  <1>1. ASSUME UNCHANGED minters PROVE RevocationReachesAll'
    BY <1>1 DEF minters, RevocationReachesAll
  <1>2. ASSUME NEW a \in Accounts, NEW allow \in BOOLEAN, SetMintable(a, allow)
        PROVE  RevocationReachesAll'
    <2>1. /\ mintableAccounts \in Seq(Accounts)
          /\ mintableGroup \in [Accounts -> BOOLEAN]
          /\ mintableGroup' = [mintableGroup EXCEPT ![a] = allow]
          /\ mintableAccounts' = Append(mintableAccounts, a)
      BY <1>2 DEF TypeOK, SetMintable, Recorded
    <2>2. /\ a \in Range(mintableAccounts')
          /\ Range(mintableAccounts) \subseteq Range(mintableAccounts')
      BY <2>1, AppendProperties DEF Range
    <2>. QED  BY <2>1, <2>2 DEF RevocationReachesAll
  <1>3. CASE RevokeAllMintable
    BY <1>3 DEF RevokeAllMintable, RevocationReachesAll
  <1>4. CASE HolderStep \/ MinterStep \/ Tick \/ UNCHANGED vars
    <2>1. UNCHANGED minters
      BY <1>4 DEF HolderStep, MinterStep, Tick, vars, Transfer, TransferFrom,
                  Approve, BatchTransfer, BurnFrom, Burn, destroy, MintForUSDs,
                  issue, BridgeMint, BridgeBurn
    <2>. QED  BY <1>1, <2>1
  <1>5. CASE OwnerStep
    <2>1. \/ UNCHANGED minters \/ RevokeAllMintable
          \/ \E a \in Accounts, allow \in BOOLEAN : SetMintable(a, allow)
      BY <1>5 DEF OwnerStep, TransferWithLock, Release, Pause, Unpause,
                  MintPause, MintUnpause, ChangeArbToken
    <2>. QED  BY <1>1, <1>2, <1>3, <2>1
  <1>. QED  BY <1>4, <1>5 DEF Next

(* One call of revokeAllMintable leaves no minter, whatever the order in    *)
(* which accounts were set and removed.                                     *)
THEOREM RevocationComplete == Spec => []RevocationReachesAll
  <1>1. Init => RevocationReachesAll
    BY DEF Init, RevocationReachesAll
  <1>. QED  BY <1>1, TypeCorrect, NextReaches, PTL DEF Spec

-----------------------------------------------------------------------------
(* Locks before their release time.                                        *)

(* Every lock of k whose time has not come is the same in k2.               *)
Kept(k, k2) == \A a \in Accounts : k[a].releaseTime > now => k2[a] = k[a]

LEMMA LeavingKeepsTime ==
    ASSUME now \in Nat, NEW b, NEW k \in Locks, NEW from \in Accounts, NEW n,
           MayLeave(b, k, from, n)
    PROVE  Kept(k, LocksAfter(b, k, from, n))
  <1>1. k[from].releaseTime \in Nat
    BY DEF Locks
  <1>2. CASE Triggers(b, k, from, n)
    BY <1>1, <1>2 DEF MayLeave, LocksAfter, Kept, Locks
  <1>3. CASE ~Triggers(b, k, from, n)
    BY <1>3 DEF LocksAfter, Kept
  <1>. QED  BY <1>2, <1>3

LEMMA StepKeepsTime ==
    ASSUME LInv, [Next]_vars
    PROVE  \/ Kept(timelock, timelock')
           \/ \E a \in Accounts, n \in Amounts :
                 /\ Release(a, n)
                 /\ \A x \in Accounts \ {a} : timelock'[x] = timelock[x]
  <1>. USE SpaAssumption
  <1>0. /\ now \in Nat /\ timelock \in Locks /\ balances \in [Accounts -> Nat]
        /\ Covered(balances, timelock)
    BY InvIsCovered DEF LInv, TypeOK
  <1>1. ASSUME UNCHANGED timelock PROVE Kept(timelock, timelock')
    BY <1>1 DEF Kept
  <1>2. ASSUME NEW a \in Accounts, NEW b \in Accounts, NEW n \in Amounts,
               moveTokens(a, b, n) \/ destroy(a, n)
        PROVE  Kept(timelock, timelock')
    BY <1>0, <1>2, LeavingKeepsTime DEF moveTokens, destroy
  <1>3. ASSUME NEW a \in Accounts, NEW b \in Accounts, NEW d \in Accounts,
               NEW m \in Amounts, NEW n \in Amounts, BatchTransfer(a, b, m, d, n)
        PROVE  Kept(timelock, timelock')
    <2>. DEFINE b2 == Moved(balances, a, b, m)
                k2 == LocksAfter(balances, timelock, a, m)
    <2>1. /\ MayLeave(balances, timelock, a, m) /\ MayLeave(b2, k2, a, n)
          /\ timelock' = LocksAfter(b2, k2, a, n)
      BY <1>3 DEF BatchTransfer
    <2>2. k2 \in Locks
      BY <1>0, <2>1, MovingKeepsLocks DEF MayLeave
    <2>3. Kept(timelock, k2)
      BY <1>0, <2>1, LeavingKeepsTime
    <2>. HIDE DEF b2, k2
    <2>4. Kept(k2, timelock')
      BY <1>0, <2>1, <2>2, LeavingKeepsTime
    <2>. QED  BY <2>3, <2>4 DEF Kept
  <1>4. ASSUME NEW a \in Accounts, NEW n \in Amounts, NEW t \in 1..MaxTime,
               TransferWithLock(a, n, t)
        PROVE  Kept(timelock, timelock')
    <2>. DEFINE k2 == [timelock EXCEPT ![a] = [releaseTime |-> t, amount |-> n]]
    <2>1. /\ timelock[a].releaseTime = 0
          /\ MayLeave(balances, k2, Owner, n)
          /\ timelock' = LocksAfter(balances, k2, Owner, n)
      BY <1>4 DEF TransferWithLock
    <2>2. k2 \in Locks
      BY <1>0 DEF Locks
    <2>3. Kept(timelock, k2)
      BY <1>0, <2>1 DEF Kept, Locks
    <2>. HIDE DEF k2
    <2>4. Kept(k2, timelock')
      BY <1>0, <2>1, <2>2, LeavingKeepsTime
    <2>. QED  BY <2>3, <2>4 DEF Kept
  <1>5. ASSUME NEW a \in Accounts, NEW n \in Amounts, Release(a, n)
        PROVE  \A x \in Accounts \ {a} : timelock'[x] = timelock[x]
    BY <1>0, <1>5 DEF Release, Locks
  <1>6. CASE HolderStep
    <2>1. \/ UNCHANGED timelock
          \/ \E a, b \in Accounts, n \in Amounts :
                moveTokens(a, b, n) \/ destroy(a, n)
          \/ \E a, b, d \in Accounts, m, n \in Amounts :
                BatchTransfer(a, b, m, d, n)
      BY <1>6 DEF HolderStep, Transfer, TransferFrom, Approve, Burn, BurnFrom
    <2>. QED  BY <1>1, <1>2, <1>3, <2>1
  <1>7. CASE MinterStep
    <2>1. \/ UNCHANGED timelock
          \/ \E a \in Accounts, n \in Amounts : destroy(a, n)
      BY <1>7 DEF MinterStep, MintForUSDs, BridgeMint, BridgeBurn, issue
    <2>. QED  BY <1>1, <1>2, <2>1
  <1>8. CASE OwnerStep
    <2>1. \/ UNCHANGED timelock
          \/ \E a \in Accounts, n \in Amounts : Release(a, n)
          \/ \E a \in Accounts, n \in Amounts, t \in 1..MaxTime :
                TransferWithLock(a, n, t)
      BY <1>8 DEF OwnerStep, SetMintable, RevokeAllMintable, Pause, Unpause,
                  MintPause, MintUnpause, ChangeArbToken, ledger
    <2>. QED  BY <1>1, <1>4, <1>5, <2>1
  <1>9. CASE Tick \/ UNCHANGED vars
    BY <1>1, <1>9 DEF Tick, vars, ledger
  <1>. QED  BY <1>6, <1>7, <1>8, <1>9 DEF Next

(* Until its time comes a lock changes only when the owner releases it: no  *)
(* batch, burn or second locked transfer gets round it.                     *)
THEOREM LocksLast == Spec => LockedUntilRelease
  <1>. DEFINE A == \A a \in Accounts :
                      timelock[a].releaseTime > now /\ timelock'[a] # timelock[a]
                         => \E n \in Amounts : Release(a, n)
  <1>1. ASSUME LInv, [Next]_vars PROVE A
    <2>1. CASE Kept(timelock, timelock')
      BY <2>1 DEF Kept
    <2>2. ASSUME NEW a \in Accounts, NEW n \in Amounts, Release(a, n),
                 \A x \in Accounts \ {a} : timelock'[x] = timelock[x]
          PROVE  A
      BY <2>2
    <2>. QED  BY <1>1, <2>1, <2>2, StepKeepsTime
  <1>2. LInv /\ [Next]_vars => [A]_vars
    BY <1>1
  <1>. HIDE DEF A
  <1>3. Spec => [][A]_vars
    BY <1>2, InitLInv, NextLInv, PTL DEF Spec
  <1>. QED  BY <1>3 DEF LockedUntilRelease, A
=============================================================================
