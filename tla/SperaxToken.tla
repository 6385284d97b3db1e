---------------------------- MODULE SperaxToken ----------------------------
(***************************************************************************)
(* SPA: contracts/token/SperaxTokenL2.sol on Arbitrum and, where Layer is  *)
(* "L1", contracts/token/SperaxToken.sol on Ethereum.  An ERC-20 whose     *)
(* owner can send tokens under a time lock, stop every movement, stop      *)
(* minting for USDs, and admit or revoke the accounts that may mint.       *)
(*                                                                         *)
(* The two contracts differ in what is left of a lock that has matured, in *)
(* the bridge functions, which only L2 has, and in the initial supply,     *)
(* which only L1 has.  The ERC-20 base class is OpenZeppelin's.            *)
(***************************************************************************)
EXTENDS Integers, Sequences, FiniteSets, Functions

CONSTANTS
    Layers,         \* {"L1", "L2"}, or one of them
    Accounts,       \* addresses other than zero
    Owner,          \* the owner, one of Accounts
    Gateways,       \* addresses the owner may install as the L2 gateway
    InitialSupply,  \* minted to the owner on L1
    Amounts,        \* amounts a caller may pass
    Approvals,      \* amounts a holder may approve
    MaxSupply,      \* bound of the model on totalSupply
    MaxTime,        \* bound of the model on block.timestamp
    MaxRecords      \* bound of the model on the length of mintableAccounts

ASSUME SpaAssumption ==
    /\ Layers \subseteq {"L1", "L2"} /\ IsFiniteSet(Accounts) /\ Owner \in Accounts
    /\ InitialSupply \in Nat /\ Amounts \cup Approvals \subseteq Nat
    /\ {MaxSupply, MaxTime, MaxRecords} \subseteq Nat

VARIABLES
    balances, allowances, totalSupply,
    timelock,          \* [releaseTime, amount] of each account
    mintableGroup,     \* who may call mintForUSDs
    mintableAccounts,  \* the record that revokeAllMintable walks
    paused, mintPaused, l2Gateway,
    now,               \* block.timestamp
    Layer              \* which of the two contracts; never changes

ledger == <<balances, allowances, totalSupply, timelock>>
minters == <<mintableGroup, mintableAccounts>>
switches == <<paused, mintPaused, l2Gateway>>
vars == <<ledger, minters, switches, now, Layer>>

NoLock == [releaseTime |-> 0, amount |-> 0]

Init ==
    /\ Layer \in Layers
    /\ balances = [a \in Accounts |->
                      IF Layer = "L1" /\ a = Owner THEN InitialSupply ELSE 0]
    /\ allowances = [o \in Accounts |-> [s \in Accounts |-> 0]]
    /\ totalSupply = IF Layer = "L1" THEN InitialSupply ELSE 0
    /\ timelock = [a \in Accounts |-> NoLock]
    /\ mintableGroup = [a \in Accounts |-> FALSE]
    /\ mintableAccounts = <<>>
    /\ paused = FALSE /\ mintPaused = FALSE
    /\ l2Gateway \in Gateways
    /\ now = 1

-----------------------------------------------------------------------------
(* _beforeTokenTransfer, on balances b and locks k: tokens may leave an    *)
(* account if nothing is paused and the locked amount stays, or its time   *)
(* has come; a lock that is cut into is then cleared (L2) or shrunk to     *)
(* what is left (L1).                                                      *)

TriggersLate(b, k, from, n) ==    \* mutated: looks at the balance before
    k[from].releaseTime # 0 /\ b[from] < k[from].amount
Triggers(b, k, from, n) ==
    k[from].releaseTime # 0 /\ b[from] - n < k[from].amount

MayLeaveAnyTime(b, k, from, n) == ~paused /\ n <= b[from]   \* mutated
MayLeave(b, k, from, n) ==
    /\ ~paused
    /\ n <= b[from]
    /\ Triggers(b, k, from, n) => now >= k[from].releaseTime

MaturedLock(k, from, rest) ==
    IF Layer = "L2" \/ rest = 0 THEN NoLock
    ELSE [releaseTime |-> k[from].releaseTime, amount |-> rest]

LocksAfter(b, k, from, n) ==
    IF Triggers(b, k, from, n)
    THEN [k EXCEPT ![from] = MaturedLock(k, from, b[from] - n)] ELSE k

(* Debit, then credit: a transfer to oneself changes nothing.               *)
MovedFromStale(b, from, to, n) ==    \* mutated: credits the balance read first
    [[b EXCEPT ![from] = @ - n] EXCEPT ![to] = b[to] + n]
Moved(b, from, to, n) ==
    [[b EXCEPT ![from] = @ - n] EXCEPT ![to] = @ + n]

-----------------------------------------------------------------------------
(* The ERC-20 interface.                                                   *)

moveTokens(from, to, n) ==
    /\ MayLeave(balances, timelock, from, n)
    /\ balances' = Moved(balances, from, to, n)
    /\ timelock' = LocksAfter(balances, timelock, from, n)
    /\ UNCHANGED totalSupply

Transfer(from, to, n) ==
    /\ moveTokens(from, to, n)
    /\ UNCHANGED <<allowances, minters, switches, now>>

TransferFrom(spender, from, to, n) ==
    /\ n <= allowances[from][spender]
    /\ allowances' = [allowances EXCEPT ![from][spender] = @ - n]
    /\ moveTokens(from, to, n)
    /\ UNCHANGED <<minters, switches, now>>

Approve(o, s, n) ==
    /\ allowances' = [allowances EXCEPT ![o][s] = n]
    /\ UNCHANGED <<balances, totalSupply, timelock, minters, switches, now>>

(* batchTransfer with two recipients: all or nothing, the second transfer  *)
(* on the balances and locks the first one left.                           *)
BatchTransfer(from, to1, n1, to2, n2) ==
    LET b == Moved(balances, from, to1, n1)
        k == LocksAfter(balances, timelock, from, n1)
    IN  /\ MayLeave(balances, timelock, from, n1)
        /\ MayLeave(b, k, from, n2)
        /\ balances' = Moved(b, from, to2, n2)
        /\ timelock' = LocksAfter(b, k, from, n2)
        /\ UNCHANGED <<allowances, totalSupply, minters, switches, now>>

-----------------------------------------------------------------------------
(* Minting and burning.                                                    *)

issue(account, n) ==
    /\ ~paused
    /\ totalSupply + n <= MaxSupply
    /\ balances' = [balances EXCEPT ![account] = @ + n]
    /\ totalSupply' = totalSupply + n
    /\ UNCHANGED <<allowances, timelock, minters, switches, now>>

destroy(account, n) ==
    /\ MayLeave(balances, timelock, account, n)
    /\ n <= totalSupply
    /\ balances' = [balances EXCEPT ![account] = @ - n]
    /\ timelock' = LocksAfter(balances, timelock, account, n)
    /\ totalSupply' = totalSupply - n
    /\ UNCHANGED <<minters, switches, now>>

MintForUSDs(caller, account, n) ==
    /\ ~mintPaused
    /\ mintableGroup[caller]
    /\ issue(account, n)

Burn(account, n) == destroy(account, n) /\ UNCHANGED allowances

BurnFrom(spender, account, n) ==
    /\ n <= allowances[account][spender]
    /\ allowances' = [allowances EXCEPT ![account][spender] = @ - n]
    /\ destroy(account, n)

BridgeMint(caller, account, n) ==
    /\ Layer = "L2" /\ caller = l2Gateway
    /\ issue(account, n)

BridgeBurn(caller, account, n) ==
    /\ Layer = "L2" /\ caller = l2Gateway
    /\ destroy(account, n)
    /\ UNCHANGED allowances

-----------------------------------------------------------------------------
(* The owner.                                                              *)

(* The lock is written before the tokens are moved under it, so an owner   *)
(* that locks its own tokens must own the amount twice.                    *)
TransferWithLock(recipient, n, releaseTime) ==
    LET k == [timelock EXCEPT ![recipient] =
                 [releaseTime |-> releaseTime, amount |-> n]]
    IN  /\ releaseTime > now
        /\ timelock[recipient].releaseTime = 0
        /\ MayLeave(balances, k, Owner, n)
        /\ balances' = Moved(balances, Owner, recipient, n)
        /\ timelock' = LocksAfter(balances, k, Owner, n)
        /\ UNCHANGED <<allowances, totalSupply, minters, switches, now>>

Release(account, n) ==
    LET rest == timelock[account].amount - n
    IN  /\ n <= timelock[account].amount
        /\ timelock' = [timelock EXCEPT ![account] =
                [releaseTime |-> IF rest = 0 THEN 0 ELSE @.releaseTime,
                 amount |-> rest]]
        /\ UNCHANGED <<balances, allowances, totalSupply, minters, switches, now>>

RecordedIfRemoved(record, a, allow) ==    \* mutated
    IF allow THEN record ELSE Append(record, a)
Recorded(record, a, allow) == Append(record, a)

(* Every call is recorded, a removal and a repetition too.                  *)
SetMintable(a, allow) ==
    /\ Len(mintableAccounts) < MaxRecords
    /\ mintableGroup' = [mintableGroup EXCEPT ![a] = allow]
    /\ mintableAccounts' = Recorded(mintableAccounts, a, allow)
    /\ UNCHANGED <<ledger, switches, now>>

RevokeAllMintable ==
    /\ mintableGroup' = [a \in Accounts |->
            IF a \in Range(mintableAccounts) THEN FALSE ELSE mintableGroup[a]]
    /\ mintableAccounts' = <<>>
    /\ UNCHANGED <<ledger, switches, now>>

Pause == ~paused /\ paused' = TRUE
            /\ UNCHANGED <<ledger, minters, mintPaused, l2Gateway, now>>
Unpause == paused /\ paused' = FALSE
            /\ UNCHANGED <<ledger, minters, mintPaused, l2Gateway, now>>
MintPause == ~mintPaused /\ mintPaused' = TRUE
            /\ UNCHANGED <<ledger, minters, paused, l2Gateway, now>>
MintUnpause == mintPaused /\ mintPaused' = FALSE
            /\ UNCHANGED <<ledger, minters, paused, l2Gateway, now>>

ChangeArbToken(g) ==
    /\ Layer = "L2"
    /\ l2Gateway' = g
    /\ UNCHANGED <<ledger, minters, paused, mintPaused, now>>

(* The environment: a later block.                                          *)
Tick ==
    /\ now < MaxTime
    /\ now' = now + 1
    /\ UNCHANGED <<ledger, minters, switches>>

-----------------------------------------------------------------------------
HolderStep ==
    \/ \E a, b \in Accounts, n \in Amounts :
          Transfer(a, b, n) \/ BurnFrom(a, b, n)
    \/ \E a, b \in Accounts, n \in Approvals : Approve(a, b, n)
    \/ \E s, a, b \in Accounts, n \in Amounts : TransferFrom(s, a, b, n)
    \/ \E a, b, d \in Accounts, m, n \in Amounts : BatchTransfer(a, b, m, d, n)
    \/ \E a \in Accounts, n \in Amounts : Burn(a, n)

MinterStep ==
    \E a \in Accounts, n \in Amounts :
       \/ \E c \in Accounts : MintForUSDs(c, a, n)
       \/ \E c \in Gateways : BridgeMint(c, a, n) \/ BridgeBurn(c, a, n)

OwnerStep ==
    \/ \E a \in Accounts, n \in Amounts, t \in 1..MaxTime :
          TransferWithLock(a, n, t)
    \/ \E a \in Accounts, n \in Amounts : Release(a, n)
    \/ \E a \in Accounts, allow \in BOOLEAN : SetMintable(a, allow)
    \/ RevokeAllMintable
    \/ Pause \/ Unpause \/ MintPause \/ MintUnpause
    \/ \E g \in Gateways : ChangeArbToken(g)

Next == (HolderStep \/ MinterStep \/ OwnerStep \/ Tick) /\ UNCHANGED Layer

Spec == Init /\ [][Next]_vars

-----------------------------------------------------------------------------
(* Properties.                                                             *)

(* Balances, locks, allowances and the record stay in their types: nothing *)
(* is spent below zero.                                                    *)
TypeOK ==
    /\ balances \in [Accounts -> Nat] /\ totalSupply \in Nat
    /\ allowances \in [Accounts -> [Accounts -> Nat]]
    /\ timelock \in [Accounts -> [releaseTime : Nat, amount : Nat]]
    /\ mintableGroup \in [Accounts -> BOOLEAN]
    /\ mintableAccounts \in Seq(Accounts)
    /\ paused \in BOOLEAN /\ mintPaused \in BOOLEAN
    /\ l2Gateway \in Gateways /\ now \in Nat

(* The supply is what the accounts hold: no mint, burn, locked transfer or *)
(* batch, in which a holder may name itself, creates or loses tokens.      *)
SupplyIsHeld == totalSupply = SumFunctionOnSet(balances, Accounts)

(* A lock is always covered by the account's balance, and an account       *)
(* without a release time has nothing locked: no transfer, batch, burn by  *)
(* the holder, a spender or the gateway takes locked tokens                *)
(* (_beforeTokenTransfer), and a new lock comes with its tokens.           *)
LocksAreFunded ==
    \A a \in Accounts :
       /\ timelock[a].amount <= balances[a]
       /\ timelock[a].releaseTime = 0 => timelock[a].amount = 0

(* Before its release time a lock is lifted or lowered by the owner's      *)
(* release and by nothing else, a second locked transfer included.         *)
LockedUntilRelease ==
    [][\A a \in Accounts :
          timelock[a].releaseTime > now /\ timelock'[a] # timelock[a]
             => \E n \in Amounts : Release(a, n)]_vars

(* Whoever may mint is on the record that revokeAllMintable walks, so one  *)
(* call revokes everybody, whatever was set, removed and set again before. *)
RevocationReachesAll ==
    \A a \in Accounts : mintableGroup[a] => a \in Range(mintableAccounts)
=============================================================================
