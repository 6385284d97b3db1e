---------------------------- MODULE TokenBridge ----------------------------
(***************************************************************************)
(* SPA between Ethereum and Arbitrum.  On L1 SPA is wrapped by             *)
(* SperaxTokenL1 and escrowed by L1CustomGateway; on L2 L2CustomGateway    *)
(* mints and burns SperaxTokenL2, which VaultCore mints and burns too.     *)
(*                                                                         *)
(* The layers exchange messages.  A retryable ticket to L2 is redeemed     *)
(* once, by anybody, in any order, or expires; one whose execution reverts *)
(* stays.  An exit to L1 is executed once through the outbox, by anybody,  *)
(* in any order, and never expires; one whose execution reverts stays.     *)
(*                                                                         *)
(* Users come to the gateways through routers that are set up (their       *)
(* wiring is the subject of BridgeScripts).  Exit numbers start at 1.      *)
(***************************************************************************)
EXTENDS Integers, Sequences, FiniteSets, Functions

CONSTANTS
    Users, NoOne,              \* accounts; no redirection
    Amounts, Stake,            \* amounts of one call; SPA each account has on L1
    SPA, L2Addresses, NoToken, \* SperaxTokenL2; what may be registered; address(0)
    MaxTickets, MaxWithdrawals, MaxIssued,    \* bounds
    Traded, Settings           \* exits that change hands; what changeArbToken is called with

ASSUME BridgeAssumption ==
    /\ IsFiniteSet(Users) /\ NoOne \notin Users /\ Amounts \subseteq Nat \ {0} /\ Stake \in [Users -> Nat]
    /\ SPA \in L2Addresses /\ NoToken \notin L2Addresses
    /\ {MaxTickets, MaxWithdrawals, MaxIssued} \subseteq Nat
    /\ Settings \subseteq BOOLEAN \X BOOLEAN
    /\ Traded \subseteq (1 .. MaxTickets + MaxWithdrawals) \X Users

VARIABLES
    spa, wspa, escrow,         \* L1: SPA, wrapped SPA, and that of the gateway
    l1Token, l2Token,          \* l1ToL2Token of the gateways, for wrapped SPA
    balance,                   \* L2: SperaxTokenL2
    issued,                    \* history: minted less burnt on L2 by others than the gateway
    trusts, claims,            \* SperaxTokenL2: is its l2Gateway this one; its l1Address wrapped SPA
    tickets,                   \* retryable tickets, by sequence number
    exits,                     \* messages to L1, by exitNum
    redirect                   \* redirectedExits

l1Vars == <<spa, wspa, escrow>>
l2Vars == <<balance, issued>>
settings == <<trusts, claims>>
vars == <<l1Vars, l1Token, l2Token, l2Vars, settings, tickets, exits, redirect>>

TicketNos == 1 .. MaxTickets
MaxExits == MaxTickets + MaxWithdrawals    \* every ticket may be turned back
ExitNos == 1 .. MaxExits
Deposit == [about : {"deposit"}, state : {"open", "minted", "bounced", "expired"},
            from : Users, to : Users, amount : Amounts, exit : ExitNos \cup {0}]
Registration == [about : {"token"}, state : {"open", "redeemed", "expired"},
                 token : L2Addresses]
Exit == [to : Users, amount : Amounts, paid : BOOLEAN, bounced : BOOLEAN]

Init ==
    /\ spa = Stake /\ wspa = [u \in Users |-> 0] /\ escrow = 0
    /\ l1Token = NoToken /\ l2Token = NoToken
    /\ balance = [u \in Users |-> 0] /\ issued = 0
    /\ trusts = TRUE /\ claims = TRUE
    /\ tickets = <<>> /\ exits = <<>>
    /\ redirect = [c \in ExitNos \X Users |-> NoOne]

-----------------------------------------------------------------------------
(* SperaxTokenL1 and SperaxTokenL2.                                        *)

\* mint burns SPA and mints as much wrapped SPA, burn is the reverse.
Wrap(u, n) ==
    /\ n <= spa[u]
    /\ spa' = [spa EXCEPT ![u] = @ - n] /\ wspa' = [wspa EXCEPT ![u] = @ + n]
    /\ UNCHANGED <<escrow, l1Token, l2Token, l2Vars, settings, tickets, exits, redirect>>

Unwrap(u, n) ==
    /\ n <= wspa[u]
    /\ spa' = [spa EXCEPT ![u] = @ + n] /\ wspa' = [wspa EXCEPT ![u] = @ - n]
    /\ UNCHANGED <<escrow, l1Token, l2Token, l2Vars, settings, tickets, exits, redirect>>

\* mintForUSDs and burn: VaultCore pays and takes SPA on L2.
IssueOnL2(u, n) ==
    /\ issued + n <= MaxIssued
    /\ balance' = [balance EXCEPT ![u] = @ + n] /\ issued' = issued + n
    /\ UNCHANGED <<l1Vars, l1Token, l2Token, settings, tickets, exits, redirect>>

BurnOnL2(u, n) ==
    /\ n <= balance[u]
    /\ balance' = [balance EXCEPT ![u] = @ - n] /\ issued' = issued - n
    /\ UNCHANGED <<l1Vars, l1Token, l2Token, settings, tickets, exits, redirect>>

\* SperaxTokenL2.changeArbToken.
ChangeArbToken(gateway, l1Address) ==
    /\ <<gateway, l1Address>> # settings
    /\ trusts' = gateway /\ claims' = l1Address
    /\ UNCHANGED <<l1Vars, l1Token, l2Token, l2Vars, tickets, exits, redirect>>

-----------------------------------------------------------------------------
(* Registration.                                                           *)

Register(a) ==
    /\ Len(tickets) < MaxTickets
    /\ l1Token' = a
    /\ tickets' = Append(tickets, [about |-> "token", state |-> "open", token |-> a])
    /\ UNCHANGED <<l1Vars, l2Token, l2Vars, settings, exits, redirect>>

\* registerTokenToL2, called by the token: no change of a mapping that is set.
RegisterTokenToL2(a) == l1Token \in {NoToken, a} /\ Register(a)

\* forceRegisterTokenToL2, called by the gateway's owner.
ForceRegisterTokenToL2(a) == Register(a)

Open(i, about) == i \in DOMAIN tickets /\ tickets[i].about = about /\ tickets[i].state = "open"

\* L2CustomGateway.registerTokenFromL1.
RegisterTokenFromL1(i) ==
    /\ Open(i, "token")
    /\ l2Token' = tickets[i].token
    /\ tickets' = [tickets EXCEPT ![i].state = "redeemed"]
    /\ UNCHANGED <<l1Vars, l1Token, l2Vars, settings, exits, redirect>>

Expire(i) ==
    /\ i \in DOMAIN tickets /\ tickets[i].state = "open"
    /\ tickets' = [tickets EXCEPT ![i].state = "expired"]
    /\ UNCHANGED <<l1Vars, l1Token, l2Token, l2Vars, settings, exits, redirect>>

-----------------------------------------------------------------------------
(* Deposits.                                                               *)

\* L1CustomGateway.outboundTransfer.
OutboundToL2(u, v, n) ==
    /\ l1Token # NoToken /\ n <= wspa[u] /\ Len(tickets) < MaxTickets
    /\ wspa' = [wspa EXCEPT ![u] = @ - n] /\ escrow' = escrow + n
    /\ tickets' = Append(tickets, [about |-> "deposit", state |-> "open", from |-> u,
                                   to |-> v, amount |-> n, exit |-> 0])
    /\ UNCHANGED <<spa, l1Token, l2Token, l2Vars, settings, exits, redirect>>

\* L2CustomGateway.finalizeInboundTransfer mints where the registered token is a
\* contract that names the L1 token; bridgeMint reverts if the token trusts
\* another gateway.  Otherwise triggerWithdrawal sends the amount back to the sender.
Expected == l2Token = SPA /\ claims

Deliver(i) ==
    /\ Open(i, "deposit") /\ Expected /\ trusts
    /\ balance' = [balance EXCEPT ![tickets[i].to] = @ + tickets[i].amount]
    /\ tickets' = [tickets EXCEPT ![i].state = "minted"]
    /\ UNCHANGED <<l1Vars, l1Token, l2Token, issued, settings, exits, redirect>>

\* Mutated: no return after triggerWithdrawal.
BounceAndMint(i) ==
    /\ Open(i, "deposit") /\ ~Expected /\ trusts
    /\ exits' = Append(exits, [to |-> tickets[i].from, amount |-> tickets[i].amount,
                               paid |-> FALSE, bounced |-> TRUE])
    /\ balance' = [balance EXCEPT ![tickets[i].to] = @ + tickets[i].amount]
    /\ tickets' = [tickets EXCEPT ![i].state = "bounced", ![i].exit = Len(exits) + 1]
    /\ UNCHANGED <<l1Vars, l1Token, l2Token, issued, settings, redirect>>
Bounce(i) ==
    /\ Open(i, "deposit") /\ ~Expected /\ Len(exits) < MaxExits
    /\ exits' = Append(exits, [to |-> tickets[i].from, amount |-> tickets[i].amount,
                               paid |-> FALSE, bounced |-> TRUE])
    /\ tickets' = [tickets EXCEPT ![i].state = "bounced", ![i].exit = Len(exits) + 1]
    /\ UNCHANGED <<l1Vars, l1Token, l2Token, l2Vars, settings, redirect>>

-----------------------------------------------------------------------------
(* Withdrawals.                                                            *)

\* L2CustomGateway.outboundTransfer; bridgeBurn reverts if the token trusts
\* another gateway.
\* Mutated: bridgeBurn does not look at the balance.
OutboundUnchecked(u, v, n) ==
    /\ Expected /\ trusts
    /\ Cardinality({j \in DOMAIN exits : ~exits[j].bounced}) < MaxWithdrawals
    /\ balance' = [balance EXCEPT ![u] = @ - n]
    /\ exits' = Append(exits, [to |-> v, amount |-> n, paid |-> FALSE, bounced |-> FALSE])
    /\ UNCHANGED <<l1Vars, l1Token, l2Token, issued, settings, tickets, redirect>>
OutboundToL1(u, v, n) ==
    /\ Expected /\ trusts /\ n <= balance[u] /\ Len(exits) < MaxExits
    /\ Cardinality({j \in DOMAIN exits : ~exits[j].bounced}) < MaxWithdrawals
    /\ balance' = [balance EXCEPT ![u] = @ - n]
    /\ exits' = Append(exits, [to |-> v, amount |-> n, paid |-> FALSE, bounced |-> FALSE])
    /\ UNCHANGED <<l1Vars, l1Token, l2Token, issued, settings, tickets, redirect>>

\* L1ArbitrumExtendedGateway.getExternalCall.
Holder(k, u) == IF redirect[<<k, u>>] # NoOne THEN redirect[<<k, u>>] ELSE u

\* transferExitAndCall; the caller must be Holder(k, u), so that there is just one who
\* can call; it is not looked at whether the exit has been executed, or exists.
TransferExit(k, u, v) ==
    /\ <<k, u>> \in Traded
    /\ redirect' = [redirect EXCEPT ![<<k, u>>] = v]
    /\ UNCHANGED <<l1Vars, l1Token, l2Token, l2Vars, settings, tickets, exits>>

\* The outbox executes an exit once: finalizeInboundTransfer releases the amount
\* from the escrow; if the escrow is short everything reverts.
\* Mutated: a redirection is not looked up; the escrow must exceed the amount.
ExecuteToFirst(j) ==
    /\ j \in DOMAIN exits /\ ~exits[j].paid /\ exits[j].amount <= escrow
    /\ escrow' = escrow - exits[j].amount
    /\ wspa' = [wspa EXCEPT ![exits[j].to] = @ + exits[j].amount]
    /\ exits' = [exits EXCEPT ![j].paid = TRUE]
    /\ UNCHANGED <<spa, l1Token, l2Token, l2Vars, settings, tickets, redirect>>
ExecuteIfMore(j) ==
    /\ j \in DOMAIN exits /\ ~exits[j].paid /\ exits[j].amount < escrow
    /\ escrow' = escrow - exits[j].amount
    /\ wspa' = [wspa EXCEPT ![Holder(j, exits[j].to)] = @ + exits[j].amount]
    /\ exits' = [exits EXCEPT ![j].paid = TRUE]
    /\ UNCHANGED <<spa, l1Token, l2Token, l2Vars, settings, tickets, redirect>>
Execute(j) ==
    /\ j \in DOMAIN exits /\ ~exits[j].paid /\ exits[j].amount <= escrow
    /\ escrow' = escrow - exits[j].amount
    /\ wspa' = [wspa EXCEPT ![Holder(j, exits[j].to)] = @ + exits[j].amount]
    /\ exits' = [exits EXCEPT ![j].paid = TRUE]
    /\ UNCHANGED <<spa, l1Token, l2Token, l2Vars, settings, tickets, redirect>>

-----------------------------------------------------------------------------
Redeem(i) == RegisterTokenFromL1(i) \/ Deliver(i) \/ Bounce(i)

Next ==
    \/ \E u \in Users, n \in Amounts :
           Wrap(u, n) \/ Unwrap(u, n) \/ IssueOnL2(u, n) \/ BurnOnL2(u, n)
    \/ \E u, v \in Users, n \in Amounts : OutboundToL2(u, v, n) \/ OutboundToL1(u, v, n)
    \/ \E s \in Settings : ChangeArbToken(s[1], s[2])
    \/ \E a \in L2Addresses : RegisterTokenToL2(a) \/ ForceRegisterTokenToL2(a)
    \/ \E i \in TicketNos : Redeem(i) \/ Expire(i)
    \/ \E j \in ExitNos : Execute(j)
    \/ \E k \in ExitNos, u, v \in Users : TransferExit(k, u, v)

\* A ticket that is never redeemed expires; an exit that can be executed for long
\* enough is, for its holder wants the money.  Nobody has to redeem a ticket.
Fairness ==
    /\ \A i \in TicketNos : WF_vars(Expire(i))
    /\ \A j \in ExitNos : WF_vars(Execute(j))

Spec == Init /\ [][Next]_vars /\ Fairness

-----------------------------------------------------------------------------
TypeOK ==
    /\ spa \in [Users -> Nat] /\ wspa \in [Users -> Nat] /\ escrow \in Nat
    /\ l1Token \in L2Addresses \cup {NoToken} /\ l2Token \in L2Addresses \cup {NoToken}
    /\ balance \in [Users -> Nat] /\ issued \in Int
    /\ trusts \in BOOLEAN /\ claims \in BOOLEAN
    /\ tickets \in Seq(Deposit \cup Registration) /\ Len(tickets) <= MaxTickets
    /\ exits \in Seq(Exit) /\ Len(exits) <= MaxExits
    /\ redirect \in [ExitNos \X Users -> Users \cup {NoOne}]

Total(f) == SumFunctionOnSet(f, Users)
NotMinted(i) ==
    IF i \in DOMAIN tickets /\ tickets[i].about = "deposit"
          /\ tickets[i].state \in {"open", "expired"}
    THEN tickets[i].amount ELSE 0
NotPaid(j) == IF j \in DOMAIN exits /\ ~exits[j].paid THEN exits[j].amount ELSE 0
Deposited == SumFunctionOnSet([i \in TicketNos |-> NotMinted(i)], TicketNos)
Owed == SumFunctionOnSet([j \in ExitNos |-> NotPaid(j)], ExitNos)

\* No SPA appears or vanishes between the layers: the escrow, with what was minted
\* on L2 by others, is what is held on L2, on the way to it, on the way back, or
\* was lost with an expired ticket; on L1 wrapping keeps the total.
NothingIsLostBetween ==
    /\ escrow + issued = Total(balance) + Deposited + Owed
    /\ Total(spa) + Total(wspa) + escrow = Total(Stake)

\* The gateways keep the promise of CrossTransfers: each claim is paid once.
OnL1 == [u \in Users |-> spa[u] + wspa[u]]
DepositClaim(i) == [no |-> i, from |-> tickets[i].from, to |-> tickets[i].to,
                    amount |-> tickets[i].amount]
ToL2 == {DepositClaim(i) : i \in {k \in DOMAIN tickets : Open(k, "deposit")}}
ExitClaim(j) == [no |-> j, to |-> exits[j].to, amount |-> exits[j].amount]
ToL1 == {ExitClaim(j) : j \in {k \in DOMAIN exits : ~exits[k].paid}}
Holders == [c \in ExitNos \X Users |-> Holder(c[1], c[2])]
CrossTransfers == INSTANCE CrossTransfers WITH
    l1 <- OnL1, l2 <- balance, toL2 <- ToL2, toL1 <- ToL1, holder <- Holders
ImplementsTransfers == CrossTransfers!Spec

\* A deposit comes to an end, whatever is registered and changed meanwhile: it is
\* minted, or its ticket expires, or it is turned back and paid out on L1; or else
\* its exit finds the escrow short again and again, drained by withdrawals of SPA
\* that others minted on L2.
Settled(i) ==
    \/ tickets[i].state \in {"minted", "expired"}
    \/ tickets[i].state = "bounced" /\ exits[tickets[i].exit].paid
FindsNothing(i) ==
    /\ tickets[i].state = "bounced" /\ ~exits[tickets[i].exit].paid
    /\ escrow < tickets[i].amount
DepositsSettle ==
    \A i \in TicketNos :
        (i \in DOMAIN tickets /\ tickets[i].about = "deposit")
        ~> (i \in DOMAIN tickets /\ (Settled(i) \/ FindsNothing(i)))
=============================================================================
