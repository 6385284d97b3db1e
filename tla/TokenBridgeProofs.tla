------------------------- MODULE TokenBridgeProofs -------------------------
(***************************************************************************)
(* Theorems about TokenBridge, for any accounts, amounts, registrations    *)
(* and bounds: its types, that nothing is lost between the layers, and     *)
(* that it implements CrossTransfers.                                      *)
(***************************************************************************)
EXTENDS TokenBridge, SumLemmas, SequenceTheorems

Message == Deposit \cup Registration
Ledger == [Users -> Nat]

LEMMA Credit ==
    ASSUME NEW f \in Ledger, NEW u \in Users, NEW n \in Nat
    PROVE  [f EXCEPT ![u] = @ + n] \in Ledger
  BY DEF Ledger

LEMMA Debit ==
    ASSUME NEW f \in Ledger, NEW u \in Users, NEW n \in Nat, n <= f[u]
    PROVE  [f EXCEPT ![u] = @ - n] \in Ledger
  <1>1. f[u] - n \in Nat
    BY DEF Ledger
  <1>. QED  BY <1>1 DEF Ledger

LEMMA AmountsAreNat == \A n \in Amounts : n \in Nat
  BY BridgeAssumption

LEMMA DepositsAreDeposits ==
    ASSUME TypeOK, NEW i, Open(i, "deposit")
    PROVE  i \in 1 .. Len(tickets) /\ tickets[i] \in Deposit
  <1>1. i \in 1 .. Len(tickets) /\ tickets[i] \in Message
    BY DEF TypeOK, Open, Message
  <1>2. tickets[i] \notin Registration
    BY DEF Open, Registration
  <1>. QED  BY <1>1, <1>2 DEF Message

LEMMA RegistrationsAreRegistrations ==
    ASSUME TypeOK, NEW i, Open(i, "token")
    PROVE  i \in 1 .. Len(tickets) /\ tickets[i] \in Registration
  <1>1. i \in 1 .. Len(tickets) /\ tickets[i] \in Message
    BY DEF TypeOK, Open, Message
  <1>2. tickets[i] \notin Deposit
    BY DEF Open, Deposit
  <1>. QED  BY <1>1, <1>2 DEF Message

(* A ticket that ends keeps the sequence a sequence of tickets.             *)
LEMMA TicketReplaced ==
    ASSUME TypeOK, NEW i \in 1 .. Len(tickets), NEW m \in Message,
           tickets' = [tickets EXCEPT ![i] = m]
    PROVE  tickets' \in Seq(Message) /\ Len(tickets') = Len(tickets)
  <1>. tickets \in Seq(Message)
    BY DEF TypeOK, Message
  <1>. QED  BY ExceptSeq

LEMMA TicketAppended ==
    ASSUME TypeOK, Len(tickets) < MaxTickets, NEW m \in Message,
           tickets' = Append(tickets, m)
    PROVE  tickets' \in Seq(Message) /\ Len(tickets') <= MaxTickets
  <1>. tickets \in Seq(Message) /\ MaxTickets \in Nat
    BY BridgeAssumption DEF TypeOK, Message
  <1>. QED  BY AppendProperties

LEMMA ExitAppended ==
    ASSUME TypeOK, Len(exits) < MaxExits, NEW e \in Exit,
           exits' = Append(exits, e)
    PROVE  exits' \in Seq(Exit) /\ Len(exits') <= MaxExits
  <1>. exits \in Seq(Exit) /\ MaxExits \in Nat
    BY BridgeAssumption DEF TypeOK, MaxExits
  <1>. QED  BY AppendProperties

-----------------------------------------------------------------------------
LEMMA InitTypeOK == Init => TypeOK
  <1>. SUFFICES ASSUME Init PROVE TypeOK
    OBVIOUS
  <1>. USE BridgeAssumption DEF Init
  <1>1. tickets \in Seq(Message) /\ exits \in Seq(Exit) /\ Len(tickets) = 0 /\ Len(exits) = 0
    BY EmptySeq
  <1>2. redirect \in [ExitNos \X Users -> Users \cup {NoOne}]
    OBVIOUS
  <1>. QED  BY <1>1, <1>2 DEF TypeOK, Message, MaxExits

LEMMA NextTypeOK == TypeOK /\ [Next]_vars => TypeOK'
  <1>. SUFFICES ASSUME TypeOK, [Next]_vars PROVE TypeOK'
    OBVIOUS
  <1>. USE BridgeAssumption
  <1>1. ASSUME NEW u \in Users, NEW n \in Amounts,
               Wrap(u, n) \/ Unwrap(u, n) \/ IssueOnL2(u, n) \/ BurnOnL2(u, n)
        PROVE  TypeOK'
    <2>. USE DEF l1Vars, l2Vars, settings
    <2>. n \in Nat
      BY AmountsAreNat
    <2>1. CASE Wrap(u, n)
      <3>. spa \in Ledger /\ wspa \in Ledger
        BY DEF TypeOK, Ledger
      <3>1. spa' \in Ledger /\ wspa' \in Ledger
        BY <2>1, Credit, Debit DEF Wrap
      <3>. QED  BY <2>1, <3>1 DEF Wrap, TypeOK, Ledger
    <2>2. CASE Unwrap(u, n)
      <3>. spa \in Ledger /\ wspa \in Ledger
        BY DEF TypeOK, Ledger
      <3>1. spa' \in Ledger /\ wspa' \in Ledger
        BY <2>2, Credit, Debit DEF Unwrap
      <3>. QED  BY <2>2, <3>1 DEF Unwrap, TypeOK, Ledger
    <2>3. CASE IssueOnL2(u, n)
      <3>1. balance' \in Ledger
        BY <2>3, Credit DEF IssueOnL2, TypeOK, Ledger
      <3>. QED  BY <2>3, <3>1 DEF IssueOnL2, TypeOK, Ledger
    <2>4. CASE BurnOnL2(u, n)
      <3>. balance \in Ledger /\ issued \in Int
        BY DEF TypeOK, Ledger
      <3>1. balance' \in Ledger
        BY <2>4, Debit DEF BurnOnL2
      <3>2. issued' \in Int
        BY <2>4 DEF BurnOnL2
      <3>. QED  BY <2>4, <3>1, <3>2 DEF BurnOnL2, TypeOK, Ledger
    <2>. QED  BY <1>1, <2>1, <2>2, <2>3, <2>4
  <1>2. ASSUME NEW u \in Users, NEW v \in Users, NEW n \in Amounts, OutboundToL2(u, v, n)
        PROVE  TypeOK'
    <2>. DEFINE m == [about |-> "deposit", state |-> "open", from |-> u, to |-> v,
                      amount |-> n, exit |-> 0]
    <2>1. m \in Message
      BY DEF Message, Deposit
    <2>2. tickets' \in Seq(Message) /\ Len(tickets') <= MaxTickets
      BY <1>2, <2>1, TicketAppended DEF OutboundToL2
    <2>3. wspa' \in Ledger /\ escrow' \in Nat
      BY <1>2, Debit, AmountsAreNat DEF OutboundToL2, TypeOK, Ledger
    <2>. QED  BY <1>2, <2>2, <2>3 DEF OutboundToL2, TypeOK, l2Vars, settings, Message, Ledger
  <1>3. ASSUME NEW u \in Users, NEW v \in Users, NEW n \in Amounts, OutboundToL1(u, v, n)
        PROVE  TypeOK'
    <2>. DEFINE e == [to |-> v, amount |-> n, paid |-> FALSE, bounced |-> FALSE]
    <2>1. exits' \in Seq(Exit) /\ Len(exits') <= MaxExits
      <3>1. e \in Exit
        BY DEF Exit
      <3>. QED  BY <1>3, <3>1, ExitAppended DEF OutboundToL1
    <2>2. balance' \in Ledger
      BY <1>3, Debit, AmountsAreNat DEF OutboundToL1, TypeOK, Ledger
    <2>. QED  BY <1>3, <2>1, <2>2 DEF OutboundToL1, TypeOK, l1Vars, settings, Ledger
  <1>4. ASSUME NEW s \in Settings, ChangeArbToken(s[1], s[2])
        PROVE  TypeOK'
    BY <1>4 DEF ChangeArbToken, TypeOK, l1Vars, l2Vars
  <1>5. ASSUME NEW a \in L2Addresses, RegisterTokenToL2(a) \/ ForceRegisterTokenToL2(a)
        PROVE  TypeOK'
    <2>. DEFINE m == [about |-> "token", state |-> "open", token |-> a]
    <2>1. Register(a)
      BY <1>5 DEF RegisterTokenToL2, ForceRegisterTokenToL2
    <2>2. m \in Message
      BY DEF Message, Registration
    <2>3. tickets' \in Seq(Message) /\ Len(tickets') <= MaxTickets
      BY <2>1, <2>2, TicketAppended DEF Register
    <2>. QED  BY <2>1, <2>3 DEF Register, TypeOK, l1Vars, l2Vars, settings, Message
  <1>6. ASSUME NEW i \in TicketNos, Redeem(i) \/ Expire(i)
        PROVE  TypeOK'
    <2>1. CASE RegisterTokenFromL1(i)
      <3>1. i \in 1 .. Len(tickets) /\ tickets[i] \in Registration
        BY <2>1, RegistrationsAreRegistrations DEF RegisterTokenFromL1
      <3>2. [tickets[i] EXCEPT !.state = "redeemed"] \in Message
        BY <3>1 DEF Registration, Message
      <3>3. tickets' \in Seq(Message) /\ Len(tickets') = Len(tickets)
        BY <2>1, <3>1, <3>2, TicketReplaced DEF RegisterTokenFromL1
      <3>. QED  BY <2>1, <3>1, <3>3
             DEF RegisterTokenFromL1, TypeOK, l1Vars, l2Vars, settings, Message, Registration
    <2>2. CASE Deliver(i)
      <3>1. i \in 1 .. Len(tickets) /\ tickets[i] \in Deposit
        BY <2>2, DepositsAreDeposits DEF Deliver
      <3>2. [tickets[i] EXCEPT !.state = "minted"] \in Message
        BY <3>1 DEF Deposit, Message
      <3>3. tickets' \in Seq(Message) /\ Len(tickets') = Len(tickets)
        BY <2>2, <3>1, <3>2, TicketReplaced DEF Deliver
      <3>4. balance' \in Ledger
        BY <2>2, <3>1, Credit, AmountsAreNat DEF Deliver, TypeOK, Deposit, Ledger
      <3>. QED  BY <2>2, <3>3, <3>4 DEF Deliver, TypeOK, l1Vars, settings, Message, Ledger
    <2>3. CASE Bounce(i)
      <3>. DEFINE e == [to |-> tickets[i].from, amount |-> tickets[i].amount,
                        paid |-> FALSE, bounced |-> TRUE]
                  m == [tickets[i] EXCEPT !.state = "bounced", !.exit = Len(exits) + 1]
      <3>1. i \in 1 .. Len(tickets) /\ tickets[i] \in Deposit
        BY <2>3, DepositsAreDeposits DEF Bounce
      <3>2. e \in Exit
        BY <3>1 DEF Deposit, Exit
      <3>3. exits' \in Seq(Exit) /\ Len(exits') <= MaxExits
        BY <2>3, <3>2, ExitAppended DEF Bounce
      <3>4. Len(exits) + 1 \in ExitNos
        BY <2>3 DEF Bounce, TypeOK, ExitNos, MaxExits
      <3>5. m \in Message
        BY <3>1, <3>4 DEF Deposit, Message
      <3>6. tickets' = [tickets EXCEPT ![i] = m]
        BY <2>3, <3>1 DEF Bounce
      <3>7. tickets' \in Seq(Message) /\ Len(tickets') = Len(tickets)
        BY <3>1, <3>5, <3>6, TicketReplaced
      <3>. QED  BY <2>3, <3>3, <3>7 DEF Bounce, TypeOK, l1Vars, l2Vars, settings, Message
    <2>4. CASE Expire(i)
      <3>1. i \in 1 .. Len(tickets) /\ tickets[i] \in Message
        BY <2>4 DEF Expire, TypeOK, Message
      <3>2. [tickets[i] EXCEPT !.state = "expired"] \in Message
        BY <3>1 DEF Registration, Deposit, Message
      <3>3. tickets' \in Seq(Message) /\ Len(tickets') = Len(tickets)
        BY <2>4, <3>1, <3>2, TicketReplaced DEF Expire
      <3>. QED  BY <2>4, <3>3 DEF Expire, TypeOK, l1Vars, l2Vars, settings, Message
    <2>. QED  BY <1>6, <2>1, <2>2, <2>3, <2>4 DEF Redeem
  <1>7. ASSUME NEW j \in ExitNos, Execute(j)
        PROVE  TypeOK'
    <2>1. j \in 1 .. Len(exits) /\ exits[j] \in Exit
      BY <1>7 DEF Execute, TypeOK
    <2>2. [exits[j] EXCEPT !.paid = TRUE] \in Exit
      BY <2>1 DEF Exit
    <2>3. exits' \in Seq(Exit) /\ Len(exits') = Len(exits)
      BY <1>7, <2>1, <2>2, ExceptSeq DEF Execute, TypeOK
    <2>4. Holder(j, exits[j].to) \in Users /\ exits[j].amount \in Nat
      BY <2>1, AmountsAreNat DEF Holder, TypeOK, Exit
    <2>5. wspa' \in Ledger
      <3>1. wspa \in Ledger
        BY DEF TypeOK, Ledger
      <3>. QED  BY <1>7, <2>4, <3>1, Credit DEF Execute
    <2>6. escrow' \in Nat
      BY <1>7, <2>4 DEF Execute, TypeOK
    <2>. QED  BY <1>7, <2>3, <2>5, <2>6 DEF Execute, TypeOK, l2Vars, settings, Ledger
  <1>8. ASSUME NEW k \in ExitNos, NEW u \in Users, NEW v \in Users, TransferExit(k, u, v)
        PROVE  TypeOK'
    BY <1>8 DEF TransferExit, TypeOK, l1Vars, l2Vars, settings
  <1>9. CASE UNCHANGED vars
    BY <1>9 DEF vars, TypeOK, l1Vars, l2Vars, settings
  <1>. QED  BY <1>1, <1>2, <1>3, <1>4, <1>5, <1>6, <1>7, <1>8, <1>9 DEF Next

(* No balance, no escrow and no claim of the bridge ever goes below zero.   *)
THEOREM TypeCorrect == Spec => []TypeOK
  BY InitTypeOK, NextTypeOK, PTL DEF Spec

-----------------------------------------------------------------------------
(* What is held, escrowed and on the way.                                  *)

LEMMA TotalChanges ==
    ASSUME NEW f, NEW g, NEW u \in Users,
           \A v \in Users : f[v] \in Int /\ g[v] \in Int,
           \A v \in Users \ {u} : g[v] = f[v]
    PROVE  /\ Total(g) = Total(f) + g[u] - f[u]
           /\ Total(f) \in Int
  <1>1. IsFiniteSet(Users)
    BY BridgeAssumption
  <1>2. SumFunctionOnSet(g, Users) = SumFunctionOnSet(f, Users) + g[u] - f[u]
    BY <1>1, SumChange
  <1>3. SumFunctionOnSet(f, Users) \in Int
    BY <1>1, SumInt
  <1>. QED  BY <1>2, <1>3 DEF Total

LEMMA CreditTotal ==
    ASSUME NEW f \in Ledger, NEW u \in Users, NEW n \in Nat
    PROVE  /\ Total([f EXCEPT ![u] = @ + n]) = Total(f) + n
           /\ Total(f) \in Int
  <1>1. PICK g \in Ledger : g = [f EXCEPT ![u] = @ + n]
    BY Credit
  <1>2. /\ \A v \in Users : f[v] \in Int /\ g[v] \in Int
        /\ \A v \in Users \ {u} : g[v] = f[v]
        /\ g[u] = f[u] + n /\ f[u] \in Nat
    BY <1>1 DEF Ledger
  <1>3. Total(g) = Total(f) + g[u] - f[u] /\ Total(f) \in Int
    BY <1>2, TotalChanges
  <1>4. Total(g) = Total(f) + n
    BY <1>2, <1>3
  <1>. QED  BY <1>1, <1>3, <1>4

LEMMA DebitTotal ==
    ASSUME NEW f \in Ledger, NEW u \in Users, NEW n \in Nat, n <= f[u]
    PROVE  /\ Total([f EXCEPT ![u] = @ - n]) = Total(f) - n
           /\ Total(f) \in Int
  <1>1. PICK g \in Ledger : g = [f EXCEPT ![u] = @ - n]
    BY Debit
  <1>2. /\ \A v \in Users : f[v] \in Int /\ g[v] \in Int
        /\ \A v \in Users \ {u} : g[v] = f[v]
        /\ g[u] = f[u] - n /\ f[u] \in Nat
    BY <1>1 DEF Ledger
  <1>3. Total(g) = Total(f) + g[u] - f[u] /\ Total(f) \in Int
    BY <1>2, TotalChanges
  <1>4. Total(g) = Total(f) - n
    BY <1>2, <1>3
  <1>. QED  BY <1>1, <1>3, <1>4

LEMMA NumbersAreFinite ==
    /\ IsFiniteSet(TicketNos) /\ IsFiniteSet(ExitNos)
    /\ MaxTickets \in Nat /\ MaxExits \in Nat
  <1>1. MaxTickets \in Nat /\ MaxExits \in Nat
    BY BridgeAssumption DEF MaxExits
  <1>. QED  BY <1>1, FS_Interval DEF TicketNos, ExitNos

LEMMA AmountsOnTheWay ==
    ASSUME TypeOK
    PROVE  /\ \A i \in TicketNos : NotMinted(i) \in Nat
           /\ \A j \in ExitNos : NotPaid(j) \in Nat
  <1>1. ASSUME NEW i \in DOMAIN tickets, tickets[i].about = "deposit"
        PROVE  tickets[i].amount \in Nat
    <2>1. tickets[i] \in Message
      BY <1>1 DEF TypeOK, Message
    <2>2. tickets[i] \notin Registration
      BY <1>1 DEF Registration
    <2>. QED  BY <2>1, <2>2, AmountsAreNat DEF Message, Deposit
  <1>2. ASSUME NEW j \in DOMAIN exits  PROVE exits[j].amount \in Nat
    <2>1. exits[j] \in Exit
      BY <1>2 DEF TypeOK
    <2>. QED  BY <2>1, AmountsAreNat DEF Exit
  <1>. QED  BY <1>1, <1>2 DEF NotMinted, NotPaid

LEMMA NextAmountsOnTheWay ==
    ASSUME TypeOK'
    PROVE  /\ \A i \in TicketNos : NotMinted(i)' \in Nat
           /\ \A j \in ExitNos : NotPaid(j)' \in Nat
  <1>1. ASSUME NEW i \in DOMAIN tickets', tickets'[i].about = "deposit"
        PROVE  tickets'[i].amount \in Nat
    <2>1. tickets'[i] \in Message
      BY <1>1 DEF TypeOK, Message
    <2>2. tickets'[i] \notin Registration
      BY <1>1 DEF Registration
    <2>. QED  BY <2>1, <2>2, AmountsAreNat DEF Message, Deposit
  <1>2. ASSUME NEW j \in DOMAIN exits'  PROVE exits'[j].amount \in Nat
    <2>1. exits'[j] \in Exit
      BY <1>2 DEF TypeOK
    <2>. QED  BY <2>1, AmountsAreNat DEF Exit
  <1>. QED  BY <1>1, <1>2 DEF NotMinted, NotPaid

(* A step changes what one ticket, or one exit, stands for.                 *)
LEMMA DepositedChanges ==
    ASSUME TypeOK, TypeOK', NEW i \in TicketNos,
           \A k \in TicketNos \ {i} : NotMinted(k)' = NotMinted(k)
    PROVE  /\ Deposited' = Deposited + NotMinted(i)' - NotMinted(i)
           /\ Deposited \in Int /\ NotMinted(i) \in Nat /\ NotMinted(i)' \in Nat
  <1>. DEFINE f == [k \in TicketNos |-> NotMinted(k)]
              g == [k \in TicketNos |-> NotMinted(k)]'
  <1>1. NotMinted(i) \in Nat /\ NotMinted(i)' \in Nat
    BY AmountsOnTheWay, NextAmountsOnTheWay
  <1>2. /\ \A k \in TicketNos : f[k] \in Int /\ g[k] \in Int
        /\ \A k \in TicketNos \ {i} : g[k] = f[k]
        /\ f[i] = NotMinted(i) /\ g[i] = NotMinted(i)'
    BY AmountsOnTheWay, NextAmountsOnTheWay
  <1>3. Deposited = SumFunctionOnSet(f, TicketNos) /\ Deposited' = SumFunctionOnSet(g, TicketNos)
    BY DEF Deposited
  <1>. HIDE DEF f, g
  <1>4. /\ SumFunctionOnSet(g, TicketNos) = SumFunctionOnSet(f, TicketNos) + g[i] - f[i]
        /\ SumFunctionOnSet(f, TicketNos) \in Int
    <2>1. SumFunctionOnSet(g, TicketNos) = SumFunctionOnSet(f, TicketNos) + g[i] - f[i]
      BY <1>2, SumChange, NumbersAreFinite
    <2>2. SumFunctionOnSet(f, TicketNos) \in Int
      BY <1>2, SumInt, NumbersAreFinite
    <2>. QED  BY <2>1, <2>2
  <1>. QED  BY <1>1, <1>2, <1>3, <1>4

LEMMA OwedChanges ==
    ASSUME TypeOK, TypeOK', NEW j \in ExitNos,
           \A k \in ExitNos \ {j} : NotPaid(k)' = NotPaid(k)
    PROVE  /\ Owed' = Owed + NotPaid(j)' - NotPaid(j)
           /\ Owed \in Int /\ NotPaid(j) \in Nat /\ NotPaid(j)' \in Nat
  <1>. DEFINE f == [k \in ExitNos |-> NotPaid(k)]
              g == [k \in ExitNos |-> NotPaid(k)]'
  <1>1. NotPaid(j) \in Nat /\ NotPaid(j)' \in Nat
    BY AmountsOnTheWay, NextAmountsOnTheWay
  <1>2. /\ \A k \in ExitNos : f[k] \in Int /\ g[k] \in Int
        /\ \A k \in ExitNos \ {j} : g[k] = f[k]
        /\ f[j] = NotPaid(j) /\ g[j] = NotPaid(j)'
    BY AmountsOnTheWay, NextAmountsOnTheWay
  <1>3. Owed = SumFunctionOnSet(f, ExitNos) /\ Owed' = SumFunctionOnSet(g, ExitNos)
    BY DEF Owed
  <1>. HIDE DEF f, g
  <1>4. /\ SumFunctionOnSet(g, ExitNos) = SumFunctionOnSet(f, ExitNos) + g[j] - f[j]
        /\ SumFunctionOnSet(f, ExitNos) \in Int
    <2>1. SumFunctionOnSet(g, ExitNos) = SumFunctionOnSet(f, ExitNos) + g[j] - f[j]
      BY <1>2, SumChange, NumbersAreFinite
    <2>2. SumFunctionOnSet(f, ExitNos) \in Int
      BY <1>2, SumInt, NumbersAreFinite
    <2>. QED  BY <2>1, <2>2
  <1>. QED  BY <1>1, <1>2, <1>3, <1>4

LEMMA WayIsInt == ASSUME TypeOK PROVE Deposited \in Int /\ Owed \in Int
  <1>. DEFINE f == [k \in TicketNos |-> NotMinted(k)]
              g == [k \in ExitNos |-> NotPaid(k)]
  <1>1. (\A k \in TicketNos : f[k] \in Int) /\ (\A k \in ExitNos : g[k] \in Int)
    BY AmountsOnTheWay
  <1>. HIDE DEF f, g
  <1>2. SumFunctionOnSet(f, TicketNos) \in Int /\ SumFunctionOnSet(g, ExitNos) \in Int
    BY <1>1, SumInt, NumbersAreFinite
  <1>. QED  BY <1>2 DEF Deposited, Owed, f, g

(* A ticket or an exit that is appended, or changes its state.              *)
LEMMA NewTicket ==
    ASSUME TypeOK, TypeOK', NEW m \in Message, Len(tickets) < MaxTickets,
           tickets' = Append(tickets, m)
    PROVE  Deposited' = Deposited + (IF m.about = "deposit" /\ m.state \in {"open", "expired"}
                                     THEN m.amount ELSE 0)
  <1>0. PICK i \in Nat : i = Len(tickets) + 1
    BY DEF TypeOK, Message
  <1>1. /\ tickets \in Seq(Message) /\ Len(tickets) \in Nat /\ MaxTickets \in Nat
        /\ DOMAIN tickets = 1 .. Len(tickets)
    BY NumbersAreFinite DEF TypeOK, Message
  <1>2. /\ DOMAIN tickets' = 1 .. i /\ tickets'[i] = m
        /\ \A k \in 1 .. Len(tickets) : tickets'[k] = tickets[k]
    BY <1>0, <1>1, AppendProperties
  <1>3. i \in TicketNos /\ i \notin DOMAIN tickets /\ i \in DOMAIN tickets'
    BY <1>0, <1>1, <1>2 DEF TicketNos
  <1>4. ASSUME NEW k \in TicketNos \ {i}  PROVE NotMinted(k)' = NotMinted(k)
    <2>1. k \in DOMAIN tickets' <=> k \in DOMAIN tickets
      BY <1>0, <1>1, <1>2, <1>4 DEF TicketNos
    <2>. QED  BY <1>0, <1>1, <1>2, <2>1 DEF NotMinted
  <1>5. NotMinted(i) = 0
    BY <1>3 DEF NotMinted
  <1>6. NotMinted(i)' = IF m.about = "deposit" /\ m.state \in {"open", "expired"}
                        THEN m.amount ELSE 0
    BY <1>2, <1>3 DEF NotMinted
  <1>7. /\ Deposited' = Deposited + NotMinted(i)' - NotMinted(i)
        /\ Deposited \in Int /\ NotMinted(i)' \in Nat
    BY <1>3, <1>4, DepositedChanges
  <1>. QED  BY <1>5, <1>6, <1>7

LEMMA TicketEnds ==
    ASSUME TypeOK, TypeOK', NEW i \in DOMAIN tickets,
           DOMAIN tickets' = DOMAIN tickets,
           \A k \in DOMAIN tickets \ {i} : tickets'[k] = tickets[k]
    PROVE  /\ Deposited' = Deposited + NotMinted(i)' - NotMinted(i)
           /\ Deposited \in Int /\ NotMinted(i) \in Nat /\ NotMinted(i)' \in Nat
  <1>1. i \in TicketNos
    BY NumbersAreFinite DEF TypeOK, Message, TicketNos
  <1>2. \A k \in TicketNos \ {i} : NotMinted(k)' = NotMinted(k)
    BY DEF NotMinted
  <1>. QED  BY <1>1, <1>2, DepositedChanges

LEMMA NewExit ==
    ASSUME TypeOK, TypeOK', NEW e \in Exit, Len(exits) < MaxExits,
           exits' = Append(exits, e), ~e.paid
    PROVE  Owed' = Owed + e.amount
  <1>0. PICK j \in Nat : j = Len(exits) + 1
    BY DEF TypeOK
  <1>1. /\ exits \in Seq(Exit) /\ Len(exits) \in Nat /\ MaxExits \in Nat
        /\ DOMAIN exits = 1 .. Len(exits)
    BY NumbersAreFinite DEF TypeOK
  <1>2. /\ DOMAIN exits' = 1 .. j /\ exits'[j] = e
        /\ \A k \in 1 .. Len(exits) : exits'[k] = exits[k]
    BY <1>0, <1>1, AppendProperties
  <1>3. j \in ExitNos /\ j \notin DOMAIN exits /\ j \in DOMAIN exits'
    BY <1>0, <1>1, <1>2 DEF ExitNos
  <1>4. ASSUME NEW k \in ExitNos \ {j}  PROVE NotPaid(k)' = NotPaid(k)
    <2>1. k \in DOMAIN exits' <=> k \in DOMAIN exits
      BY <1>0, <1>1, <1>2, <1>4 DEF ExitNos
    <2>. QED  BY <1>0, <1>1, <1>2, <2>1 DEF NotPaid
  <1>5. NotPaid(j) = 0 /\ NotPaid(j)' = e.amount
    BY <1>2, <1>3 DEF NotPaid
  <1>6. Owed' = Owed + NotPaid(j)' - NotPaid(j) /\ Owed \in Int /\ NotPaid(j)' \in Nat
    BY <1>3, <1>4, OwedChanges
  <1>. QED  BY <1>5, <1>6

-----------------------------------------------------------------------------
Between == TypeOK /\ NothingIsLostBetween

(* No call on either layer, and no message in whatever order, changes what *)
(* is held, escrowed, owed and on the way together.                        *)
LEMMA NextBetween == Between /\ [Next]_vars => Between'
  <1>. SUFFICES ASSUME Between, [Next]_vars, TypeOK'  PROVE NothingIsLostBetween'
    BY NextTypeOK DEF Between
  <1>0. /\ TypeOK /\ NothingIsLostBetween
        /\ spa \in Ledger /\ wspa \in Ledger /\ balance \in Ledger
        /\ escrow \in Nat /\ issued \in Int
        /\ Stake \in Ledger
    BY BridgeAssumption DEF Between, TypeOK, Ledger
  <1>1. Deposited \in Int /\ Owed \in Int
    BY <1>0, WayIsInt
  <1>2. \A f \in Ledger : Total(f) \in Int
    <2>1. \A f \in Ledger : \A u \in Users : f[u] \in Int
      BY DEF Ledger
    <2>. QED  BY <2>1, SumInt, BridgeAssumption DEF Total
  <1>3. /\ escrow + issued = Total(balance) + Deposited + Owed
        /\ Total(spa) + Total(wspa) + escrow = Total(Stake)
    BY <1>0 DEF NothingIsLostBetween
  <1>4. ASSUME UNCHANGED tickets  PROVE Deposited' = Deposited
    BY <1>4 DEF Deposited, NotMinted
  <1>5. ASSUME UNCHANGED exits  PROVE Owed' = Owed
    BY <1>5 DEF Owed, NotPaid
  <1>6. ASSUME UNCHANGED <<l1Vars, l2Vars>>, Deposited' = Deposited, UNCHANGED exits
        PROVE  NothingIsLostBetween'
    BY <1>3, <1>5, <1>6 DEF NothingIsLostBetween, l1Vars, l2Vars
  <1>. USE AmountsAreNat
  <1>7. ASSUME NEW u \in Users, NEW n \in Amounts, Wrap(u, n) \/ Unwrap(u, n)
        PROVE  NothingIsLostBetween'
    <2>1. /\ Total(spa)' + Total(wspa)' = Total(spa) + Total(wspa)
          /\ UNCHANGED <<escrow, l2Vars, tickets, exits>>
      <3>1. CASE Wrap(u, n)
        <4>1. Total(spa') = Total(spa) - n /\ Total(wspa') = Total(wspa) + n
          BY <1>0, <3>1, CreditTotal, DebitTotal DEF Wrap
        <4>. QED  BY <1>0, <1>2, <3>1, <4>1 DEF Wrap, Total
      <3>2. CASE Unwrap(u, n)
        <4>1. Total(spa') = Total(spa) + n /\ Total(wspa') = Total(wspa) - n
          BY <1>0, <3>2, CreditTotal, DebitTotal DEF Unwrap
        <4>. QED  BY <1>0, <1>2, <3>2, <4>1 DEF Unwrap, Total
      <3>. QED  BY <1>7, <3>1, <3>2
    <2>. QED  BY <1>3, <1>4, <1>5, <2>1 DEF NothingIsLostBetween, l2Vars
  <1>8. ASSUME NEW u \in Users, NEW n \in Amounts, IssueOnL2(u, n) \/ BurnOnL2(u, n)
        PROVE  NothingIsLostBetween'
    <2>1. UNCHANGED <<l1Vars, tickets, exits>>
      BY <1>8 DEF IssueOnL2, BurnOnL2
    <2>2. issued' - Total(balance') = issued - Total(balance)
      <3>1. CASE IssueOnL2(u, n)
        <4>1. Total(balance') = Total(balance) + n /\ issued' = issued + n
          BY <1>0, <3>1, CreditTotal DEF IssueOnL2
        <4>. QED  BY <1>0, <1>2, <4>1
      <3>2. CASE BurnOnL2(u, n)
        <4>1. Total(balance') = Total(balance) - n /\ issued' = issued - n
          BY <1>0, <3>2, DebitTotal DEF BurnOnL2
        <4>. QED  BY <1>0, <1>2, <4>1
      <3>. QED  BY <1>8, <3>1, <3>2
    <2>3. balance' \in Ledger /\ issued' \in Int
      BY DEF TypeOK, Ledger
    <2>4. Total(balance') \in Int /\ Total(balance) \in Int
      BY <1>0, <1>2, <2>3
    <2>5. escrow' + issued' = Total(balance') + Deposited' + Owed'
      BY <1>0, <1>1, <1>3, <1>4, <1>5, <2>1, <2>2, <2>3, <2>4 DEF l1Vars
    <2>. QED  BY <1>3, <2>1, <2>5 DEF NothingIsLostBetween, l1Vars, Total
  <1>9. ASSUME NEW u \in Users, NEW v \in Users, NEW n \in Amounts, OutboundToL2(u, v, n)
        PROVE  NothingIsLostBetween'
    <2>. DEFINE m == [about |-> "deposit", state |-> "open", from |-> u, to |-> v,
                      amount |-> n, exit |-> 0]
    <2>1. /\ m \in Message /\ tickets' = Append(tickets, m) /\ Len(tickets) < MaxTickets
          /\ m.about = "deposit" /\ m.state = "open" /\ m.amount = n
      BY <1>9 DEF OutboundToL2, Message, Deposit
    <2>. HIDE DEF m
    <2>2. Deposited' = Deposited + n
      BY <1>0, <2>1, NewTicket
    <2>3. Total(wspa') = Total(wspa) - n /\ escrow' = escrow + n
      BY <1>0, <1>9, DebitTotal DEF OutboundToL2
    <2>4. UNCHANGED <<spa, l2Vars, exits>>
      BY <1>9 DEF OutboundToL2
    <2>. QED  BY <1>0, <1>1, <1>2, <1>3, <1>5, <2>2, <2>3, <2>4
           DEF NothingIsLostBetween, l2Vars, Total
  <1>10. ASSUME NEW u \in Users, NEW v \in Users, NEW n \in Amounts, OutboundToL1(u, v, n)
         PROVE  NothingIsLostBetween'
    <2>. DEFINE e == [to |-> v, amount |-> n, paid |-> FALSE, bounced |-> FALSE]
    <2>1. /\ e \in Exit /\ exits' = Append(exits, e) /\ Len(exits) < MaxExits
          /\ ~e.paid /\ e.amount = n
      BY <1>10 DEF OutboundToL1, Exit
    <2>. HIDE DEF e
    <2>2. Owed' = Owed + n
      BY <1>0, <2>1, NewExit
    <2>3. Total(balance') = Total(balance) - n
      BY <1>0, <1>10, DebitTotal DEF OutboundToL1
    <2>4. UNCHANGED <<l1Vars, issued, tickets>>
      BY <1>10 DEF OutboundToL1
    <2>. QED  BY <1>0, <1>1, <1>2, <1>3, <1>4, <2>2, <2>3, <2>4
           DEF NothingIsLostBetween, l1Vars, Total
  <1>11. ASSUME NEW a \in L2Addresses, RegisterTokenToL2(a) \/ ForceRegisterTokenToL2(a)
         PROVE  NothingIsLostBetween'
    <2>. DEFINE m == [about |-> "token", state |-> "open", token |-> a]
    <2>1. /\ m \in Message /\ tickets' = Append(tickets, m) /\ Len(tickets) < MaxTickets
          /\ m.about = "token" /\ UNCHANGED <<l1Vars, l2Vars, exits>>
      BY <1>11 DEF RegisterTokenToL2, ForceRegisterTokenToL2, Register, Message, Registration
    <2>. HIDE DEF m
    <2>2. Deposited' = Deposited
      BY <1>0, <1>1, <2>1, NewTicket
    <2>. QED  BY <1>6, <2>1, <2>2
  <1>12. ASSUME NEW i \in TicketNos, RegisterTokenFromL1(i) \/ Expire(i)
         PROVE  NothingIsLostBetween'
    <2>1. PICK state \in {"redeemed", "expired"} :
             /\ i \in DOMAIN tickets /\ tickets[i].state = "open"
             /\ state = "redeemed" => tickets[i].about = "token"
             /\ tickets' = [tickets EXCEPT ![i].state = state]
      BY <1>12 DEF RegisterTokenFromL1, Expire, Open
    <2>2. tickets[i] \in Message
      BY <1>0, <2>1 DEF TypeOK, Message
    <2>m. PICK m : m = [tickets[i] EXCEPT !.state = state]
      OBVIOUS
    <2>3. /\ tickets' = [tickets EXCEPT ![i] = m]
          /\ m.about = tickets[i].about
          /\ m.about = "deposit" => m.amount = tickets[i].amount /\ m.state = "expired"
      <3>1. CASE tickets[i] \in Deposit
        BY <2>m, <2>1, <3>1 DEF Deposit
      <3>2. CASE tickets[i] \in Registration
        BY <2>m, <2>1, <3>2 DEF Registration
      <3>. QED  BY <2>2, <3>1, <3>2 DEF Message
    <2>4. DOMAIN tickets' = DOMAIN tickets /\ tickets'[i] = m
          /\ \A k \in DOMAIN tickets \ {i} : tickets'[k] = tickets[k]
      BY <1>0, <2>1, <2>3 DEF TypeOK
    <2>n. NotMinted(i)' = NotMinted(i)
      BY <2>1, <2>3, <2>4 DEF NotMinted
    <2>d. /\ Deposited' = Deposited + NotMinted(i)' - NotMinted(i)
          /\ Deposited \in Int /\ NotMinted(i) \in Nat
      BY <1>0, <2>1, <2>4, TicketEnds
    <2>5. Deposited' = Deposited
      BY <2>n, <2>d
    <2>6. UNCHANGED <<l1Vars, l2Vars, exits>>
      BY <1>12 DEF RegisterTokenFromL1, Expire
    <2>. QED  BY <1>6, <2>5, <2>6
  <1>13. ASSUME NEW i \in TicketNos, Deliver(i)
         PROVE  NothingIsLostBetween'
    <2>m. PICK m : m = [tickets[i] EXCEPT !.state = "minted"]
      OBVIOUS
    <2>1. i \in DOMAIN tickets /\ tickets[i] \in Deposit /\ tickets[i].state = "open"
      BY <1>0, <1>13, DepositsAreDeposits DEF Deliver, Open
    <2>2. /\ tickets' = [tickets EXCEPT ![i] = m]
          /\ m.about = "deposit" /\ m.state = "minted"
          /\ tickets[i].amount \in Nat /\ tickets[i].to \in Users
          /\ tickets[i].about = "deposit"
      BY <1>13, <2>m, <2>1 DEF Deliver, Deposit
    <2>o. DOMAIN tickets' = DOMAIN tickets /\ tickets'[i] = m
          /\ \A k \in DOMAIN tickets \ {i} : tickets'[k] = tickets[k]
      BY <1>0, <2>1, <2>2 DEF TypeOK
    <2>3. NotMinted(i) = tickets[i].amount /\ NotMinted(i)' = 0
      BY <2>1, <2>2, <2>o DEF NotMinted
    <2>d. /\ Deposited' = Deposited + NotMinted(i)' - NotMinted(i)
          /\ Deposited \in Int
      BY <1>0, <2>1, <2>o, TicketEnds
    <2>4. Deposited' = Deposited - tickets[i].amount
      BY <2>2, <2>3, <2>d
    <2>5. Total(balance') = Total(balance) + tickets[i].amount
      BY <1>0, <1>13, <2>2, CreditTotal DEF Deliver
    <2>6. UNCHANGED <<l1Vars, issued, exits>>
      BY <1>13 DEF Deliver
    <2>. QED  BY <1>0, <1>1, <1>2, <1>3, <1>5, <2>2, <2>4, <2>5, <2>6
           DEF NothingIsLostBetween, l1Vars, Total
  <1>14. ASSUME NEW i \in TicketNos, Bounce(i)
         PROVE  NothingIsLostBetween'
    <2>m. PICK m : m = [tickets[i] EXCEPT !.state = "bounced", !.exit = Len(exits) + 1]
      OBVIOUS
    <2>. DEFINE e == [to |-> tickets[i].from, amount |-> tickets[i].amount,
                      paid |-> FALSE, bounced |-> TRUE]
    <2>1. i \in DOMAIN tickets /\ tickets[i] \in Deposit /\ tickets[i].state = "open"
      BY <1>0, <1>14, DepositsAreDeposits DEF Bounce, Open
    <2>2. /\ tickets' = [tickets EXCEPT ![i] = m]
          /\ m.about = "deposit" /\ m.state = "bounced"
          /\ tickets[i].amount \in Nat /\ tickets[i].about = "deposit"
      BY <1>14, <2>m, <2>1 DEF Bounce, Deposit
    <2>3. /\ e \in Exit /\ exits' = Append(exits, e) /\ Len(exits) < MaxExits
          /\ ~e.paid /\ e.amount = tickets[i].amount
      BY <1>14, <2>1 DEF Bounce, Exit, Deposit
    <2>. HIDE DEF e
    <2>o. DOMAIN tickets' = DOMAIN tickets /\ tickets'[i] = m
          /\ \A k \in DOMAIN tickets \ {i} : tickets'[k] = tickets[k]
      BY <1>0, <2>1, <2>2 DEF TypeOK
    <2>4. NotMinted(i) = tickets[i].amount /\ NotMinted(i)' = 0
      BY <2>1, <2>2, <2>o DEF NotMinted
    <2>d. /\ Deposited' = Deposited + NotMinted(i)' - NotMinted(i)
          /\ Deposited \in Int
      BY <1>0, <2>1, <2>o, TicketEnds
    <2>5. Deposited' = Deposited - tickets[i].amount
      BY <2>2, <2>4, <2>d
    <2>6. Owed' = Owed + tickets[i].amount
      BY <1>0, <2>3, NewExit
    <2>7. UNCHANGED <<l1Vars, l2Vars>>
      BY <1>14 DEF Bounce
    <2>. QED  BY <1>0, <1>1, <1>2, <1>3, <2>2, <2>5, <2>6, <2>7
           DEF NothingIsLostBetween, l1Vars, l2Vars
  <1>15. ASSUME NEW j \in ExitNos, Execute(j)
         PROVE  NothingIsLostBetween'
    <2>1. /\ j \in DOMAIN exits /\ ~exits[j].paid /\ exits[j].amount <= escrow
          /\ escrow' = escrow - exits[j].amount
          /\ wspa' = [wspa EXCEPT ![Holder(j, exits[j].to)] = @ + exits[j].amount]
          /\ exits' = [exits EXCEPT ![j].paid = TRUE]
          /\ UNCHANGED <<spa, l2Vars, tickets>>
      BY <1>15 DEF Execute
    <2>2. exits[j] \in Exit /\ exits \in Seq(Exit)
      BY <1>0, <2>1 DEF TypeOK
    <2>3. Holder(j, exits[j].to) \in Users /\ exits[j].amount \in Nat
      BY <1>0, <2>2 DEF Holder, TypeOK, Exit
    <2>4. Total(wspa') = Total(wspa) + exits[j].amount
      BY <1>0, <2>1, <2>3, CreditTotal
    <2>5. /\ NotPaid(j) = exits[j].amount /\ NotPaid(j)' = 0
          /\ \A k \in ExitNos \ {j} : NotPaid(k)' = NotPaid(k)
      BY <2>1, <2>2 DEF NotPaid, Exit
    <2>6. Owed' = Owed - exits[j].amount
      BY <1>0, <1>1, <2>3, <2>5, OwedChanges
    <2>. QED  BY <1>0, <1>1, <1>2, <1>3, <1>4, <2>1, <2>3, <2>4, <2>6
           DEF NothingIsLostBetween, l2Vars, Total
  <1>16. CASE \/ \E s \in Settings : ChangeArbToken(s[1], s[2])
              \/ \E k \in ExitNos, u, v \in Users : TransferExit(k, u, v)
              \/ UNCHANGED vars
    BY <1>4, <1>6, <1>16 DEF ChangeArbToken, TransferExit, vars
  <1>. QED  BY <1>7, <1>8, <1>9, <1>10, <1>11, <1>12, <1>13, <1>14, <1>15, <1>16
         DEF Next, Redeem

LEMMA InitBetween == Init => Between
  <1>. SUFFICES ASSUME Init, TypeOK  PROVE NothingIsLostBetween
    BY InitTypeOK DEF Between
  <1>1. \A u \in Users : wspa[u] = 0 /\ balance[u] = 0
    BY DEF Init
  <1>2. Total(wspa) = 0 /\ Total(balance) = 0
    BY <1>1, SumZero, BridgeAssumption DEF Total
  <1>. DEFINE f == [k \in TicketNos |-> NotMinted(k)]
              g == [k \in ExitNos |-> NotPaid(k)]
  <1>3. (\A k \in TicketNos : f[k] = 0) /\ (\A k \in ExitNos : g[k] = 0)
    BY DEF Init, NotMinted, NotPaid
  <1>. HIDE DEF f, g
  <1>4. SumFunctionOnSet(f, TicketNos) = 0 /\ SumFunctionOnSet(g, ExitNos) = 0
    BY <1>3, SumZero, NumbersAreFinite
  <1>5. Deposited = 0 /\ Owed = 0
    BY <1>4 DEF Deposited, Owed, f, g
  <1>6. \A u \in Users : Stake[u] \in Int
    BY BridgeAssumption
  <1>7. Total(Stake) \in Int
    BY <1>6, SumInt, BridgeAssumption DEF Total
  <1>. QED  BY <1>2, <1>5, <1>7 DEF NothingIsLostBetween, Init

(* What the escrow holds, with what others minted on L2, is accounted for   *)
(* to the unit, whatever is redeemed, bounced, traded or lost in whatever   *)
(* order, for any number of accounts, tickets and exits.                    *)
THEOREM NothingLost == Spec => []NothingIsLostBetween
  <1>1. Between => NothingIsLostBetween
    BY DEF Between
  <1>. QED  BY <1>1, InitBetween, NextBetween, PTL DEF Spec

-----------------------------------------------------------------------------
(* The claims on the way to L2 are those of the open deposits, and no two   *)
(* bear the same number.                                                    *)
LEMMA ClaimsToL2 ==
    /\ \A c : c \in ToL2 <=> \E k \in DOMAIN tickets : Open(k, "deposit") /\ c = DepositClaim(k)
    /\ \A c \in ToL2 : c.no \in DOMAIN tickets
    /\ \A k, i : DepositClaim(k) = DepositClaim(i) => k = i
  <1>1. \A c : c \in ToL2 <=> \E k \in DOMAIN tickets : Open(k, "deposit") /\ c = DepositClaim(k)
    BY DEF ToL2
  <1>2. \A k : DepositClaim(k).no = k
    BY DEF DepositClaim
  <1>. QED  BY <1>1, <1>2

LEMMA SameClaims ==
    /\ UNCHANGED tickets => UNCHANGED ToL2
    /\ UNCHANGED exits => UNCHANGED ToL1
    /\ UNCHANGED redirect => UNCHANGED Holders
    /\ UNCHANGED <<spa, wspa>> => UNCHANGED OnL1
  BY DEF ToL2, DepositClaim, Open, ToL1, ExitClaim, Holders, Holder, OnL1

LEMMA DepositAdds ==
    ASSUME TypeOK, NEW d \in Deposit, d.state = "open", tickets' = Append(tickets, d),
           NEW k, k = Len(tickets) + 1
    PROVE  /\ \A c \in ToL2 : c.no # k
           /\ ToL2' = ToL2 \cup {[no |-> k, from |-> d.from, to |-> d.to,
                                  amount |-> d.amount]}
  <1>. DEFINE new == [no |-> k, from |-> d.from, to |-> d.to, amount |-> d.amount]
  <1>1. /\ tickets \in Seq(Message) /\ DOMAIN tickets = 1 .. Len(tickets) /\ Len(tickets) \in Nat
        /\ d \in Message
    BY DEF TypeOK, Message
  <1>2. /\ DOMAIN tickets' = 1 .. k
        /\ tickets'[k] = d
        /\ \A j \in DOMAIN tickets : tickets'[j] = tickets[j]
    BY <1>1, AppendProperties
  <1>3. \A j \in DOMAIN tickets : Open(j, "deposit")' = Open(j, "deposit")
    BY <1>1, <1>2 DEF Open
  <1>4. \A j \in DOMAIN tickets : DepositClaim(j)' = DepositClaim(j)
    BY <1>2 DEF DepositClaim
  <1>5. Open(k, "deposit")' /\ DepositClaim(k)' = new
    BY <1>1, <1>2 DEF Open, DepositClaim, Deposit
  <1>6. ToL2' = ToL2 \cup {new}
    <2>1. \A c : c \in ToL2' <=>
                   \E j \in DOMAIN tickets' : Open(j, "deposit")' /\ c = DepositClaim(j)'
      BY DEF ToL2
    <2>2. DOMAIN tickets' = DOMAIN tickets \cup {k}
      BY <1>1, <1>2
    <2>. HIDE DEF new
    <2>3. \A c : c \in ToL2' <=> c \in ToL2 \/ c = new
      BY <2>1, <2>2, <1>3, <1>4, <1>5, ClaimsToL2
    <2>. QED  BY <2>3
  <1>7. \A c \in ToL2 : c.no # k
    BY <1>1, ClaimsToL2
  <1>. QED  BY <1>6, <1>7

LEMMA DepositEnds ==
    ASSUME TypeOK, NEW i, Open(i, "deposit"), NEW m, m.state # "open",
           tickets' = [tickets EXCEPT ![i] = m]
    PROVE  DepositClaim(i) \in ToL2 /\ ToL2' = ToL2 \ {DepositClaim(i)}
  <1>1. /\ DOMAIN tickets' = DOMAIN tickets /\ i \in DOMAIN tickets /\ tickets'[i] = m
        /\ \A j \in DOMAIN tickets : j # i => tickets'[j] = tickets[j]
    BY DEF TypeOK, Open
  <1>2. ~Open(i, "deposit")'
    BY <1>1 DEF Open
  <1>3. \A j \in DOMAIN tickets : j # i => Open(j, "deposit")' = Open(j, "deposit")
    BY <1>1 DEF Open
  <1>4. \A j \in DOMAIN tickets : j # i => DepositClaim(j)' = DepositClaim(j)
    BY <1>1 DEF DepositClaim
  <1>5. \A c : c \in ToL2' <=>
                 \E j \in DOMAIN tickets' : Open(j, "deposit")' /\ c = DepositClaim(j)'
    BY DEF ToL2
  <1>6. \A c : c \in ToL2' <=> c \in ToL2 /\ c # DepositClaim(i)
    BY <1>1, <1>2, <1>3, <1>4, <1>5, ClaimsToL2
  <1>7. DepositClaim(i) \in ToL2
    BY <1>1, ClaimsToL2
  <1>. QED  BY <1>6, <1>7

(* What is registered is no claim.                                          *)
LEMMA RegistrationAdds ==
    ASSUME TypeOK, NEW r \in Registration, tickets' = Append(tickets, r),
           NEW k, k = Len(tickets) + 1
    PROVE  UNCHANGED ToL2
  <1>1. /\ tickets \in Seq(Message) /\ DOMAIN tickets = 1 .. Len(tickets) /\ Len(tickets) \in Nat
        /\ r \in Message
    BY DEF TypeOK, Message
  <1>2. /\ DOMAIN tickets' = 1 .. k
        /\ tickets'[k] = r
        /\ \A j \in DOMAIN tickets : tickets'[j] = tickets[j]
    BY <1>1, AppendProperties
  <1>3. \A j \in DOMAIN tickets : Open(j, "deposit")' = Open(j, "deposit")
    BY <1>1, <1>2 DEF Open
  <1>4. \A j \in DOMAIN tickets : DepositClaim(j)' = DepositClaim(j)
    BY <1>2 DEF DepositClaim
  <1>5. ~Open(k, "deposit")'
    BY <1>1, <1>2 DEF Open, Registration
  <1>6. \A c : c \in ToL2' <=>
                 \E j \in DOMAIN tickets' : Open(j, "deposit")' /\ c = DepositClaim(j)'
    BY DEF ToL2
  <1>7. DOMAIN tickets' = DOMAIN tickets \cup {k}
    BY <1>1, <1>2
  <1>8. \A c : c \in ToL2' <=> c \in ToL2
    BY <1>3, <1>4, <1>5, <1>6, <1>7, ClaimsToL2
  <1>. QED  BY <1>8

LEMMA RegistrationEnds ==
    ASSUME TypeOK, NEW i \in DOMAIN tickets, tickets[i] \in Registration,
           NEW m \in Registration, tickets' = [tickets EXCEPT ![i] = m]
    PROVE  UNCHANGED ToL2
  <1>1. /\ DOMAIN tickets' = DOMAIN tickets /\ tickets'[i] = m
        /\ \A j \in DOMAIN tickets : j # i => tickets'[j] = tickets[j]
    BY DEF TypeOK
  <1>2. ~Open(i, "deposit")' /\ ~Open(i, "deposit")
    BY <1>1 DEF Open, Registration
  <1>3. \A j \in DOMAIN tickets : j # i => Open(j, "deposit")' = Open(j, "deposit")
    BY <1>1 DEF Open
  <1>4. \A j \in DOMAIN tickets : j # i => DepositClaim(j)' = DepositClaim(j)
    BY <1>1 DEF DepositClaim
  <1>5. \A c : c \in ToL2' <=>
                 \E j \in DOMAIN tickets' : Open(j, "deposit")' /\ c = DepositClaim(j)'
    BY DEF ToL2
  <1>6. \A c : c \in ToL2' <=> c \in ToL2
    BY <1>1, <1>2, <1>3, <1>4, <1>5, ClaimsToL2
  <1>. QED  BY <1>6

-----------------------------------------------------------------------------
(* Likewise the claims on the way to L1.                                    *)
LEMMA ClaimsToL1 ==
    /\ \A c : c \in ToL1 <=> \E k \in DOMAIN exits : ~exits[k].paid /\ c = ExitClaim(k)
    /\ \A c \in ToL1 : c.no \in DOMAIN exits
    /\ \A k, i : ExitClaim(k) = ExitClaim(i) => k = i
  <1>1. \A c : c \in ToL1 <=> \E k \in DOMAIN exits : ~exits[k].paid /\ c = ExitClaim(k)
    BY DEF ToL1
  <1>2. \A k : ExitClaim(k).no = k
    BY DEF ExitClaim
  <1>. QED  BY <1>1, <1>2

LEMMA ExitAdds ==
    ASSUME TypeOK, NEW e \in Exit, ~e.paid, exits' = Append(exits, e),
           NEW k, k = Len(exits) + 1
    PROVE  /\ \A c \in ToL1 : c.no # k
           /\ ToL1' = ToL1 \cup {[no |-> k, to |-> e.to, amount |-> e.amount]}
  <1>. DEFINE new == [no |-> k, to |-> e.to, amount |-> e.amount]
  <1>1. exits \in Seq(Exit) /\ DOMAIN exits = 1 .. Len(exits) /\ Len(exits) \in Nat
    BY DEF TypeOK
  <1>2. /\ DOMAIN exits' = 1 .. k
        /\ exits'[k] = e
        /\ \A j \in DOMAIN exits : exits'[j] = exits[j]
    BY <1>1, AppendProperties
  <1>3. \A j \in DOMAIN exits : ExitClaim(j)' = ExitClaim(j)
    BY <1>2 DEF ExitClaim
  <1>4. ExitClaim(k)' = new
    BY <1>2 DEF ExitClaim
  <1>5. \A c : c \in ToL1' <=> \E j \in DOMAIN exits' : ~exits'[j].paid /\ c = ExitClaim(j)'
    BY DEF ToL1
  <1>6. DOMAIN exits' = DOMAIN exits \cup {k}
    BY <1>1, <1>2
  <1>7. \A c \in ToL1 : c.no # k
    BY <1>1, ClaimsToL1
  <1>. HIDE DEF new
  <1>8. \A c : c \in ToL1' <=> c \in ToL1 \/ c = new
    BY <1>2, <1>3, <1>4, <1>5, <1>6, ClaimsToL1
  <1>9. ToL1' = ToL1 \cup {new}
    BY <1>8
  <1>. QED  BY <1>7, <1>9 DEF new

LEMMA ExitEnds ==
    ASSUME TypeOK, NEW j \in DOMAIN exits, ~exits[j].paid,
           exits' = [exits EXCEPT ![j].paid = TRUE]
    PROVE  ExitClaim(j) \in ToL1 /\ ToL1' = ToL1 \ {ExitClaim(j)}
  <1>1. /\ DOMAIN exits' = DOMAIN exits /\ exits'[j].paid
        /\ \A k \in DOMAIN exits : k # j => exits'[k] = exits[k]
    <2>1. exits[j] \in Exit
      BY DEF TypeOK
    <2>. QED  BY <2>1 DEF TypeOK, Exit
  <1>2. \A k \in DOMAIN exits : k # j => ExitClaim(k)' = ExitClaim(k)
    BY <1>1 DEF ExitClaim
  <1>3. \A c : c \in ToL1' <=> \E k \in DOMAIN exits' : ~exits'[k].paid /\ c = ExitClaim(k)'
    BY DEF ToL1
  <1>4. \A c : c \in ToL1' <=> c \in ToL1 /\ c # ExitClaim(j)
    BY <1>1, <1>2, <1>3, ClaimsToL1
  <1>5. ExitClaim(j) \in ToL1
    BY ClaimsToL1
  <1>. QED  BY <1>4, <1>5

(* What an account has on L1 once its SPA and wrapped SPA are added up.     *)
LEMMA OnL1Is ==
    ASSUME TypeOK
    PROVE  /\ OnL1 \in Ledger
           /\ \A u \in Users : OnL1[u] = spa[u] + wspa[u]
  BY DEF OnL1, TypeOK, Ledger

-----------------------------------------------------------------------------
(* Every step of the bridge is one of CrossTransfers or changes nothing of  *)
(* what it speaks of.                                                       *)
Promised == <<OnL1, balance, ToL2, ToL1, Holders>>

LEMMA WrapStutters ==
    ASSUME TypeOK, NEW u \in Users, NEW n \in Amounts, Wrap(u, n) \/ Unwrap(u, n)
    PROVE  UNCHANGED Promised
  <1>1. n \in Nat /\ spa \in Ledger /\ wspa \in Ledger
    BY AmountsAreNat DEF TypeOK, Ledger
  <1>2. \A x \in Users : spa'[x] + wspa'[x] = spa[x] + wspa[x]
    BY <1>1 DEF Wrap, Unwrap, Ledger
  <1>3. OnL1' = OnL1
    BY <1>2 DEF OnL1
  <1>. QED  BY <1>3, SameClaims DEF Wrap, Unwrap, Promised, l2Vars

LEMMA IssueImplements ==
    ASSUME TypeOK, NEW u \in Users, NEW n \in Amounts, IssueOnL2(u, n) \/ BurnOnL2(u, n)
    PROVE  CrossTransfers!Next
  <1>1. n \in Nat /\ n # 0 /\ balance \in Ledger
    BY BridgeAssumption DEF TypeOK, Ledger
  <1>2. balance' = [balance EXCEPT ![u] = balance'[u]] /\ balance'[u] \in Nat
    <2>1. CASE IssueOnL2(u, n)  BY <1>1, <2>1 DEF IssueOnL2, Ledger
    <2>2. CASE BurnOnL2(u, n)   BY <1>1, <2>2 DEF BurnOnL2, Ledger
    <2>. QED  BY <2>1, <2>2
  <1>3. balance'[u] # balance[u]
    BY <1>1 DEF IssueOnL2, BurnOnL2, Ledger
  <1>4. UNCHANGED <<OnL1, ToL2, ToL1, Holders>>
    BY SameClaims DEF IssueOnL2, BurnOnL2, l1Vars
  <1>. QED  BY <1>2, <1>3, <1>4 DEF CrossTransfers!Next, CrossTransfers!Issue

LEMMA OutboundToL2Implements ==
    ASSUME TypeOK, NEW u \in Users, NEW v \in Users, NEW n \in Amounts, OutboundToL2(u, v, n)
    PROVE  CrossTransfers!Next
  <1>. DEFINE d == [about |-> "deposit", state |-> "open", from |-> u, to |-> v,
                    amount |-> n, exit |-> 0]
  <1>1. PICK k \in TicketNos : k = Len(tickets) + 1
    BY BridgeAssumption DEF OutboundToL2, TypeOK, TicketNos
  <1>2. d \in Deposit /\ d.state = "open" /\ tickets' = Append(tickets, d)
    BY DEF Deposit, OutboundToL2
  <1>3. /\ \A c \in ToL2 : c.no # k
        /\ ToL2' = ToL2 \cup {[no |-> k, from |-> u, to |-> v, amount |-> n]}
    <2>. HIDE DEF d
    <2>1. /\ \A c \in ToL2 : c.no # k
          /\ ToL2' = ToL2 \cup {[no |-> k, from |-> d.from, to |-> d.to, amount |-> d.amount]}
      BY <1>1, <1>2, DepositAdds
    <2>. QED  BY <2>1 DEF d
  <1>4. n <= OnL1[u] /\ OnL1' = [OnL1 EXCEPT ![u] = @ - n]
    <2>1. n \in Nat /\ spa \in Ledger /\ wspa \in Ledger
      BY AmountsAreNat DEF TypeOK, Ledger
    <2>2. n <= OnL1[u]
      BY <2>1 DEF OutboundToL2, OnL1, Ledger
    <2>3. \A x \in Users : spa'[x] + wspa'[x] = IF x = u THEN OnL1[x] - n ELSE OnL1[x]
      BY <2>1 DEF OutboundToL2, OnL1, Ledger
    <2>4. OnL1' = [x \in Users |-> IF x = u THEN OnL1[x] - n ELSE OnL1[x]]
      BY <2>3 DEF OnL1
    <2>. QED  BY <2>2, <2>4 DEF OnL1
  <1>5. UNCHANGED <<balance, ToL1, Holders>>
    BY SameClaims DEF OutboundToL2, l2Vars
  <1>6. CrossTransfers!SendToL2(k)
    <2>1. CrossTransfers!Fresh(ToL2, k)
      BY <1>3 DEF CrossTransfers!Fresh
    <2>2. ~CrossTransfers!Fresh(ToL2', k)
      <3>. DEFINE c == [no |-> k, from |-> u, to |-> v, amount |-> n]
      <3>1. c \in ToL2' /\ c.no = k
        BY <1>3
      <3>. QED  BY <3>1 DEF CrossTransfers!Fresh
    <2>. QED  BY <1>3, <1>4, <1>5, <2>1, <2>2 DEF CrossTransfers!SendToL2
  <1>. QED  BY <1>6 DEF CrossTransfers!Next

LEMMA OutboundToL1Implements ==
    ASSUME TypeOK, NEW u \in Users, NEW v \in Users, NEW n \in Amounts, OutboundToL1(u, v, n)
    PROVE  CrossTransfers!Next
  <1>. DEFINE e == [to |-> v, amount |-> n, paid |-> FALSE, bounced |-> FALSE]
  <1>1. PICK k \in ExitNos : k = Len(exits) + 1
    BY BridgeAssumption DEF OutboundToL1, TypeOK, ExitNos, MaxExits
  <1>2. e \in Exit /\ ~e.paid /\ exits' = Append(exits, e)
    BY DEF Exit, OutboundToL1
  <1>3. /\ \A c \in ToL1 : c.no # k
        /\ ToL1' = ToL1 \cup {[no |-> k, to |-> v, amount |-> n]}
    <2>. HIDE DEF e
    <2>1. /\ \A c \in ToL1 : c.no # k
          /\ ToL1' = ToL1 \cup {[no |-> k, to |-> e.to, amount |-> e.amount]}
      BY <1>1, <1>2, ExitAdds
    <2>. QED  BY <2>1 DEF e
  <1>4. n <= balance[u] /\ balance' = [balance EXCEPT ![u] = @ - n]
    BY DEF OutboundToL1
  <1>5. UNCHANGED <<OnL1, ToL2, Holders>>
    BY SameClaims DEF OutboundToL1, l1Vars
  <1>6. CrossTransfers!SendToL1(k)
    <2>1. CrossTransfers!Fresh(ToL1, k)
      BY <1>3 DEF CrossTransfers!Fresh
    <2>2. ~CrossTransfers!Fresh(ToL1', k)
      <3>. DEFINE c == [no |-> k, to |-> v, amount |-> n]
      <3>1. c \in ToL1' /\ c.no = k
        BY <1>3
      <3>. QED  BY <3>1 DEF CrossTransfers!Fresh
    <2>. QED  BY <1>3, <1>4, <1>5, <2>1, <2>2 DEF CrossTransfers!SendToL1
  <1>. QED  BY <1>6 DEF CrossTransfers!Next

LEMMA DeliverImplements ==
    ASSUME TypeOK, NEW i \in TicketNos, Deliver(i)
    PROVE  CrossTransfers!Next
  <1>1. Open(i, "deposit") /\ tickets[i] \in Deposit
    BY DepositsAreDeposits DEF Deliver
  <1>2. PICK c : c = DepositClaim(i)
    OBVIOUS
  <1>3. PICK m : m = [tickets[i] EXCEPT !.state = "minted"]
    OBVIOUS
  <1>4. m.state # "open" /\ tickets' = [tickets EXCEPT ![i] = m]
    BY <1>1, <1>3 DEF Deliver, Deposit
  <1>5. c \in ToL2 /\ ToL2' = ToL2 \ {c}
    BY <1>1, <1>2, <1>4, DepositEnds
  <1>6. balance' = [balance EXCEPT ![c.to] = @ + c.amount]
    BY <1>2 DEF Deliver, DepositClaim
  <1>7. UNCHANGED <<OnL1, ToL1, Holders>>
    BY SameClaims DEF Deliver, l1Vars
  <1>. QED  BY <1>5, <1>6, <1>7 DEF CrossTransfers!Next, CrossTransfers!PayOnL2

LEMMA BounceImplements ==
    ASSUME TypeOK, NEW i \in TicketNos, Bounce(i)
    PROVE  CrossTransfers!Next
  <1>1. Open(i, "deposit") /\ tickets[i] \in Deposit
    BY DepositsAreDeposits DEF Bounce
  <1>2. PICK c : c = DepositClaim(i)
    OBVIOUS
  <1>3. PICK m : m = [tickets[i] EXCEPT !.state = "bounced", !.exit = Len(exits) + 1]
    OBVIOUS
  <1>4. m.state # "open" /\ tickets' = [tickets EXCEPT ![i] = m]
    BY <1>1, <1>3 DEF Bounce, Deposit
  <1>5. c \in ToL2 /\ ToL2' = ToL2 \ {c}
    BY <1>1, <1>2, <1>4, DepositEnds
  <1>6. PICK k \in ExitNos : k = Len(exits) + 1
    BY BridgeAssumption DEF Bounce, TypeOK, ExitNos, MaxExits
  <1>7. PICK e : e = [to |-> tickets[i].from, amount |-> tickets[i].amount,
                      paid |-> FALSE, bounced |-> TRUE]
    OBVIOUS
  <1>8. e \in Exit /\ ~e.paid /\ exits' = Append(exits, e)
    BY <1>1, <1>7 DEF Bounce, Deposit, Exit
  <1>9. /\ \A x \in ToL1 : x.no # k
        /\ ToL1' = ToL1 \cup {[no |-> k, to |-> e.to, amount |-> e.amount]}
    BY <1>6, <1>8, ExitAdds
  <1>10. e.to = c.from /\ e.amount = c.amount
    BY <1>2, <1>7 DEF DepositClaim
  <1>11. UNCHANGED <<OnL1, balance, Holders>>
    BY SameClaims DEF Bounce, l1Vars, l2Vars
  <1>12. CrossTransfers!TurnBack(c, k)
    <2>1. CrossTransfers!Fresh(ToL1, k)
      BY <1>9 DEF CrossTransfers!Fresh
    <2>. QED  BY <1>5, <1>9, <1>10, <1>11, <2>1 DEF CrossTransfers!TurnBack
  <1>. QED  BY <1>5, <1>12 DEF CrossTransfers!Next

LEMMA ExpireImplements ==
    ASSUME TypeOK, NEW i \in TicketNos, Expire(i)
    PROVE  CrossTransfers!Next \/ UNCHANGED Promised
  <1>1. i \in DOMAIN tickets /\ tickets[i] \in Message
    BY DEF Expire, TypeOK, Message
  <1>2. UNCHANGED <<OnL1, balance, ToL1, Holders>>
    BY SameClaims DEF Expire, l1Vars, l2Vars
  <1>3. PICK m : m = [tickets[i] EXCEPT !.state = "expired"]
    OBVIOUS
  <1>4. tickets' = [tickets EXCEPT ![i] = m]
    BY <1>1, <1>3 DEF Expire
  <1>5. CASE tickets[i] \in Registration
    <2>1. m \in Registration
      BY <1>3, <1>5 DEF Registration
    <2>. QED  BY <1>1, <1>2, <1>4, <1>5, <2>1, RegistrationEnds DEF Promised
  <1>6. CASE tickets[i] \in Deposit
    <2>1. Open(i, "deposit") /\ m.state # "open"
      BY <1>1, <1>3, <1>6 DEF Open, Expire, Deposit
    <2>2. PICK c : c = DepositClaim(i)
      OBVIOUS
    <2>3. c \in ToL2 /\ ToL2' = ToL2 \ {c}
      BY <1>4, <2>1, <2>2, DepositEnds
    <2>. QED  BY <1>2, <2>3 DEF CrossTransfers!Next, CrossTransfers!Lose
  <1>. QED  BY <1>1, <1>5, <1>6 DEF Message

LEMMA RegistrationStutters ==
    ASSUME TypeOK, \/ \E a \in L2Addresses : RegisterTokenToL2(a) \/ ForceRegisterTokenToL2(a)
                   \/ \E i \in TicketNos : RegisterTokenFromL1(i)
    PROVE  UNCHANGED Promised
  <1>1. UNCHANGED <<OnL1, balance, ToL1, Holders>>
    BY SameClaims DEF RegisterTokenToL2, ForceRegisterTokenToL2, Register,
                      RegisterTokenFromL1, l1Vars, l2Vars
  <1>2. ASSUME NEW a \in L2Addresses, Register(a)
        PROVE  UNCHANGED ToL2
    <2>1. PICK r : r = [about |-> "token", state |-> "open", token |-> a]
      OBVIOUS
    <2>2. PICK k : k = Len(tickets) + 1
      OBVIOUS
    <2>3. r \in Registration
      BY <2>1 DEF Registration
    <2>4. tickets' = Append(tickets, r)
      BY <1>2, <2>1 DEF Register
    <2>. QED  BY <2>2, <2>3, <2>4, RegistrationAdds
  <1>3. ASSUME NEW i \in TicketNos, RegisterTokenFromL1(i)
        PROVE  UNCHANGED ToL2
    <2>1. i \in DOMAIN tickets /\ tickets[i] \in Registration
      BY <1>3, RegistrationsAreRegistrations DEF RegisterTokenFromL1, Open
    <2>2. PICK m : m = [tickets[i] EXCEPT !.state = "redeemed"]
      OBVIOUS
    <2>3. m \in Registration
      BY <2>1, <2>2 DEF Registration
    <2>4. tickets' = [tickets EXCEPT ![i] = m]
      BY <1>3, <2>1, <2>2 DEF RegisterTokenFromL1
    <2>. QED  BY <2>1, <2>3, <2>4, RegistrationEnds
  <1>. QED  BY <1>1, <1>2, <1>3 DEF RegisterTokenToL2, ForceRegisterTokenToL2, Promised

(* A redirected exit is paid to whoever it was redirected to.               *)
LEMMA HoldersAre ==
    ASSUME TypeOK, NEW k \in ExitNos, NEW u \in Users
    PROVE  Holders[<<k, u>>] = Holder(k, u) /\ Holder(k, u) \in Users
  <1>1. <<k, u>> \in ExitNos \X Users
    OBVIOUS
  <1>2. Holder(k, u) \in Users
    BY <1>1 DEF Holder, TypeOK
  <1>. QED  BY <1>1, <1>2 DEF Holders

LEMMA ExecuteImplements ==
    ASSUME TypeOK, NEW j \in ExitNos, Execute(j)
    PROVE  CrossTransfers!Next
  <1>1. j \in DOMAIN exits /\ exits[j] \in Exit /\ ~exits[j].paid
    BY DEF Execute, TypeOK
  <1>2. PICK c : c = ExitClaim(j)
    OBVIOUS
  <1>3. c.no = j /\ c.to = exits[j].to /\ c.amount = exits[j].amount
    BY <1>2 DEF ExitClaim
  <1>4. c \in ToL1 /\ ToL1' = ToL1 \ {c}
    BY <1>1, <1>2, ExitEnds DEF Execute
  <1>5. PICK h \in Users : h = Holder(j, exits[j].to) /\ h = Holders[<<c.no, c.to>>]
    BY <1>1, <1>3, HoldersAre DEF Exit
  <1>6. OnL1' = [OnL1 EXCEPT ![h] = @ + c.amount]
    <2>1. c.amount \in Nat /\ spa \in Ledger /\ wspa \in Ledger
      BY <1>1, <1>3, AmountsAreNat DEF TypeOK, Ledger, Exit
    <2>2. spa' = spa /\ wspa' = [wspa EXCEPT ![h] = @ + c.amount]
      BY <1>3, <1>5 DEF Execute
    <2>3. \A x \in Users : spa'[x] + wspa'[x] = IF x = h THEN OnL1[x] + c.amount ELSE OnL1[x]
      BY <2>1, <2>2 DEF OnL1, Ledger
    <2>4. OnL1' = [x \in Users |-> IF x = h THEN OnL1[x] + c.amount ELSE OnL1[x]]
      BY <2>3 DEF OnL1
    <2>. QED  BY <2>4 DEF OnL1
  <1>7. UNCHANGED <<balance, ToL2, Holders>>
    BY SameClaims DEF Execute, l2Vars
  <1>8. CrossTransfers!PayOnL1(c)
    BY <1>4, <1>5, <1>6, <1>7 DEF CrossTransfers!PayOnL1
  <1>. QED  BY <1>4, <1>8 DEF CrossTransfers!Next

LEMMA TransferImplements ==
    ASSUME TypeOK, NEW k \in ExitNos, NEW u \in Users, NEW v \in Users, TransferExit(k, u, v)
    PROVE  CrossTransfers!Next \/ UNCHANGED Promised
  <1>1. UNCHANGED <<OnL1, balance, ToL2, ToL1>>
    BY SameClaims DEF TransferExit, l1Vars, l2Vars
  <1>2. Holders' = [Holders EXCEPT ![<<k, u>>] = v]
    <2>1. \A c \in ExitNos \X Users : c = <<c[1], c[2]>>
      OBVIOUS
    <2>2. v # NoOne
      BY BridgeAssumption
    <2>3. \A c \in ExitNos \X Users :
             redirect'[c] = IF c = <<k, u>> THEN v ELSE redirect[c]
      BY DEF TransferExit, TypeOK
    <2>4. \A c \in ExitNos \X Users :
             Holder(c[1], c[2])' = IF c = <<k, u>> THEN v ELSE Holder(c[1], c[2])
      BY <2>1, <2>2, <2>3 DEF Holder
    <2>5. Holders' = [c \in ExitNos \X Users |->
                        IF c = <<k, u>> THEN v ELSE Holder(c[1], c[2])]
      BY <2>4 DEF Holders
    <2>. QED  BY <2>5 DEF Holders
  <1>3. CASE Holders' = Holders
    BY <1>1, <1>3 DEF Promised
  <1>4. CASE Holders' # Holders
    BY <1>1, <1>2, <1>4 DEF CrossTransfers!Next, CrossTransfers!HandOver
  <1>. QED  BY <1>3, <1>4

LEMMA NextImplements ==
    ASSUME TypeOK, [Next]_vars
    PROVE  CrossTransfers!Next \/ UNCHANGED Promised
  <1>1. ASSUME NEW u \in Users, NEW n \in Amounts,
               Wrap(u, n) \/ Unwrap(u, n) \/ IssueOnL2(u, n) \/ BurnOnL2(u, n)
        PROVE  CrossTransfers!Next \/ UNCHANGED Promised
    BY <1>1, WrapStutters, IssueImplements
  <1>2. ASSUME NEW u \in Users, NEW v \in Users, NEW n \in Amounts,
               OutboundToL2(u, v, n) \/ OutboundToL1(u, v, n)
        PROVE  CrossTransfers!Next
    BY <1>2, OutboundToL2Implements, OutboundToL1Implements
  <1>3. ASSUME NEW s \in Settings, ChangeArbToken(s[1], s[2])
        PROVE  UNCHANGED Promised
    BY <1>3, SameClaims DEF ChangeArbToken, Promised, l1Vars, l2Vars
  <1>4. ASSUME NEW a \in L2Addresses, RegisterTokenToL2(a) \/ ForceRegisterTokenToL2(a)
        PROVE  UNCHANGED Promised
    BY <1>4, RegistrationStutters
  <1>5. ASSUME NEW i \in TicketNos, Redeem(i) \/ Expire(i)
        PROVE  CrossTransfers!Next \/ UNCHANGED Promised
    <2>1. CASE RegisterTokenFromL1(i)  BY <2>1, RegistrationStutters
    <2>2. CASE Deliver(i)              BY <2>2, DeliverImplements
    <2>3. CASE Bounce(i)               BY <2>3, BounceImplements
    <2>4. CASE Expire(i)               BY <2>4, ExpireImplements
    <2>. QED  BY <1>5, <2>1, <2>2, <2>3, <2>4 DEF Redeem
  <1>6. ASSUME NEW j \in ExitNos, Execute(j)
        PROVE  CrossTransfers!Next
    BY <1>6, ExecuteImplements
  <1>7. ASSUME NEW k \in ExitNos, NEW u \in Users, NEW v \in Users, TransferExit(k, u, v)
        PROVE  CrossTransfers!Next \/ UNCHANGED Promised
    BY <1>7, TransferImplements
  <1>8. CASE UNCHANGED vars
    BY <1>8, SameClaims DEF vars, Promised, l1Vars, l2Vars
  <1>. QED  BY <1>1, <1>2, <1>3, <1>4, <1>5, <1>6, <1>7, <1>8 DEF Next

LEMMA InitImplements == Init => CrossTransfers!Init
  <1>. SUFFICES ASSUME Init PROVE CrossTransfers!Init
    OBVIOUS
  <1>1. OnL1 \in [Users -> Nat]
    BY BridgeAssumption DEF OnL1, Init
  <1>2. ToL2 = {} /\ ToL1 = {}
    BY DEF ToL2, ToL1, Init
  <1>3. Holders = [c \in ExitNos \X Users |-> c[2]]
    <2>1. \A c \in ExitNos \X Users : Holder(c[1], c[2]) = c[2]
      <3>1. \A c \in ExitNos \X Users : redirect[<<c[1], c[2]>>] = NoOne
        BY DEF Init
      <3>. QED  BY <3>1 DEF Holder
    <2>. QED  BY <2>1 DEF Holders
  <1>. QED  BY <1>1, <1>2, <1>3 DEF CrossTransfers!Init, Init

(* Whatever tickets are redeemed, bounced, left to expire or never redeemed, *)
(* whatever exits are traded and executed, and whatever is registered and    *)
(* changed meanwhile, the bridge pays each claim at most once, to its holder,*)
(* and pays nothing that was not taken on the other layer.                   *)
THEOREM ImplementsCrossTransfers == Spec => ImplementsTransfers
  <1>1. TypeOK /\ [Next]_vars => [CrossTransfers!Next]_<<OnL1, balance, ToL2, ToL1, Holders>>
    BY NextImplements DEF Promised
  <1>. QED  BY <1>1, InitImplements, TypeCorrect, PTL
         DEF Spec, ImplementsTransfers, CrossTransfers!Spec, CrossTransfers!vars
=============================================================================

