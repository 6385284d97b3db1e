--------------------------- MODULE RebasingLedger ---------------------------
(***************************************************************************)
(* What USDs promises as a ledger: calls move, create and destroy the      *)
(* amounts they name, up to what rounding adds to a receiver or takes from *)
(* an account that pays; a rebase treats all who share in it alike; nobody *)
(* comes to share in rebases, or stops, but by a choice made for the       *)
(* account or in a call that names it.  USDsL2 keeps credits, two kinds of *)
(* rates and two tallies to this end.                                      *)
(***************************************************************************)
EXTENDS Integers

CONSTANTS Accounts, Amounts

VARIABLES
    balance,
    supply,
    sharing,     \* the accounts that share in rebases
    grain        \* how coarse an account's balance is: what a call that
                 \* rounds may add or take

vars == <<balance, supply, sharing, grain>>

Init ==
    /\ balance = [a \in Accounts |-> 0]
    /\ supply = 0
    /\ sharing = Accounts
    /\ grain \in [Accounts -> Nat]

(* A call that names the accounts in S may end their share.                *)
Leave(S) == sharing' \subseteq sharing /\ sharing \subseteq sharing' \cup S

Transfer(from, to, n) ==
    /\ n <= balance[from]
    /\ \/ from = to /\ UNCHANGED balance
       \/ from # to /\ \E less \in 0 .. grain[from], more \in 0 .. grain[to] :
             balance' = [balance EXCEPT ![from] = @ - (n + less),
                                        ![to] = @ + (n + more)]
    /\ Leave({from, to})
    /\ UNCHANGED <<supply, grain>>

Mint(a, n) ==
    /\ \E more \in 0 .. grain[a] : balance' = [balance EXCEPT ![a] = @ + (n + more)]
    /\ supply' = supply + n
    /\ Leave({a})
    /\ UNCHANGED grain

(* A remainder may be burnt with the amount.                               *)
Burn(a, n) ==
    /\ n <= supply
    /\ \E less \in 0 .. 2 * grain[a] : balance' = [balance EXCEPT ![a] = @ - (n + less)]
    /\ supply' = supply - n
    /\ Leave({a})
    /\ UNCHANGED grain

OptIn(a) ==
    /\ grain' \in [Accounts -> Nat]
    /\ \A b \in Accounts \ {a} : grain'[b] = grain[b]
    /\ \E less \in 0 .. grain'[a] : balance' = [balance EXCEPT ![a] = @ - less]
    /\ sharing' = sharing \cup {a}
    /\ UNCHANGED supply

OptOut(a) ==
    /\ a \in sharing
    /\ sharing' = sharing \ {a}
    /\ UNCHANGED <<balance, supply, grain>>

(* The balances of all who share grow or shrink at one rate, to less than  *)
(* a unit; the others keep theirs.                                         *)
Rebase ==
    /\ balance' \in [Accounts -> Nat] /\ grain' \in [Accounts -> Nat]
    /\ \A a \in Accounts \ sharing : balance'[a] = balance[a] /\ grain'[a] = grain[a]
    /\ \A a, b \in sharing :
          balance'[a] * balance[b] < (balance[a] + 1) * (balance'[b] + 1)
    /\ supply' \in Nat
    /\ UNCHANGED sharing

Next ==
    \/ \E a, b \in Accounts, n \in Amounts : Transfer(a, b, n)
    \/ \E a \in Accounts, n \in Amounts : Mint(a, n) \/ Burn(a, n)
    \/ \E a \in Accounts : OptIn(a) \/ OptOut(a)
    \/ Rebase

Spec == Init /\ [][Next]_vars
=============================================================================
