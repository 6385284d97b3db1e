--------------------------- MODULE CrossTransfers ---------------------------
(***************************************************************************)
(* What the token bridge promises: two ledgers and the claims on the way   *)
(* between them.  What leaves one ledger becomes one claim, and a claim    *)
(* ends once: paid in full on the other ledger, turned back to its sender, *)
(* or, on the way to L2 only, lost because nobody took it up in time.      *)
(* Claims on L1 are tradeable: whoever holds one may hand it over, even    *)
(* before there is anything to claim.                                      *)
(***************************************************************************)
EXTENDS Integers

CONSTANTS Users, Amounts,
          TicketNos, ExitNos     \* the numbers claims on L2 and on L1 bear

VARIABLES l1, l2,                \* the ledgers
          toL2, toL1,            \* claims on the way
          holder                 \* who is paid what exit k owes to u

vars == <<l1, l2, toL2, toL1, holder>>

Deposit == [no : TicketNos, from : Users, to : Users, amount : Amounts]
Exit == [no : ExitNos, to : Users, amount : Amounts]

Init ==
    /\ l1 \in [Users -> Nat] /\ l2 = [u \in Users |-> 0]
    /\ toL2 = {} /\ toL1 = {}
    /\ holder = [c \in ExitNos \X Users |-> c[2]]

Fresh(cs, k) == \A c \in cs : c.no # k

SendToL2(k) ==
    /\ Fresh(toL2, k) /\ ~Fresh(toL2', k)
    /\ \E u, v \in Users, n \in Amounts :
           /\ n <= l1[u]
           /\ l1' = [l1 EXCEPT ![u] = @ - n]
           /\ toL2' = toL2 \cup {[no |-> k, from |-> u, to |-> v, amount |-> n]}
    /\ UNCHANGED <<l2, toL1, holder>>

SendToL1(k) ==
    /\ Fresh(toL1, k) /\ ~Fresh(toL1', k)
    /\ \E u, v \in Users, n \in Amounts :
           /\ n <= l2[u]
           /\ l2' = [l2 EXCEPT ![u] = @ - n]
           /\ toL1' = toL1 \cup {[no |-> k, to |-> v, amount |-> n]}
    /\ UNCHANGED <<l1, toL2, holder>>

PayOnL2(c) ==
    /\ toL2' = toL2 \ {c}
    /\ l2' = [l2 EXCEPT ![c.to] = @ + c.amount]
    /\ UNCHANGED <<l1, toL1, holder>>

TurnBack(c, k) ==
    /\ Fresh(toL1, k)
    /\ toL2' = toL2 \ {c}
    /\ toL1' = toL1 \cup {[no |-> k, to |-> c.from, amount |-> c.amount]}
    /\ UNCHANGED <<l1, l2, holder>>

Lose(c) ==
    /\ toL2' = toL2 \ {c}
    /\ UNCHANGED <<l1, l2, toL1, holder>>

PayOnL1(c) ==
    /\ toL1' = toL1 \ {c}
    /\ l1' = [l1 EXCEPT ![holder[<<c.no, c.to>>]] = @ + c.amount]
    /\ UNCHANGED <<l2, toL2, holder>>

HandOver ==
    /\ holder' # holder
    /\ \E u, v \in Users, k \in ExitNos : holder' = [holder EXCEPT ![<<k, u>>] = v]
    /\ UNCHANGED <<l1, l2, toL2, toL1>>

\* What others mint and burn on L2.
Issue ==
    /\ l2' # l2
    /\ \E u \in Users : l2' = [l2 EXCEPT ![u] = l2'[u]] /\ l2'[u] \in Nat
    /\ UNCHANGED <<l1, toL2, toL1, holder>>

Next ==
    \/ \E k \in TicketNos : SendToL2(k)
    \/ \E k \in ExitNos : SendToL1(k)
    \/ \E c \in toL2 : PayOnL2(c) \/ Lose(c) \/ \E k \in ExitNos : TurnBack(c, k)
    \/ \E c \in toL1 : PayOnL1(c)
    \/ HandOver \/ Issue

Spec == Init /\ [][Next]_vars
=============================================================================
