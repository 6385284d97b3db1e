----------------------------- MODULE FlowWindow -----------------------------
(***************************************************************************)
(* What the oracle promises of USDsInOutRatio: it keeps the last           *)
(* Periods + 1 readings of the users' flows, oldest first, and the ratio   *)
(* compares what flowed out between the oldest and the newest with what    *)
(* flowed in.  Oracle keeps them in two rings and one index.               *)
(***************************************************************************)
EXTENDS Naturals, Sequences

CONSTANTS
    Periods,     \* how many update periods the ratio looks back
    Precision,   \* the ratio of equal flows
    QuietRatio   \* the ratio of outflow with no inflow

VARIABLES window, ratio

Reading == [minted : Nat, burnt : Nat]

RatioOf(inflow, outflow) ==
    IF inflow > 0 THEN (outflow * Precision) \div inflow
    ELSE IF outflow > 0 THEN QuietRatio ELSE Precision

RatioOver(w) ==
    RatioOf(w[Len(w)].minted - w[1].minted, w[Len(w)].burnt - w[1].burnt)

Init ==
    /\ window = [i \in 1..(Periods + 1) |-> [minted |-> 0, burnt |-> 0]]
    /\ ratio = 0

(* A new reading r: the oldest is forgotten.  One that went back from the   *)
(* oldest left could not be compared with it and is not taken.              *)
Read(r) ==
    /\ r \in Reading
    /\ window' = Append(Tail(window), r)
    /\ window'[1].minted <= r.minted /\ window'[1].burnt <= r.burnt
    /\ ratio' = RatioOver(window')

Next == Read(window'[Len(window')])

Spec == Init /\ [][Next]_<<window, ratio>>
=============================================================================
