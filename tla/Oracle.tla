------------------------------- MODULE Oracle -------------------------------
(***************************************************************************)
(* The in/out ratio of contracts/oracle/Oracle.sol: how much USDs its users *)
(* redeem for each one they mint, over the last FREQUENCY updates.  Anyone *)
(* may call updateInOutRatio, at most once in updatePeriod; it reads the   *)
(* users' counters of USDsL2, which only grow (USDsL2!SupplyIsCounted),    *)
(* into two rings.  The price feeds are not part of this module.           *)
(***************************************************************************)
EXTENDS Naturals

CONSTANTS
    FREQUENCY,   \* 6 in the code
    Prec,        \* USDsInOutRatio_prec
    Wrap,        \* 2^32: what block.timestamp is taken modulo
    Periods,     \* values of updatePeriod the owner may set
    Default,     \* the one initialize sets: 12 hours
    Start,       \* block.timestamp of initialize
    MaxTime,     \* bound of the model on block.timestamp
    MaxFlow      \* bound of the model on each counter

ASSUME OracleAssumption ==
    /\ FREQUENCY \in Nat \ {0} /\ Wrap \in Nat \ {0}
    /\ {Prec, Start, MaxTime, MaxFlow} \subseteq Nat
    /\ Periods \subseteq Nat /\ Default \in Periods

VARIABLES
    USDsInflow, USDsOutflow, updateNextIndex, lastUpdateTime, updatePeriod,
    USDsInOutRatio,
    minted, burnt,   \* USDsL2.mintedViaUsers and burntViaUsers
    now,             \* block.timestamp
    updatedAt        \* history: block.timestamp of the latest update

rings == <<USDsInflow, USDsOutflow, updateNextIndex, USDsInOutRatio>>
clock == <<lastUpdateTime, updatedAt>>
flows == <<minted, burnt>>
vars == <<rings, clock, updatePeriod, flows, now>>

Slots == 0..FREQUENCY

uint32Time(t) == t % Wrap

Init ==
    /\ USDsInflow = [i \in Slots |-> 0] /\ USDsOutflow = [i \in Slots |-> 0]
    /\ updateNextIndex = 0 /\ USDsInOutRatio = 0
    /\ now = Start /\ updatedAt = Start
    /\ lastUpdateTime = uint32Time(Start)
    /\ updatePeriod = Default
    /\ minted = 0 /\ burnt = 0

-----------------------------------------------------------------------------
indexAfterShort(i) == (i + 1) % FREQUENCY    \* mutated
indexAfter(i) == (i + 1) % (FREQUENCY + 1)

ratioIdleAsRun(inflow, outflow) ==    \* mutated: idle reads as a run
    IF inflow = 0 THEN 10 * Prec ELSE (outflow * Prec) \div inflow
outflowRatio(inflow, outflow) ==
    IF inflow = 0 /\ outflow = 0 THEN Prec
    ELSE IF inflow = 0 THEN 10 * Prec
    ELSE (outflow * Prec) \div inflow

(* The subtraction is of uint32's; a last update later than now is refused  *)
(* before its result is used.                                               *)
isDueStrictly(currTime) ==    \* mutated
    currTime >= lastUpdateTime /\ currTime - lastUpdateTime > updatePeriod
isDue(currTime) ==
    currTime >= lastUpdateTime /\ currTime - lastUpdateTime >= updatePeriod

(* The rings once the counters have been read into the next slot.           *)
inflowRead  == [USDsInflow EXCEPT ![updateNextIndex] = minted]
outflowRead == [USDsOutflow EXCEPT ![updateNextIndex] = burnt]

(* Nothing refuses an update: it is due, and neither SafeMath subtraction   *)
(* of the oldest reading underflows.                                        *)
MayUpdate ==
    LET old == indexAfter(updateNextIndex)
    IN  /\ isDue(uint32Time(now))
        /\ inflowRead[old] <= minted /\ outflowRead[old] <= burnt

UpdateInOutRatio ==
    LET old == indexAfter(updateNextIndex)
    IN  /\ MayUpdate
        /\ USDsInflow' = inflowRead
        /\ USDsOutflow' = outflowRead
        /\ USDsInOutRatio' =
              outflowRatio(minted - inflowRead[old], burnt - outflowRead[old])
        /\ lastUpdateTime' = uint32Time(now)
        /\ updateNextIndex' = old
        /\ updatedAt' = now
        /\ UNCHANGED <<updatePeriod, flows, now>>

ChangePeriod(p) ==
    /\ updatePeriod' = p
    /\ UNCHANGED <<rings, clock, flows, now>>

(* The environment: users mint and burn, time passes.                       *)
Flow ==
    /\ \/ minted < MaxFlow /\ minted' = minted + 1 /\ UNCHANGED burnt
       \/ burnt < MaxFlow /\ burnt' = burnt + 1 /\ UNCHANGED minted
    /\ UNCHANGED <<rings, clock, updatePeriod, now>>

Tick ==
    /\ now < MaxTime
    /\ now' = now + 1
    /\ UNCHANGED <<rings, clock, updatePeriod, flows>>

Next == UpdateInOutRatio \/ (\E p \in Periods : ChangePeriod(p)) \/ Flow \/ Tick

Spec == Init /\ [][Next]_vars

-----------------------------------------------------------------------------
(* Properties.                                                             *)

(* The rings, the index and the times stay in range; the index in           *)
(* particular always names a slot.                                          *)
TypeOK ==
    /\ USDsInflow \in [Slots -> Nat] /\ USDsOutflow \in [Slots -> Nat]
    /\ updateNextIndex \in Slots /\ USDsInOutRatio \in Nat
    /\ lastUpdateTime \in 0..(Wrap - 1) /\ updatePeriod \in Periods
    /\ {minted, burnt, now, updatedAt} \subseteq Nat

(* The readings, oldest first: the slot to be written next is the oldest.   *)
Window ==
    [i \in 1..(FREQUENCY + 1) |->
        LET s == (updateNextIndex + i - 1) % (FREQUENCY + 1)
        IN  [minted |-> USDsInflow[s], burnt |-> USDsOutflow[s]]]

(* The rings implement the window: each update drops the oldest reading,    *)
(* adds the newest, and computes the ratio from those two ends.             *)
FlowWindow == INSTANCE FlowWindow
    WITH window <- Window, ratio <- USDsInOutRatio,
         Periods <- FREQUENCY, Precision <- Prec, QuietRatio <- 10 * Prec
ImplementsWindow == FlowWindow!Spec

(* Once updatePeriod has passed since the latest update the next one goes   *)
(* through: no subtraction of readings and no comparison of times refuses   *)
(* it (as long as block.timestamp has not passed Wrap).  What else an       *)
(* update does is assign.                                                   *)
DueUpdateIsOpen ==
    now - updatedAt >= updatePeriod /\ now < Wrap => MayUpdate

(* Every slot holds a reading no later one precedes: from the slot after    *)
(* the newest on round the ring, the flows never fall.                      *)
ReadingsInOrder ==
    \A i \in 1..FREQUENCY :
       /\ Window[i].minted <= Window[i + 1].minted
       /\ Window[i].burnt <= Window[i + 1].burnt
=============================================================================
