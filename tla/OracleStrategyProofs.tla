------------------------ MODULE OracleStrategyProofs ------------------------
(***************************************************************************)
(* Theorems about Oracle, for any number of periods, any precision and any *)
(* range of the clock; and about TwoPoolStrategy, for any pool, prices,    *)
(* amounts and limits: the types, what a withdrawal pays, what collecting  *)
(* interest leaves and how near checkBalance comes to the better coin.     *)
(* The two share nothing.                                                  *)
(***************************************************************************)
EXTENDS Oracle, TwoPoolStrategy, Integers, Sequences, SequenceTheorems, SumLemmas, TLAPS

-----------------------------------------------------------------------------
(* Oracle.                                                                 *)

(* The ring: the slot after i, and the k-th slot from i.                    *)
LEMMA Wraparound ==
    ASSUME NEW n \in Nat \ {0}, NEW x \in 0..(2 * n - 1)
    PROVE  x % n = IF x < n THEN x ELSE x - n
  <1>1. /\ x = n * (x \div n) + (x % n)
        /\ x % n \in 0..(n - 1) /\ x \div n \in Int
    BY SMT
  <1>2. CASE x < n
    BY <1>2, SMT
  <1>3. CASE x >= n
    BY <1>3, SMT
  <1>. QED  BY <1>2, <1>3

LEMMA IndexAfter ==
    ASSUME NEW i \in Slots
    PROVE  /\ indexAfter(i) = IF i = FREQUENCY THEN 0 ELSE i + 1
           /\ indexAfter(i) \in Slots /\ indexAfter(i) # i
  <1>. USE OracleAssumption
  <1>. DEFINE n == FREQUENCY + 1
              x == i + 1
  <1>1. n \in Nat \ {0} /\ x \in 0..(2 * n - 1)
    BY DEF Slots
  <1>. HIDE DEF n, x
  <1>2. x % n = IF x < n THEN x ELSE x - n
    BY <1>1, Wraparound
  <1>. QED  BY <1>2 DEF indexAfter, Slots, n, x

(* The slot of the k-th reading, oldest first, when the next index is i.    *)
SlotOf(i, k) == (i + k - 1) % (FREQUENCY + 1)

LEMMA SlotsInOrder ==
    ASSUME NEW i \in Slots, NEW k \in 1..(FREQUENCY + 1)
    PROVE  /\ SlotOf(i, k) = IF i + k - 1 <= FREQUENCY THEN i + k - 1
                             ELSE i + k - 2 - FREQUENCY
           /\ SlotOf(i, k) \in Slots
  <1>. USE OracleAssumption
  <1>. DEFINE n == FREQUENCY + 1
              x == i + k - 1
  <1>1. n \in Nat \ {0} /\ x \in 0..(2 * n - 1)
    BY DEF Slots
  <1>. HIDE DEF n, x
  <1>2. x % n = IF x < n THEN x ELSE x - n
    BY <1>1, Wraparound
  <1>. QED  BY <1>2 DEF SlotOf, Slots, n, x

(* After an update at i the k-th reading is the one that was the (k+1)-st,  *)
(* and the last one is at i.                                                *)
LEMMA SlotsShift ==
    ASSUME NEW i \in Slots
    PROVE  /\ SlotOf(i, 1) = i
           /\ SlotOf(indexAfter(i), FREQUENCY + 1) = i
           /\ \A k \in 1..FREQUENCY :
                 /\ SlotOf(indexAfter(i), k) = SlotOf(i, k + 1)
                 /\ SlotOf(indexAfter(i), k) # i
           /\ SlotOf(indexAfter(i), 1) = indexAfter(i)
  <1>. USE OracleAssumption
  <1>1. indexAfter(i) = (IF i = FREQUENCY THEN 0 ELSE i + 1) /\ indexAfter(i) \in Slots
    BY IndexAfter
  <1>. DEFINE j == indexAfter(i)
  <1>. HIDE DEF j
  <1>2. j = (IF i = FREQUENCY THEN 0 ELSE i + 1) /\ j \in Slots
    BY <1>1 DEF j
  <1>3. SlotOf(i, 1) = i /\ SlotOf(j, 1) = j
    <2>1. 1 \in 1..(FREQUENCY + 1)
      OBVIOUS
    <2>. QED  BY <1>2, <2>1, SlotsInOrder DEF Slots
  <1>4. SlotOf(j, FREQUENCY + 1) = i
    <2>1. FREQUENCY + 1 \in 1..(FREQUENCY + 1)
      OBVIOUS
    <2>2. SlotOf(j, FREQUENCY + 1) = IF j + (FREQUENCY + 1) - 1 <= FREQUENCY
             THEN j + (FREQUENCY + 1) - 1 ELSE j + (FREQUENCY + 1) - 2 - FREQUENCY
      BY <1>2, <2>1, SlotsInOrder
    <2>. QED  BY <1>2, <2>2 DEF Slots
  <1>5. ASSUME NEW k \in 1..FREQUENCY
        PROVE  SlotOf(j, k) = SlotOf(i, k + 1) /\ SlotOf(j, k) # i
    <2>1. k \in 1..(FREQUENCY + 1) /\ k + 1 \in 1..(FREQUENCY + 1)
      OBVIOUS
    <2>2. SlotOf(j, k) = IF j + k - 1 <= FREQUENCY THEN j + k - 1
                         ELSE j + k - 2 - FREQUENCY
      BY <1>2, <2>1, SlotsInOrder
    <2>3. SlotOf(i, k + 1) = IF i + (k + 1) - 1 <= FREQUENCY THEN i + (k + 1) - 1
                             ELSE i + (k + 1) - 2 - FREQUENCY
      BY <2>1, SlotsInOrder
    <2>. QED  BY <1>2, <2>2, <2>3 DEF Slots
  <1>. QED  BY <1>3, <1>4, <1>5 DEF j

-----------------------------------------------------------------------------
LEMMA InitTypeOK == Init => TypeOK
  <1>. USE OracleAssumption
  <1>1. Start % Wrap \in 0..(Wrap - 1)
    OBVIOUS
  <1>. QED  BY <1>1 DEF Init, TypeOK, Slots, uint32Time

LEMMA RatioIsNat ==
    ASSUME NEW a \in Nat, NEW b \in Nat
    PROVE  outflowRatio(a, b) \in Nat
  <1>. USE OracleAssumption
  <1>1. CASE a = 0
    BY <1>1 DEF outflowRatio
  <1>2. CASE a # 0
    <2>1. b * Prec \in Nat
      OBVIOUS
    <2>2. (b * Prec) \div a \in Nat
      BY <1>2, <2>1
    <2>. QED  BY <1>2, <2>2 DEF outflowRatio
  <1>. QED  BY <1>1, <1>2

LEMMA NextTypeOK == TypeOK /\ [Next]_vars => TypeOK'
  <1>. SUFFICES ASSUME TypeOK, [Next]_vars PROVE TypeOK'
    OBVIOUS
  <1>. USE OracleAssumption
  <1>1. CASE UpdateInOutRatio
    <2>. DEFINE old == indexAfter(updateNextIndex)
    <2>1. old \in Slots /\ old # updateNextIndex
      BY IndexAfter DEF TypeOK
    <2>2. /\ USDsInflow' \in [Slots -> Nat] /\ USDsOutflow' \in [Slots -> Nat]
          /\ updateNextIndex' = old
      BY <1>1 DEF UpdateInOutRatio, MayUpdate, inflowRead, outflowRead, TypeOK
    <2>3. USDsInOutRatio' \in Nat
      <3>1. /\ minted - USDsInflow'[old] \in Nat /\ burnt - USDsOutflow'[old] \in Nat
            /\ USDsInOutRatio' =
                  outflowRatio(minted - USDsInflow'[old], burnt - USDsOutflow'[old])
        BY <1>1, <2>1, <2>2 DEF UpdateInOutRatio, MayUpdate, inflowRead, outflowRead, TypeOK
      <3>. QED  BY <3>1, RatioIsNat
    <2>4. lastUpdateTime' \in 0..(Wrap - 1)
      BY <1>1 DEF UpdateInOutRatio, TypeOK, uint32Time
    <2>. QED  BY <1>1, <2>1, <2>2, <2>3, <2>4 DEF UpdateInOutRatio, TypeOK, flows
  <1>2. ASSUME NEW p \in Periods, ChangePeriod(p) PROVE TypeOK'
    BY <1>2 DEF ChangePeriod, TypeOK, rings, clock, flows
  <1>3. CASE Flow
    BY <1>3 DEF Flow, TypeOK, rings, clock
  <1>4. CASE Tick
    BY <1>4 DEF Tick, TypeOK, rings, clock, flows
  <1>5. CASE UNCHANGED vars
    BY <1>5 DEF vars, TypeOK, rings, clock, flows
  <1>. QED  BY <1>1, <1>2, <1>3, <1>4, <1>5 DEF Next

(* The index always names a slot of the rings and the stored time is a      *)
(* uint32.                                                                  *)
THEOREM TypeCorrect == Spec => []TypeOK
  BY InitTypeOK, NextTypeOK, PTL DEF Spec

-----------------------------------------------------------------------------
(* The readings never fall round the ring, and the newest is at most the    *)
(* counter it was read from, which only grows.                              *)
ReadBefore ==
    /\ Window[FREQUENCY + 1].minted <= minted
    /\ Window[FREQUENCY + 1].burnt <= burnt

RInv == TypeOK /\ ReadingsInOrder /\ ReadBefore

LEMMA WindowIs ==
    /\ Window = [i \in 1..(FREQUENCY + 1) |->
                   [minted |-> USDsInflow[SlotOf(updateNextIndex, i)],
                    burnt |-> USDsOutflow[SlotOf(updateNextIndex, i)]]]
    /\ Window' = [i \in 1..(FREQUENCY + 1) |->
                   [minted |-> USDsInflow'[SlotOf(updateNextIndex', i)],
                    burnt |-> USDsOutflow'[SlotOf(updateNextIndex', i)]]]
  BY DEF Window, SlotOf

LEMMA UnchangedWindow == UNCHANGED rings => UNCHANGED <<Window, USDsInOutRatio>>
  BY WindowIs DEF rings

(* What an update does to the readings.                                     *)
LEMMA UpdateShifts ==
    ASSUME TypeOK, UpdateInOutRatio
    PROVE  /\ \A k \in 1..FREQUENCY : Window'[k] = Window[k + 1]
           /\ Window'[FREQUENCY + 1] = [minted |-> minted, burnt |-> burnt]
           /\ Window'[1].minted = USDsInflow'[indexAfter(updateNextIndex)]
           /\ Window'[1].burnt = USDsOutflow'[indexAfter(updateNextIndex)]
  <1>. USE OracleAssumption
  <1>. DEFINE i == updateNextIndex
              j == indexAfter(i)
  <1>1. /\ i \in Slots /\ updateNextIndex' = j
        /\ USDsInflow' = [USDsInflow EXCEPT ![i] = minted]
        /\ USDsOutflow' = [USDsOutflow EXCEPT ![i] = burnt]
        /\ USDsInflow \in [Slots -> Nat] /\ USDsOutflow \in [Slots -> Nat]
    BY DEF TypeOK, UpdateInOutRatio, MayUpdate, inflowRead, outflowRead
  <1>2. /\ SlotOf(j, FREQUENCY + 1) = i
        /\ SlotOf(j, 1) = j
        /\ \A k \in 1..FREQUENCY : SlotOf(j, k) = SlotOf(i, k + 1) /\ SlotOf(j, k) # i
    BY <1>1, SlotsShift
  <1>3. j \in Slots
    BY <1>1, IndexAfter
  <1>. HIDE DEF i, j
  <1>4. ASSUME NEW k \in 1..FREQUENCY PROVE Window'[k] = Window[k + 1]
    <2>1. k \in 1..(FREQUENCY + 1) /\ k + 1 \in 1..(FREQUENCY + 1)
      OBVIOUS
    <2>2. SlotOf(j, k) \in Slots
      BY <1>3, <2>1, SlotsInOrder
    <2>3. /\ Window'[k] = [minted |-> USDsInflow'[SlotOf(j, k)],
                            burnt |-> USDsOutflow'[SlotOf(j, k)]]
          /\ Window[k + 1] = [minted |-> USDsInflow[SlotOf(i, k + 1)],
                               burnt |-> USDsOutflow[SlotOf(i, k + 1)]]
      BY <1>1, <2>1, WindowIs DEF i
    <2>4. SlotOf(j, k) = SlotOf(i, k + 1) /\ SlotOf(j, k) # i
      BY <1>2
    <2>5. /\ USDsInflow'[SlotOf(j, k)] = USDsInflow[SlotOf(j, k)]
          /\ USDsOutflow'[SlotOf(j, k)] = USDsOutflow[SlotOf(j, k)]
      BY <1>1, <2>2, <2>4
    <2>. QED  BY <2>3, <2>4, <2>5
  <1>5. Window'[FREQUENCY + 1] = [minted |-> minted, burnt |-> burnt]
    <2>1. FREQUENCY + 1 \in 1..(FREQUENCY + 1)
      OBVIOUS
    <2>2. Window'[FREQUENCY + 1] = [minted |-> USDsInflow'[i], burnt |-> USDsOutflow'[i]]
      BY <1>1, <1>2, <2>1, WindowIs
    <2>. QED  BY <1>1, <2>2
  <1>6. Window'[1] = [minted |-> USDsInflow'[j], burnt |-> USDsOutflow'[j]]
    <2>1. 1 \in 1..(FREQUENCY + 1)
      OBVIOUS
    <2>. QED  BY <1>1, <1>2, <2>1, WindowIs
  <1>. QED  BY <1>4, <1>5, <1>6 DEF i, j

(* Every reading is a pair of naturals.                                     *)
LEMMA WindowType ==
    ASSUME TypeOK, NEW k \in 1..(FREQUENCY + 1)
    PROVE  Window[k] \in [minted : Nat, burnt : Nat]
  <1>1. SlotOf(updateNextIndex, k) \in Slots
    BY SlotsInOrder DEF TypeOK
  <1>. QED  BY <1>1, WindowIs DEF TypeOK

LEMMA InitRInv == Init => RInv
  <1>. SUFFICES ASSUME Init PROVE RInv
    OBVIOUS
  <1>. USE OracleAssumption
  <1>1. TypeOK
    BY InitTypeOK
  <1>2. ASSUME NEW k \in 1..(FREQUENCY + 1)
        PROVE  Window[k] = [minted |-> 0, burnt |-> 0]
    <2>1. SlotOf(updateNextIndex, k) \in Slots
      BY <1>1, SlotsInOrder DEF TypeOK
    <2>. QED  BY <2>1, WindowIs DEF Init
  <1>3. ReadingsInOrder
    BY <1>2 DEF ReadingsInOrder
  <1>4. ReadBefore
    BY <1>2 DEF ReadBefore, Init
  <1>. QED  BY <1>1, <1>3, <1>4 DEF RInv

LEMMA NextRInv == RInv /\ [Next]_vars => RInv'
  <1>. SUFFICES ASSUME RInv, [Next]_vars PROVE RInv'
    OBVIOUS
  <1>. USE OracleAssumption
  <1>0. TypeOK /\ ReadingsInOrder /\ ReadBefore /\ TypeOK'
    BY NextTypeOK DEF RInv
  <1>1. CASE UpdateInOutRatio
    <2>1. /\ \A k \in 1..FREQUENCY : Window'[k] = Window[k + 1]
          /\ Window'[FREQUENCY + 1] = [minted |-> minted, burnt |-> burnt]
      BY <1>0, <1>1, UpdateShifts
    <2>2. ReadBefore'
      BY <1>0, <1>1, <2>1 DEF ReadBefore, UpdateInOutRatio, flows, TypeOK
    <2>3. ASSUME NEW k \in 1..FREQUENCY
          PROVE  /\ Window'[k].minted <= Window'[k + 1].minted
                 /\ Window'[k].burnt <= Window'[k + 1].burnt
      <3>1. CASE k = FREQUENCY
        <4>1. Window'[k] = Window[FREQUENCY + 1] /\ Window'[k + 1] = [minted |-> minted, burnt |-> burnt]
          BY <2>1, <3>1
        <4>. QED  BY <1>0, <4>1 DEF ReadBefore
      <3>2. CASE k # FREQUENCY
        <4>1. k + 1 \in 1..FREQUENCY
          BY <3>2
        <4>2. Window'[k] = Window[k + 1] /\ Window'[k + 1] = Window[(k + 1) + 1]
          BY <2>1, <4>1
        <4>. QED  BY <1>0, <4>1, <4>2 DEF ReadingsInOrder
      <3>. QED  BY <3>1, <3>2
    <2>4. ReadingsInOrder'
      BY <2>3 DEF ReadingsInOrder
    <2>. QED  BY <1>0, <2>2, <2>4 DEF RInv
  <1>2. CASE UNCHANGED rings
    <2>1. Window' = Window
      BY <1>2, UnchangedWindow
    <2>2. minted' >= minted /\ burnt' >= burnt
      <3>1. CASE UpdateInOutRatio
        BY <1>0, <3>1 DEF UpdateInOutRatio, flows, TypeOK
      <3>2. CASE ~UpdateInOutRatio
        BY <1>0, <3>2 DEF Next, ChangePeriod, Flow, Tick, vars, flows, TypeOK
      <3>. QED  BY <3>1, <3>2
    <2>3. ReadingsInOrder'
      BY <1>0, <2>1 DEF ReadingsInOrder
    <2>4. Window[FREQUENCY + 1] \in [minted : Nat, burnt : Nat]
      <3>1. FREQUENCY + 1 \in 1..(FREQUENCY + 1)
        OBVIOUS
      <3>. QED  BY <1>0, <3>1, WindowType
    <2>5. ReadBefore'
      BY <1>0, <2>1, <2>2, <2>4 DEF ReadBefore, TypeOK
    <2>. QED  BY <1>0, <2>3, <2>5 DEF RInv
  <1>3. UpdateInOutRatio \/ UNCHANGED rings
    BY DEF Next, ChangePeriod, Flow, Tick, vars
  <1>. QED  BY <1>1, <1>2, <1>3

(* Round the ring, from the oldest reading to the newest, the flows never   *)
(* fall: no subtraction of an update can underflow and stop the oracle.     *)
THEOREM ReadingsAreOrdered == Spec => []ReadingsInOrder
  <1>1. RInv => ReadingsInOrder
    BY DEF RInv
  <1>. QED  BY <1>1, InitRInv, NextRInv, PTL DEF Spec

-----------------------------------------------------------------------------
(* An update that is due.                                                   *)

(* The stored time is that of the latest update, which is never ahead.      *)
UInv ==
    /\ RInv
    /\ lastUpdateTime = uint32Time(updatedAt)
    /\ updatedAt <= now

LEMMA InitUInv == Init => UInv
  BY InitRInv, OracleAssumption DEF Init, UInv

LEMMA NextUInv == UInv /\ [Next]_vars => UInv'
  <1>. SUFFICES ASSUME UInv, [Next]_vars
                PROVE  lastUpdateTime' = uint32Time(updatedAt') /\ updatedAt' <= now'
    BY NextRInv DEF UInv
  <1>1. lastUpdateTime = uint32Time(updatedAt) /\ updatedAt <= now
        /\ now \in Nat /\ updatedAt \in Nat
    BY DEF UInv, RInv, TypeOK
  <1>2. CASE UpdateInOutRatio
    BY <1>1, <1>2 DEF UpdateInOutRatio
  <1>3. CASE UNCHANGED clock /\ now' \in {now, now + 1}
    BY <1>1, <1>3 DEF clock
  <1>4. UpdateInOutRatio \/ (UNCHANGED clock /\ now' \in {now, now + 1})
    BY DEF Next, ChangePeriod, Flow, Tick, vars
  <1>. QED  BY <1>2, <1>3, <1>4

(* Before the wrap a time is its own remainder.                             *)
LEMMA BeforeWrap ==
    ASSUME NEW t \in Nat, t < Wrap  PROVE uint32Time(t) = t
  BY OracleAssumption, SMT DEF uint32Time

(* What the rings hold once the counters are read in, the oldest reading    *)
(* included, is at most the counters.                                       *)
LEMMA OldestIsBehind ==
    ASSUME RInv
    PROVE  LET old == indexAfter(updateNextIndex)
           IN  inflowRead[old] <= minted /\ outflowRead[old] <= burnt
  <1>. USE OracleAssumption
  <1>. DEFINE old == indexAfter(updateNextIndex)
              n == FREQUENCY + 1
  <1>1. TypeOK /\ ReadingsInOrder /\ ReadBefore
    BY DEF RInv
  <1>2. old \in Slots /\ old # updateNextIndex
    BY <1>1, IndexAfter DEF TypeOK
  <1>3. inflowRead[old] = USDsInflow[old] /\ outflowRead[old] = USDsOutflow[old]
    BY <1>1, <1>2 DEF TypeOK, inflowRead, outflowRead
  <1>4. \A k \in 1..n : Window[k] \in [minted : Nat, burnt : Nat]
    BY <1>1, WindowType
  <1>5. Window[2].minted = USDsInflow[old] /\ Window[2].burnt = USDsOutflow[old]
    <2>1. 1 \in 1..FREQUENCY /\ 2 \in 1..n
      OBVIOUS
    <2>2. updateNextIndex \in Slots
      BY <1>1 DEF TypeOK
    <2>3. SlotOf(old, 1) = SlotOf(updateNextIndex, 1 + 1) /\ SlotOf(old, 1) = old
      BY <2>1, <2>2, SlotsShift
    <2>4. SlotOf(updateNextIndex, 2) = old
      BY <2>3
    <2>. QED  BY <2>1, <2>4, WindowIs
  <1>. HIDE DEF n, old
  <1>6. n \in Nat /\ n >= 2 /\ n = FREQUENCY + 1
    BY DEF n
  (* From the second reading on the flows never fall.                       *)
  <1>7. \A k \in Nat : k \in 2..n =>
           /\ Window[2].minted <= Window[k].minted
           /\ Window[2].burnt <= Window[k].burnt
    <2>. DEFINE Behind == {k \in Nat : k + 2 \in 2..n =>
                   /\ Window[2].minted <= Window[k + 2].minted
                   /\ Window[2].burnt <= Window[k + 2].burnt}
    <2>1. 0 \in Behind
      BY <1>4, <1>6
    <2>2. ASSUME NEW k \in Behind  PROVE k + 1 \in Behind
      <3>1. SUFFICES ASSUME (k + 1) + 2 \in 2..n
                     PROVE  /\ Window[2].minted <= Window[(k + 1) + 2].minted
                            /\ Window[2].burnt <= Window[(k + 1) + 2].burnt
        OBVIOUS
      <3>2. k + 2 \in 1..FREQUENCY /\ k + 2 \in 2..n /\ (k + 2) + 1 = (k + 1) + 2
        BY <1>6, <3>1
      <3>3. /\ Window[2].minted <= Window[k + 2].minted
            /\ Window[2].burnt <= Window[k + 2].burnt
        BY <3>2
      <3>4. /\ Window[k + 2].minted <= Window[(k + 1) + 2].minted
            /\ Window[k + 2].burnt <= Window[(k + 1) + 2].burnt
        BY <1>1, <3>2 DEF ReadingsInOrder
      <3>5. /\ Window[2] \in [minted : Nat, burnt : Nat]
            /\ Window[k + 2] \in [minted : Nat, burnt : Nat]
            /\ Window[(k + 1) + 2] \in [minted : Nat, burnt : Nat]
        BY <1>4, <1>6, <3>1, <3>2
      <3>. QED  BY <3>3, <3>4, <3>5
    <2>. HIDE DEF Behind
    <2>3. Behind = Nat
      BY <2>1, <2>2, NatSets DEF Behind
    <2>4. ASSUME NEW k \in Nat, k \in 2..n
          PROVE  /\ Window[2].minted <= Window[k].minted
                 /\ Window[2].burnt <= Window[k].burnt
      <3>1. k - 2 \in Nat /\ (k - 2) + 2 = k
        BY <2>4
      <3>2. k - 2 \in Behind
        BY <2>3, <3>1
      <3>. QED  BY <2>4, <3>1, <3>2 DEF Behind
    <2>. QED  BY <2>4
  <1>8. /\ Window[2].minted <= Window[n].minted
        /\ Window[2].burnt <= Window[n].burnt
    BY <1>6, <1>7
  <1>9. Window[n].minted <= minted /\ Window[n].burnt <= burnt
    BY <1>1 DEF ReadBefore, n
  <1>10. /\ Window[2] \in [minted : Nat, burnt : Nat]
         /\ Window[n] \in [minted : Nat, burnt : Nat]
         /\ minted \in Nat /\ burnt \in Nat
    BY <1>1, <1>4, <1>6 DEF TypeOK
  <1>. QED  BY <1>3, <1>5, <1>8, <1>9, <1>10 DEF old

(* Whoever calls once updatePeriod has passed gets the update, at any pace  *)
(* of flows and updates before and whatever period the owner set.           *)
THEOREM DueUpdatesAreOpen == Spec => []DueUpdateIsOpen
  <1>1. UInv => DueUpdateIsOpen
    <2>. SUFFICES ASSUME UInv, now - updatedAt >= updatePeriod, now < Wrap
                  PROVE  MayUpdate
      BY DEF DueUpdateIsOpen
    <2>1. /\ RInv /\ lastUpdateTime = uint32Time(updatedAt) /\ updatedAt <= now
          /\ now \in Nat /\ updatedAt \in Nat /\ updatePeriod \in Nat /\ Wrap \in Nat
      BY OracleAssumption DEF UInv, RInv, TypeOK
    <2>2. uint32Time(now) = now /\ lastUpdateTime = updatedAt
      BY <2>1, BeforeWrap
    <2>3. isDue(uint32Time(now))
      BY <2>1, <2>2 DEF isDue
    <2>. QED  BY <2>1, <2>3, OldestIsBehind DEF MayUpdate
  <1>. QED  BY <1>1, InitUInv, NextUInv, PTL DEF Spec

-----------------------------------------------------------------------------
(* The rings and the index implement the window.                            *)

LEMMA WindowSeq ==
    /\ Window \in Seq([minted : Nat, burnt : Nat]) <=>
         \A k \in 1..(FREQUENCY + 1) : Window[k] \in [minted : Nat, burnt : Nat]
    /\ Len(Window) = FREQUENCY + 1
  BY OracleAssumption, WindowIs

LEMMA RatiosAgree ==
    ASSUME NEW a \in Nat, NEW b \in Nat
    PROVE  outflowRatio(a, b) = FlowWindow!RatioOf(a, b)
  <1>. USE OracleAssumption
  <1>1. CASE a = 0
    BY <1>1 DEF outflowRatio, FlowWindow!RatioOf
  <1>2. CASE a # 0
    BY <1>2 DEF outflowRatio, FlowWindow!RatioOf
  <1>. QED  BY <1>1, <1>2

LEMMA InitImplements == Init => FlowWindow!Init
  <1>. SUFFICES ASSUME Init PROVE FlowWindow!Init
    OBVIOUS
  <1>. USE OracleAssumption
  <1>1. TypeOK
    BY InitTypeOK
  <1>2. ASSUME NEW k \in 1..(FREQUENCY + 1)
        PROVE  Window[k] = [minted |-> 0, burnt |-> 0]
    <2>1. SlotOf(updateNextIndex, k) \in Slots
      BY <1>1, SlotsInOrder DEF TypeOK
    <2>. QED  BY <2>1, WindowIs DEF Init
  <1>3. Window = [i \in 1..(FREQUENCY + 1) |-> [minted |-> 0, burnt |-> 0]]
    BY <1>2, WindowIs
  <1>. QED  BY <1>3 DEF Init, FlowWindow!Init

(* An appended sequence as a function of its indices.                       *)
LEMMA AppendFacts ==
    ASSUME NEW S, NEW t \in Seq(S), NEW x \in S
    PROVE  /\ \A k \in 1..Len(t) : Append(t, x)[k] = t[k]
           /\ Append(t, x)[Len(t) + 1] = x
           /\ Append(t, x) = [i \in 1..(Len(t) + 1) |-> Append(t, x)[i]]
  <1>1. /\ Append(t, x) \in Seq(S) /\ Len(Append(t, x)) = Len(t) + 1
        /\ \A k \in 1..Len(t) : Append(t, x)[k] = t[k]
        /\ Append(t, x)[Len(t) + 1] = x
    OBVIOUS
  <1>2. ASSUME NEW u \in Seq(S) PROVE u = [i \in 1..Len(u) |-> u[i]]
    OBVIOUS
  <1>. QED  BY <1>1, <1>2

LEMMA UpdateImplements ==
    ASSUME RInv, RInv', UpdateInOutRatio
    PROVE  FlowWindow!Next
  <1>. USE OracleAssumption
  <1>. DEFINE r == [minted |-> minted, burnt |-> burnt]
              old == indexAfter(updateNextIndex)
              n == FREQUENCY + 1
  <1>1. /\ \A k \in 1..FREQUENCY : Window'[k] = Window[k + 1]
        /\ Window'[n] = r
        /\ Window'[1].minted = USDsInflow'[old] /\ Window'[1].burnt = USDsOutflow'[old]
    BY UpdateShifts DEF RInv
  <1>2. r \in FlowWindow!Reading
    BY DEF RInv, TypeOK, FlowWindow!Reading
  <1>3. /\ \A k \in 1..n : Window[k] \in [minted : Nat, burnt : Nat]
        /\ Window \in Seq([minted : Nat, burnt : Nat]) /\ Len(Window) = n
    BY WindowType, WindowSeq DEF RInv
  <1>4. Window' = [i \in 1..n |-> Window'[i]] /\ Len(Window') = n
    <2>1. Window' = [i \in 1..n |->
                   [minted |-> USDsInflow'[SlotOf(updateNextIndex', i)],
                    burnt |-> USDsOutflow'[SlotOf(updateNextIndex', i)]]]
      BY WindowIs
    <2>. QED  BY <2>1
  <1>5. Window' = Append(Tail(Window), r)
    <2>1. /\ Tail(Window) \in Seq([minted : Nat, burnt : Nat])
          /\ Len(Tail(Window)) = FREQUENCY
          /\ \A k \in 1..FREQUENCY : Tail(Window)[k] = Window[k + 1]
      BY <1>3
    <2>2. /\ \A k \in 1..FREQUENCY : Append(Tail(Window), r)[k] = Window[k + 1]
          /\ Append(Tail(Window), r)[n] = r
          /\ Append(Tail(Window), r)
                = [i \in 1..n |-> Append(Tail(Window), r)[i]]
      <3>. DEFINE t == Tail(Window)
                  R == [minted : Nat, burnt : Nat]
      <3>1. r \in R /\ t \in Seq(R) /\ Len(t) = FREQUENCY
        BY <1>2, <2>1 DEF FlowWindow!Reading
      <3>. HIDE DEF r, t, R
      <3>2. /\ \A k \in 1..Len(t) : Append(t, r)[k] = t[k]
            /\ Append(t, r)[Len(t) + 1] = r
            /\ Append(t, r) = [i \in 1..(Len(t) + 1) |-> Append(t, r)[i]]
        BY <3>1, AppendFacts
      <3>3. /\ \A k \in 1..FREQUENCY : Append(t, r)[k] = t[k]
            /\ Append(t, r)[n] = r
            /\ Append(t, r) = [i \in 1..n |-> Append(t, r)[i]]
        BY <3>1, <3>2
      <3>. QED  BY <2>1, <3>3 DEF t
    <2>3. ASSUME NEW k \in 1..n PROVE Window'[k] = Append(Tail(Window), r)[k]
      <3>1. CASE k = n
        BY <1>1, <2>2, <3>1
      <3>2. CASE k # n
        <4>1. k \in 1..FREQUENCY
          BY <3>2
        <4>. QED  BY <1>1, <2>2, <4>1
      <3>. QED  BY <3>1, <3>2
    <2>. HIDE DEF r, n
    <2>. QED  BY <1>4, <2>2, <2>3
  <1>6. /\ Window'[1].minted <= r.minted /\ Window'[1].burnt <= r.burnt
        /\ r.minted - Window'[1].minted \in Nat /\ r.burnt - Window'[1].burnt \in Nat
    <2>1. old \in Slots
      BY IndexAfter DEF RInv, TypeOK
    <2>2. USDsInflow'[old] \in Nat /\ USDsOutflow'[old] \in Nat
      BY <2>1 DEF RInv, TypeOK
    <2>. QED  BY <1>1, <2>2 DEF UpdateInOutRatio, MayUpdate, inflowRead, outflowRead, RInv, TypeOK
  <1>7. USDsInOutRatio' = FlowWindow!RatioOver(Window')
    <2>1. USDsInOutRatio' =
             outflowRatio(r.minted - Window'[1].minted, r.burnt - Window'[1].burnt)
      BY <1>1 DEF UpdateInOutRatio
    <2>2. USDsInOutRatio' =
             FlowWindow!RatioOf(r.minted - Window'[1].minted, r.burnt - Window'[1].burnt)
      BY <1>6, <2>1, RatiosAgree
    <2>. QED  BY <1>1, <1>4, <2>2 DEF FlowWindow!RatioOver
  <1>8. FlowWindow!Read(r)
    BY <1>2, <1>5, <1>6, <1>7 DEF FlowWindow!Read
  <1>. QED  BY <1>1, <1>4, <1>8 DEF FlowWindow!Next

(* Every behaviour of the oracle is one of the window: the ratio the        *)
(* redemption fee is computed from is that of the last FREQUENCY updates.   *)
THEOREM ImplementsFlowWindow == Spec => ImplementsWindow
  <1>1. RInv /\ RInv' /\ [Next]_vars => [FlowWindow!Next]_<<Window, USDsInOutRatio>>
    <2>1. UpdateInOutRatio \/ UNCHANGED rings \/ ~[Next]_vars
      BY DEF Next, ChangePeriod, Flow, Tick, vars
    <2>. QED  BY <2>1, UpdateImplements, UnchangedWindow
  <1>2. Init => FlowWindow!Init
    BY InitImplements
  <1>. QED  BY <1>1, <1>2, InitRInv, NextRInv, PTL
         DEF Spec, ImplementsWindow, FlowWindow!Spec

-----------------------------------------------------------------------------
(* TwoPoolStrategy: arithmetic of the divisions.                           *)

LEMMA Quotient ==
    ASSUME NEW x \in Nat, NEW d \in Nat \ {0}
    PROVE  /\ x \div d \in Nat
           /\ (x \div d) * d <= x
           /\ x < (x \div d) * d + d
  BY SMT

LEMMA Product == ASSUME NEW x \in Nat, NEW y \in Nat PROVE x * y \in Nat
  BY SMT

LEMMA Times ==
    ASSUME NEW x \in Int, NEW y \in Int, NEW z \in Nat, x <= y
    PROVE  x * z <= y * z
  BY SMT

LEMMA Cancel ==
    ASSUME NEW x \in Int, NEW y \in Int, NEW d \in Nat \ {0}, x * d < y * d
    PROVE  x < y
  BY SMT

LEMMA Minus ==
    ASSUME NEW x \in Int, NEW y \in Int, NEW z \in Int
    PROVE  (x - y) * z = x * z - y * z
  BY SMT

LEMMA QuotientAtLeast ==
    ASSUME NEW x \in Nat, NEW d \in Nat \ {0}, NEW n \in Int, n * d <= x
    PROVE  n <= x \div d
  <1>. DEFINE q == x \div d
  <1>1. q \in Nat /\ x < q * d + d
    BY Quotient
  <1>. HIDE DEF q
  <1>2. (q + 1) * d = q * d + d /\ n * d \in Int /\ q * d \in Int
    BY <1>1, SMT
  <1>3. n * d < (q + 1) * d
    BY <1>1, <1>2
  <1>4. n < q + 1
    BY <1>1, <1>3, Cancel
  <1>. QED  BY <1>1, <1>4 DEF q

(* Burning the part of T LP tokens that o is of the M they fetch leaves     *)
(* enough of them to be worth the rest at the rate of all of them.          *)
LEMMA BurnLeaves ==
    ASSUME NEW T \in Nat \ {0}, NEW M \in Nat \ {0}, NEW o \in Nat, o <= M
    PROVE  LET b == (T * o) \div M
           IN  /\ b \in Nat /\ b <= T
               /\ M - o <= ((T - b) * M) \div T
  <1>. DEFINE b == (T * o) \div M
  <1>1. T * o \in Nat
    BY Product
  <1>2. b \in Nat /\ b * M <= T * o
    BY <1>1, Quotient
  <1>. HIDE DEF b
  <1>4. b <= T
    <2>1. T * o <= T * M
      BY SMT
    <2>2. (T + 1) * M = T * M + M /\ b * M \in Nat /\ T * M \in Nat
      BY <1>2, SMT
    <2>3. b * M < (T + 1) * M
      BY <1>1, <1>2, <2>1, <2>2
    <2>4. b < T + 1
      BY <1>2, <2>3, Cancel
    <2>. QED  BY <1>2, <2>4
  <1>. DEFINE left == T - b
              rest == M - o
  <1>5. left \in Nat /\ rest \in Nat
    BY <1>2, <1>4
  <1>6. rest * T <= left * M
    <2>1. rest * T = T * M - T * o /\ left * M = T * M - b * M
      <3>1. M * T = T * M /\ o * T = T * o
        BY SMT
      <3>2. rest * T = M * T - o * T
        BY Minus DEF rest
      <3>3. left * M = T * M - b * M
        BY <1>2, Minus DEF left
      <3>. QED  BY <3>1, <3>2, <3>3
    <2>2. T * M \in Nat /\ b * M \in Nat
      BY <1>2, Product
    <2>. QED  BY <1>1, <1>2, <2>1, <2>2
  <1>. HIDE DEF left, rest
  <1>7. rest <= (left * M) \div T
    BY <1>5, <1>6, Product, QuotientAtLeast
  <1>. QED  BY <1>2, <1>4, <1>7 DEF b, left, rest

(* What burning for n pays, g, when no fewer LP tokens fetch less than      *)
(* their share of the M that all T of them fetch, and one of them fetches   *)
(* c: at least n less c and one.                                            *)
LEMMA BurnPays ==
    ASSUME NEW T \in Nat \ {0}, NEW M \in Nat \ {0}, NEW n \in Nat,
           NEW b \in Nat, b = (T * n) \div M, NEW g \in Nat, NEW c \in Nat,
           (M * b) \div T <= g, (M * 1) \div T <= c
    PROVE  n <= g + c + 1
  <1>1. T * n \in Nat /\ M * b \in Nat /\ b * M = M * b /\ M * 1 = M
    BY Product
  <1>2. T * n < M * b + M
    BY <1>1, Quotient
  <1>3. M * b < (g + 1) * T
    <2>. DEFINE q == (M * b) \div T
    <2>1. q \in Nat /\ M * b < q * T + T /\ q <= g
      BY <1>1, Quotient
    <2>. HIDE DEF q
    <2>2. (q + 1) * T <= (g + 1) * T /\ (q + 1) * T = q * T + T
      BY <2>1, Times
    <2>3. q * T \in Nat /\ (g + 1) * T \in Nat
      BY <2>1, Product
    <2>. QED  BY <1>1, <2>1, <2>2, <2>3
  <1>4. M < (c + 1) * T
    <2>. DEFINE q == M \div T
    <2>1. q \in Nat /\ M < q * T + T /\ q <= c
      BY <1>1, Quotient
    <2>. HIDE DEF q
    <2>2. (q + 1) * T <= (c + 1) * T /\ (q + 1) * T = q * T + T
      BY <2>1, Times
    <2>3. q * T \in Nat /\ (c + 1) * T \in Nat
      BY <2>1, Product
    <2>. QED  BY <2>1, <2>2, <2>3
  <1>5. n * T < (g + c + 2) * T
    <2>1. (g + c + 2) * T = (g + 1) * T + (c + 1) * T /\ n * T = T * n
      BY SMT
    <2>2. (g + 1) * T \in Nat /\ (c + 1) * T \in Nat
      BY Product
    <2>. QED  BY <1>1, <1>2, <1>3, <1>4, <2>1, <2>2
  <1>6. n < g + c + 2
    BY <1>5, Cancel
  <1>. QED  BY <1>6

-----------------------------------------------------------------------------
(* The pool and the views.                                                 *)

LEMMA PoolFacts ==
    /\ LPUnit \in Nat \ {0} /\ PricePrec \in Nat \ {0} /\ SlippagePrec \in Nat \ {0}
    /\ supportedAssetIndex \in Indices /\ DOMAIN PoolCoins = Indices
    /\ PoolCoins[1] \in Coins /\ PoolCoins[2] \in Coins /\ PoolCoins[1] # PoolCoins[2]
  <1>1. LPUnit \in Nat \ {0} /\ PricePrec \in Nat \ {0} /\ SlippagePrec \in Nat \ {0}
    BY StrategyAssumption
  <1>2. supportedAssetIndex \in Indices /\ PoolCoins[1] # PoolCoins[2]
    BY StrategyAssumption
  <1>3. PoolCoins \in Seq(Coins) /\ Len(PoolCoins) = 2
    BY StrategyAssumption
  <1>4. DOMAIN PoolCoins = 1 .. 2
    BY <1>3
  <1>5. PoolCoins[1] \in Coins /\ PoolCoins[2] \in Coins
    BY <1>4 DEF Coins, Range
  <1>. QED  BY <1>1, <1>2, <1>4, <1>5 DEF Indices

LEMMA BoundTypes ==
    /\ Deposits \subseteq Nat \ {0} /\ Withdrawals \subseteq Nat \ {0}
    /\ Thresholds \subseteq Nat
    /\ MaxPTokens \in Nat /\ MaxGifts \in Nat
  BY StrategyAssumption

LEMMA CurveTypes ==
    ASSUME curve \in CurveStates
    PROVE  \A c \in Coins : /\ curve.pays[c] \in [0 .. MaxPTokens -> Nat]
                            /\ curve.price[c] \in Nat \ {0}
  BY StrategyAssumption

LEMMA CalcFacts ==
    ASSUME curve \in CurveStates, NEW k \in 0 .. MaxPTokens, NEW i \in Indices
    PROVE  /\ PoolCoins[i] \in Coins
           /\ CalcWithdraw(k, i) \in Nat
  <1>1. PoolCoins[i] \in Coins /\ curve.pays[PoolCoins[i]] \in [0 .. MaxPTokens -> Nat]
    BY PoolFacts, CurveTypes DEF Indices
  <1>. QED  BY <1>1 DEF CalcWithdraw

(* No fewer LP tokens fetch less than their share of the full balance.      *)
LEMMA Share ==
    ASSUME curve \in CurveStates, NEW m \in 1 .. MaxPTokens, NEW k \in 0 .. m,
           NEW i \in Indices
    PROVE  (CalcWithdraw(m, i) * k) \div m <= CalcWithdraw(k, i)
  <1>1. PoolCoins[i] \in Coins /\ \A c \in Coins : WorstAtFullBalance(curve.pays[c])
    BY PoolFacts, StrategyAssumption DEF Indices
  <1>. QED  BY <1>1 DEF CalcWithdraw, WorstAtFullBalance

LEMMA Total ==
    ASSUME StrategyTypeOK
    PROVE  totalPTokens \in 0 .. MaxPTokens /\ MaxPTokens \in Nat
  BY BoundTypes DEF StrategyTypeOK, totalPTokens

(* Burning at most what there is takes exactly that.                        *)
LEMMA BurnTakes ==
    ASSUME StrategyTypeOK, NEW lp \in Nat, NEW i \in Indices, Burn(lp, i)
    PROVE  /\ contractPTokens' \in Nat /\ gaugePTokens' \in Nat
           /\ lp <= totalPTokens /\ totalPTokens' = totalPTokens - lp
           /\ outside' \in [Coins -> Nat]
           /\ outside' = [outside EXCEPT ![PoolCoins[i]] = @ + CalcWithdraw(lp, i)]
           /\ curve' \in CurveStates
  <1>1. CalcWithdraw(lp, i) \in Nat /\ PoolCoins[i] \in Coins
    <2>1. lp \in 0 .. MaxPTokens
      BY Total DEF Burn
    <2>. QED  BY <2>1, CalcFacts DEF StrategyTypeOK
  <1>2. /\ contractPTokens \in Nat /\ gaugePTokens \in Nat /\ outside \in [Coins -> Nat]
    BY DEF StrategyTypeOK
  <1>3. /\ lp <= totalPTokens
        /\ contractPTokens' = IF contractPTokens < lp THEN 0 ELSE contractPTokens - lp
        /\ gaugePTokens' = IF contractPTokens < lp
                              THEN gaugePTokens - (lp - contractPTokens) ELSE gaugePTokens
        /\ outside' = [outside EXCEPT ![PoolCoins[i]] = @ + CalcWithdraw(lp, i)]
        /\ curve' \in CurveStates
    BY DEF Burn, PoolMoves
  <1>4. /\ contractPTokens' \in Nat /\ gaugePTokens' \in Nat
        /\ totalPTokens' = totalPTokens - lp
    <2>1. CASE contractPTokens < lp
      BY <1>2, <1>3, <2>1 DEF totalPTokens
    <2>2. CASE ~(contractPTokens < lp)
      BY <1>2, <1>3, <2>2 DEF totalPTokens
    <2>. QED  BY <2>1, <2>2
  <1>5. outside' \in [Coins -> Nat]
    BY <1>1, <1>2, <1>3
  <1>. QED  BY <1>3, <1>4, <1>5

-----------------------------------------------------------------------------
(* Collecting interest.                                                    *)

LEMMA ConvertFacts ==
    ASSUME StrategyTypeOK, BothMapped, NEW i \in Indices, NEW j \in Indices, NEW n \in Nat
    PROVE  /\ curve.price[assetsMapped[i]] \in Nat \ {0}
           /\ curve.price[assetsMapped[j]] \in Nat \ {0}
           /\ Convert(i, j, n) \in Nat
           /\ Convert(i, j, n) * curve.price[assetsMapped[j]]
                  <= n * curve.price[assetsMapped[i]]
  <1>1. assetsMapped[i] \in Coins /\ assetsMapped[j] \in Coins
    BY DEF StrategyTypeOK, BothMapped, Indices
  <1>2. curve.price[assetsMapped[i]] \in Nat \ {0} /\ curve.price[assetsMapped[j]] \in Nat \ {0}
    BY <1>1, CurveTypes DEF StrategyTypeOK
  <1>3. n * curve.price[assetsMapped[i]] \in Nat
    BY <1>2, Product
  <1>. QED  BY <1>2, <1>3, Quotient DEF Convert

(* The part of a value paid in another coin leaves the rest of the value:   *)
(* M coins at price p are worth B at price q, and the B - A of them above A *)
(* are owed as o coins.                                                     *)
LEMMA RestIsWorth ==
    ASSUME NEW M \in Nat, NEW B \in Nat, NEW A \in Nat, A <= B, NEW o \in Nat,
           NEW p \in Nat \ {0}, NEW q \in Nat \ {0},
           B * q <= M * p, o * p <= (B - A) * q
    PROVE  /\ o <= M
           /\ A * q <= (M - o) * p
  <1>1. (B - A) * q = B * q - A * q /\ (M - o) * p = M * p - o * p
    BY Minus
  <1>2. B * q \in Nat /\ A * q \in Nat /\ M * p \in Nat /\ o * p \in Nat
    BY Product
  <1>3. A * q <= (M - o) * p
    BY <1>1, <1>2
  <1>4. (M + 1) * p = M * p + p
    BY SMT
  <1>5. o * p < (M + 1) * p
    BY <1>1, <1>2, <1>4
  <1>6. o < M + 1
    BY <1>5, Cancel
  <1>. QED  BY <1>3, <1>6

(* What is owed is a part of what all LP tokens fetch, and the rest of that *)
(* is worth the principal.                                                  *)
LEMMA OwedFacts ==
    ASSUME StrategyTypeOK, BothMapped, NEW c \in Coins, checkInterestEarned(c) > 0
    PROVE  /\ returnIndex \in Indices
           /\ maxReturn \in Nat \ {0} /\ maxReturn = CalcWithdraw(totalPTokens, returnIndex)
           /\ Owed(c) \in Nat /\ Owed(c) <= maxReturn /\ totalPTokens # 0
           /\ \A n \in Nat : maxReturn - Owed(c) <= n =>
                 AsSupported(returnIndex, n) >= allocatedAmt[c]
  <1>. DEFINE i == returnIndex
              s == supportedAssetIndex
              M == maxReturn
              B == checkBalance
              A == allocatedAmt[c]
              I == checkInterestEarned(c)
  <1>1. i \in Indices /\ s \in Indices
    BY PoolFacts DEF returnIndex, Other, Indices
  <1>2. CalcWithdraw(totalPTokens, i) \in Nat
    BY <1>1, Total, CalcFacts DEF StrategyTypeOK
  <1>3. M \in Nat /\ (M # 0 => M = CalcWithdraw(totalPTokens, i) /\ totalPTokens # 0)
    <2>1. lpAssetThreshold \in Nat /\ totalPTokens \in Nat
      BY Total, BoundTypes DEF StrategyTypeOK
    <2>2. ~(totalPTokens > lpAssetThreshold) => M = 0
      BY DEF maxReturn, InOneCoin
    <2>3. totalPTokens > lpAssetThreshold => M = CalcWithdraw(totalPTokens, i)
      BY DEF maxReturn, InOneCoin
    <2>. HIDE DEF M, i
    <2>. QED  BY <1>2, <2>1, <2>2, <2>3
  <1>4. A \in Nat
    BY DEF StrategyTypeOK
  <1>. HIDE DEF i, s, M, A
  <1>5. CASE i = s
    <2>1. B = M /\ I = M - A /\ A < M /\ Owed(c) = I
      BY <1>3, <1>4, <1>5 DEF i, s, M, A, checkBalance, AsSupported,
         checkInterestEarned, Owed, FromSupported
    <2>2. \A n \in Nat : AsSupported(i, n) = n
      BY <1>5 DEF s, AsSupported
    <2>. QED  BY <1>1, <1>3, <1>4, <2>1, <2>2 DEF i, M, A
  <1>6. CASE i # s
    <2>. DEFINE p == curve.price[assetsMapped[i]]
                q == curve.price[assetsMapped[s]]
                o == Owed(c)
    <2>1. B = Convert(i, s, M) /\ o = Convert(s, i, I)
          /\ \A n \in Nat : AsSupported(i, n) = Convert(i, s, n)
      BY <1>6 DEF i, s, M, checkBalance, AsSupported, Owed, FromSupported
    <2>2. p \in Nat \ {0} /\ q \in Nat \ {0} /\ B \in Nat /\ B * q <= M * p
      BY <1>1, <1>3, <2>1, ConvertFacts
    <2>3. I = B - A /\ A < B /\ I \in Nat
      BY <1>4, <2>2 DEF A, checkInterestEarned
    <2>4. o \in Nat /\ o * p <= I * q
      BY <1>1, <2>1, <2>3, ConvertFacts
    <2>5. \A n \in Nat : Convert(i, s, n) = (n * p) \div q
      BY DEF Convert
    <2>. HIDE DEF p, q, o, B, I
    <2>6. o <= M /\ A * q <= (M - o) * p
      BY <1>3, <1>4, <2>2, <2>3, <2>4, RestIsWorth
    <2>7. M # 0
      <3>1. SUFFICES ASSUME M = 0  PROVE FALSE
        OBVIOUS
      <3>2. M * p = 0
        BY <2>2, <3>1, SMT
      <3>3. B * q < 1 * q
        BY <2>2, <3>2
      <3>4. B < 1
        BY <2>2, <3>3, Cancel
      <3>. QED  BY <1>4, <2>2, <2>3, <3>4
    <2>8. ASSUME NEW n \in Nat, M - o <= n
          PROVE  AsSupported(i, n) >= A
      <3>1. (M - o) * p <= n * p
        BY <1>3, <2>2, <2>4, <2>8, Times
      <3>2. n * p \in Nat /\ A * q \in Nat /\ (M - o) * p \in Int
        BY <1>3, <1>4, <2>2, <2>4, <2>6, Product
      <3>3. A * q <= n * p
        BY <2>6, <3>1, <3>2
      <3>4. A <= (n * p) \div q
        BY <1>4, <2>2, <3>2, <3>3, QuotientAtLeast
      <3>5. (n * p) \div q \in Nat
        BY <2>2, <3>2, Quotient
      <3>. QED  BY <1>4, <2>1, <2>5, <3>4, <3>5
    <2>. QED  BY <1>1, <1>3, <2>4, <2>6, <2>7, <2>8 DEF i, M, o, A
  <1>. QED  BY <1>5, <1>6

-----------------------------------------------------------------------------
(* Types.                                                                  *)

(* Removing one of the assets keeps the others, each of them once.          *)
LEMMA RemovalKeepsOthers ==
    ASSUME NEW list \in Seq(Coins), Len(list) <= 2,
           \A i, j \in DOMAIN list : list[i] = list[j] => i = j,
           NEW k \in DOMAIN list
    PROVE  LET rest == Front([list EXCEPT ![k] = Last(list)])
           IN  /\ rest \in Seq(Coins) /\ Len(rest) <= 2
               /\ \A i, j \in DOMAIN rest : rest[i] = rest[j] => i = j
  <1>. DEFINE moved == [list EXCEPT ![k] = Last(list)]
              rest == Front(moved)
  <1>1. Len(list) \in {1, 2} /\ DOMAIN list = 1 .. Len(list) /\ list[Len(list)] \in Coins
    <2>1. Len(list) \in Nat /\ DOMAIN list = 1 .. Len(list)
      BY LenProperties
    <2>2. Len(list) \in {1, 2} /\ Len(list) \in 1 .. Len(list)
      BY <2>1
    <2>. QED  BY <2>1, <2>2, ElementOfSeq
  <1>2. moved \in Seq(Coins) /\ Len(moved) = Len(list)
    BY <1>1, ExceptSeq DEF Last
  <1>. HIDE DEF moved
  <1>3. /\ rest \in Seq(Coins) /\ Len(rest) = Len(list) - 1
    BY <1>1, <1>2 DEF Front
  <1>4. Len(rest) \in {0, 1} /\ DOMAIN rest = 1 .. Len(rest)
    BY <1>1, <1>3
  <1>. HIDE DEF rest
  <1>5. \A i, j \in DOMAIN rest : i = j
    BY <1>4
  <1>6. rest \in Seq(Coins) /\ Len(rest) <= 2
        /\ \A i, j \in DOMAIN rest : rest[i] = rest[j] => i = j
    BY <1>3, <1>4, <1>5
  <1>. QED  BY <1>6 DEF rest, moved

LEMMA BurntIsNat ==
    ASSUME StrategyTypeOK, NEW n \in Nat, NEW M \in Nat \ {0}
    PROVE  (totalPTokens * n) \div M \in Nat
  <1>1. totalPTokens * n \in Nat
    BY Total, Product
  <1>. QED  BY <1>1, Quotient

(* No operation disturbs the types: what leaves a balance was in it, and an *)
(* asset is added only when it is not there.                                *)
LEMMA TypeStep == StrategyTypeOK /\ [StrategyNext]_strategyVars => StrategyTypeOK'
  <1>. SUFFICES ASSUME StrategyTypeOK, [StrategyNext]_strategyVars  PROVE StrategyTypeOK'
    OBVIOUS
  <1>1. ASSUME NEW c \in Coins, NEW n \in Deposits, NEW lp \in 0 .. MaxPTokens,
               Deposit(c, n, lp)
        PROVE  StrategyTypeOK'
    <2>1. n \in Nat
      BY BoundTypes
    <2>2. /\ allocatedAmt' = [allocatedAmt EXCEPT ![c] = @ + n]
          /\ outside' = [outside EXCEPT ![c] = @ - n] /\ n <= outside[c]
          /\ gaugePTokens' = gaugePTokens + contractPTokens + lp
          /\ contractPTokens' = 0 /\ totalPTokens + lp <= MaxPTokens
          /\ curve' \in CurveStates
          /\ UNCHANGED <<assetsMapped, limits, gifts>>
      BY <1>1 DEF Deposit, PoolMoves
    <2>3. allocatedAmt' \in [Coins -> Nat] /\ outside' \in [Coins -> Nat]
      BY <2>1, <2>2 DEF StrategyTypeOK
    <2>4. contractPTokens' \in Nat /\ gaugePTokens' \in Nat /\ totalPTokens' <= MaxPTokens
      BY <2>2, BoundTypes DEF StrategyTypeOK, totalPTokens
    <2>. QED  BY <2>2, <2>3, <2>4 DEF StrategyTypeOK, limits
  <1>2. ASSUME NEW c \in Coins, NEW n \in Withdrawals, Withdraw(c, n)
        PROVE  StrategyTypeOK'
    <2>1. n \in Nat /\ supportedAssetIndex \in Indices
      BY BoundTypes, PoolFacts
    <2>2. CalcWithdraw(totalPTokens, supportedAssetIndex) \in Nat \ {0}
      <3>1. CalcWithdraw(totalPTokens, supportedAssetIndex) \in Nat
        BY <2>1, Total, CalcFacts DEF StrategyTypeOK
      <3>. QED  BY <1>2, <3>1 DEF Withdraw
    <2>3. BurntFor(n) \in Nat
      BY <2>1, <2>2, BurntIsNat DEF BurntFor
    <2>4. /\ Burn(BurntFor(n), supportedAssetIndex)
          /\ UNCHANGED <<assetsMapped, limits, gifts>>
      BY <1>2 DEF Withdraw
    <2>5. CalcWithdraw(BurntFor(n), supportedAssetIndex) \in Nat
      <3>1. BurntFor(n) \in 0 .. MaxPTokens
        BY <2>3, <2>4, Total DEF Burn
      <3>. QED  BY <2>1, <3>1, CalcFacts DEF StrategyTypeOK
    <2>6. /\ contractPTokens' \in Nat /\ gaugePTokens' \in Nat /\ outside' \in [Coins -> Nat]
          /\ totalPTokens' <= MaxPTokens /\ curve' \in CurveStates
      <3>1. /\ contractPTokens' \in Nat /\ gaugePTokens' \in Nat /\ outside' \in [Coins -> Nat]
            /\ totalPTokens' = totalPTokens - BurntFor(n) /\ curve' \in CurveStates
        BY <2>1, <2>3, <2>4, BurnTakes
      <3>. QED  BY <2>3, <3>1, Total
    <2>7. allocatedAmt' \in [Coins -> Nat]
      <3>. DEFINE got == CalcWithdraw(BurntFor(n), supportedAssetIndex)
      <3>1. allocatedAmt' = [allocatedAmt EXCEPT ![c] = IF got >= @ THEN 0 ELSE @ - got]
        BY <1>2 DEF Withdraw
      <3>2. got \in Nat /\ allocatedAmt \in [Coins -> Nat]
        BY <2>5 DEF StrategyTypeOK
      <3>. HIDE DEF got
      <3>. QED  BY <3>1, <3>2
    <2>. QED  BY <2>4, <2>6, <2>7 DEF StrategyTypeOK, limits
  <1>3. ASSUME NEW c \in Coins, CollectInterest(c)
        PROVE  StrategyTypeOK'
    <2>. DEFINE lp == (totalPTokens * Owed(c)) \div maxReturn
    <2>1. /\ BothMapped /\ checkInterestEarned(c) > 0 /\ Burn(lp, returnIndex)
          /\ UNCHANGED <<assetsMapped, allocatedAmt, limits, gifts>>
      BY <1>3 DEF CollectInterest
    <2>2. returnIndex \in Indices /\ maxReturn \in Nat \ {0} /\ Owed(c) \in Nat
      BY <2>1, OwedFacts
    <2>3. lp \in Nat
      BY <2>2, BurntIsNat
    <2>. HIDE DEF lp
    <2>4. /\ contractPTokens' \in Nat /\ gaugePTokens' \in Nat /\ outside' \in [Coins -> Nat]
          /\ totalPTokens' <= MaxPTokens /\ curve' \in CurveStates
      <3>1. /\ contractPTokens' \in Nat /\ gaugePTokens' \in Nat /\ outside' \in [Coins -> Nat]
            /\ totalPTokens' = totalPTokens - lp /\ curve' \in CurveStates
        BY <2>1, <2>2, <2>3, BurnTakes
      <3>. QED  BY <2>3, <3>1, Total
    <2>. QED  BY <2>1, <2>4 DEF StrategyTypeOK, limits
  <1>4. ASSUME NEW c \in Coins, SetPTokenAddress(c)
        PROVE  StrategyTypeOK'
    <2>1. /\ c \notin Range(assetsMapped) /\ assetsMapped' = Append(assetsMapped, c)
          /\ UNCHANGED <<allocatedAmt, lpTokens, limits, curve, outside, gifts>>
      BY <1>4 DEF SetPTokenAddress
    <2>2. assetsMapped' \in Seq(Coins) /\ Len(assetsMapped') <= 2
          /\ \A i, j \in DOMAIN assetsMapped' : assetsMapped'[i] = assetsMapped'[j] => i = j
      <3>1. /\ assetsMapped \in Seq(Coins) /\ Len(assetsMapped) <= 2
            /\ \A i, j \in DOMAIN assetsMapped : assetsMapped[i] = assetsMapped[j] => i = j
            /\ \A i \in DOMAIN assetsMapped : assetsMapped[i] # c
        BY <2>1 DEF StrategyTypeOK, Range
      <3>2. Len(assetsMapped) <= 1
        <4>. DEFINE len == Len(assetsMapped)
        <4>1. len \in Nat /\ len <= 2
          BY <3>1, LenProperties
        <4>. SUFFICES ASSUME ~(len <= 1)  PROVE FALSE
          OBVIOUS
        <4>. HIDE DEF len
        <4>2. len = 2
          BY <4>1
        <4>3. DOMAIN assetsMapped = 1 .. 2 /\ assetsMapped \in [1 .. 2 -> Coins]
          BY <3>1, <4>2, LenProperties DEF len
        <4>4. /\ assetsMapped[1] \in Coins /\ assetsMapped[2] \in Coins
              /\ assetsMapped[1] # assetsMapped[2]
              /\ assetsMapped[1] # c /\ assetsMapped[2] # c
          BY <3>1, <4>3
        <4>5. \A x \in Coins : x = PoolCoins[1] \/ x = PoolCoins[2]
          BY PoolFacts DEF Coins, Range, Indices
        <4>. QED  BY <4>4, <4>5
      <3>3. /\ assetsMapped' \in Seq(Coins) /\ Len(assetsMapped') = Len(assetsMapped) + 1
            /\ \A i \in 1 .. Len(assetsMapped) : assetsMapped'[i] = assetsMapped[i]
            /\ assetsMapped'[Len(assetsMapped) + 1] = c
        BY <2>1, <3>1, LenProperties
      <3>4. /\ DOMAIN assetsMapped = 1 .. Len(assetsMapped) /\ Len(assetsMapped) \in Nat
            /\ DOMAIN assetsMapped' = 1 .. (Len(assetsMapped) + 1)
        BY <3>1, <3>3, LenProperties
      <3>5. ASSUME NEW i \in DOMAIN assetsMapped', NEW j \in DOMAIN assetsMapped',
                   assetsMapped'[i] = assetsMapped'[j]
            PROVE  i = j
        BY <3>1, <3>3, <3>4, <3>5
      <3>. QED  BY <3>2, <3>3, <3>4, <3>5
    <2>. QED  BY <2>1, <2>2 DEF StrategyTypeOK, limits, lpTokens, totalPTokens
  <1>5. ASSUME NEW k \in Indices, RemovePToken(k)
        PROVE  StrategyTypeOK'
    <2>1. /\ k \in DOMAIN assetsMapped /\ assetsMapped' = Without(k)
          /\ UNCHANGED <<allocatedAmt, lpTokens, limits, curve, outside, gifts>>
      BY <1>5 DEF RemovePToken
    <2>2. assetsMapped' \in Seq(Coins) /\ Len(assetsMapped') <= 2
          /\ \A i, j \in DOMAIN assetsMapped' : assetsMapped'[i] = assetsMapped'[j] => i = j
      <3>1. /\ assetsMapped \in Seq(Coins) /\ Len(assetsMapped) <= 2
            /\ \A i, j \in DOMAIN assetsMapped : assetsMapped[i] = assetsMapped[j] => i = j
        BY DEF StrategyTypeOK
      <3>. DEFINE rest == Front([assetsMapped EXCEPT ![k] = Last(assetsMapped)])
      <3>2. /\ rest \in Seq(Coins) /\ Len(rest) <= 2
            /\ \A i, j \in DOMAIN rest : rest[i] = rest[j] => i = j
        BY <2>1, <3>1, RemovalKeepsOthers
      <3>3. assetsMapped' = rest
        BY <2>1 DEF Without
      <3>. QED  BY <3>2, <3>3
    <2>. QED  BY <2>1, <2>2 DEF StrategyTypeOK, limits, lpTokens, totalPTokens
  <1>6. ASSUME NEW s \in Slippages, ChangeSlippage(s)
        PROVE  StrategyTypeOK'
    BY <1>6 DEF ChangeSlippage, StrategyTypeOK, lpTokens, totalPTokens
  <1>7. ASSUME NEW t \in Thresholds, ChangeThreshold(t)
        PROVE  StrategyTypeOK'
    BY <1>7 DEF ChangeThreshold, StrategyTypeOK, lpTokens, totalPTokens
  <1>8. ASSUME NEW s \in CurveStates, CurveMoves(s)
        PROVE  StrategyTypeOK'
    BY <1>8 DEF CurveMoves, StrategyTypeOK, lpTokens, limits, totalPTokens
  <1>9. CASE LPTokensArrive
    BY <1>9, BoundTypes DEF LPTokensArrive, StrategyTypeOK, limits, totalPTokens
  <1>10. CASE UNCHANGED strategyVars
    BY <1>10 DEF strategyVars, StrategyTypeOK, lpTokens, limits, totalPTokens
  <1>. QED  BY <1>1, <1>2, <1>3, <1>4, <1>5, <1>6, <1>7, <1>8, <1>9, <1>10 DEF StrategyNext

(* The strategy's numbers stay natural and its list of assets holds no      *)
(* asset twice, whatever TwoPoolStrategy's vault, owner and pool do.        *)
THEOREM StrategyTyped == StrategySpec => []StrategyTypeOK
  <1>1. StrategyInit => StrategyTypeOK
    <2>. SUFFICES ASSUME StrategyInit  PROVE StrategyTypeOK
      OBVIOUS
    <2>1. /\ assetsMapped \in Seq(Coins) /\ Len(assetsMapped) = 2
          /\ assetsMapped[1] # assetsMapped[2]
      BY StrategyAssumption DEF StrategyInit
    <2>2. \A i, j \in DOMAIN assetsMapped : assetsMapped[i] = assetsMapped[j] => i = j
      BY <2>1
    <2>3. lpAssetSlippage \in Slippages /\ lpAssetThreshold \in Thresholds
      BY StrategyAssumption DEF StrategyInit
    <2>4. outside \in [Coins -> Nat] /\ gifts \in 0 .. MaxGifts
      BY StrategyAssumption DEF StrategyInit
    <2>. QED  BY <2>1, <2>2, <2>3, <2>4, StrategyAssumption
         DEF StrategyInit, StrategyTypeOK, totalPTokens
  <1>. QED  BY <1>1, TypeStep, PTL DEF StrategySpec

-----------------------------------------------------------------------------
(* What the calls pay and leave.                                           *)

(* Burning for an amount, of LP tokens that fetch M together, pays it but   *)
(* for what one LP token fetches and one unit.                              *)
LEMMA BurnDelivers ==
    ASSUME StrategyTypeOK, NEW i \in Indices, NEW n \in Nat, NEW M \in Nat \ {0},
           M = CalcWithdraw(totalPTokens, i), totalPTokens # 0,
           Burn((totalPTokens * n) \div M, i)
    PROVE  n <= outside'[PoolCoins[i]] - outside[PoolCoins[i]] + CalcWithdraw(1, i) + 1
  <1>. DEFINE T == totalPTokens
              b == (T * n) \div M
  <1>1. T \in 1 .. MaxPTokens /\ T \in Nat \ {0} /\ b \in Nat
    BY Total, BurntIsNat
  <1>. HIDE DEF b
  <1>2. b <= T /\ outside' = [outside EXCEPT ![PoolCoins[i]] = @ + CalcWithdraw(b, i)]
    BY <1>1, BurnTakes DEF b
  <1>3. b \in 0 .. T /\ 1 \in 0 .. T /\ b \in 0 .. MaxPTokens /\ 1 \in 0 .. MaxPTokens
    BY <1>1, <1>2, Total
  <1>4. (M * b) \div T <= CalcWithdraw(b, i) /\ (M * 1) \div T <= CalcWithdraw(1, i)
    BY <1>1, <1>3, Share DEF StrategyTypeOK
  <1>5. CalcWithdraw(b, i) \in Nat /\ CalcWithdraw(1, i) \in Nat /\ PoolCoins[i] \in Coins
    BY <1>3, CalcFacts DEF StrategyTypeOK
  <1>6. n <= CalcWithdraw(b, i) + CalcWithdraw(1, i) + 1
    BY <1>1, <1>4, <1>5, BurnPays DEF b
  <1>7. outside'[PoolCoins[i]] - outside[PoolCoins[i]] = CalcWithdraw(b, i)
    BY <1>2, <1>5 DEF StrategyTypeOK
  <1>. QED  BY <1>6, <1>7

(* A withdrawal delivers what was asked for, short of it by one LP token's  *)
(* worth at most.                                                           *)
LEMMA WithdrawalStep ==
    ASSUME StrategyTypeOK, NEW c \in Coins, NEW n \in Withdrawals, Withdraw(c, n),
           PoolCoins[supportedAssetIndex] = c
    PROVE  n <= outside'[c] - outside[c] + CalcWithdraw(1, supportedAssetIndex) + 1
  <1>. DEFINE s == supportedAssetIndex
              M == CalcWithdraw(totalPTokens, s)
  <1>1. n \in Nat /\ s \in Indices
    BY BoundTypes, PoolFacts
  <1>2. M \in Nat \ {0} /\ totalPTokens # 0
    <2>1. M \in Nat /\ M > 0 /\ totalPTokens > lpAssetThreshold /\ lpAssetThreshold \in Nat
      BY <1>1, Total, CalcFacts, BoundTypes DEF StrategyTypeOK, Withdraw
    <2>. QED  BY <2>1, Total
  <1>3. Burn((totalPTokens * n) \div M, s)
    BY DEF Withdraw, BurntFor
  <1>. HIDE DEF M
  <1>. QED  BY <1>1, <1>2, <1>3, BurnDelivers DEF M

(* Every withdrawal delivers what was asked for but for one LP token's      *)
(* worth, when burning fewer LP tokens fetches their share or more.         *)
THEOREM WithdrawalsPay == StrategySpec => WithdrawalPays
  <1>1. StrategyTypeOK /\ [StrategyNext]_strategyVars =>
            [\A c \in Coins, n \in Withdrawals :
                (Withdraw(c, n) /\ PoolCoins[supportedAssetIndex] = c) =>
                    n <= outside'[c] - outside[c]
                            + CalcWithdraw(1, supportedAssetIndex) + 1]_strategyVars
    BY WithdrawalStep
  <1>. QED  BY <1>1, StrategyTyped, PTL DEF StrategySpec, WithdrawalPays

(* The interest is delivered, and the LP tokens that stay are worth what is *)
(* not owed, at the rate of the full balance and in what they fetch.        *)
TakesItsShare(c) ==
    LET paid == PoolCoins[returnIndex]
    IN  /\ Owed(c) <= outside'[paid] - outside[paid] + CalcWithdraw(1, returnIndex) + 1
        /\ AsSupported(returnIndex, (totalPTokens' * maxReturn) \div totalPTokens)
               >= allocatedAmt[c]
        /\ AsSupported(returnIndex, CalcWithdraw(totalPTokens', returnIndex))
               >= allocatedAmt[c]

LEMMA InterestStep ==
    ASSUME StrategyTypeOK, NEW c \in Coins, CollectInterest(c)
    PROVE  TakesItsShare(c)
  <1>. DEFINE i == returnIndex
              M == maxReturn
              o == Owed(c)
              T == totalPTokens
              lp == (T * o) \div M
  <1>1. BothMapped /\ checkInterestEarned(c) > 0 /\ Burn(lp, i)
    BY DEF CollectInterest
  <1>2. /\ i \in Indices /\ M \in Nat \ {0} /\ M = CalcWithdraw(T, i)
        /\ o \in Nat /\ o <= M /\ T # 0
        /\ \A n \in Nat : M - o <= n => AsSupported(i, n) >= allocatedAmt[c]
    BY <1>1, OwedFacts
  <1>3. T \in Nat \ {0} /\ T \in 1 .. MaxPTokens
    BY <1>2, Total
  <1>4. o <= outside'[PoolCoins[i]] - outside[PoolCoins[i]] + CalcWithdraw(1, i) + 1
    <2>. HIDE DEF i, M, o
    <2>. QED  BY <1>1, <1>2, BurnDelivers
  <1>. HIDE DEF i, M, o
  <1>5. lp \in Nat /\ lp <= T /\ M - o <= ((T - lp) * M) \div T
    BY <1>2, <1>3, BurnLeaves
  <1>6. totalPTokens' = T - lp
    BY <1>1, <1>2, <1>5, BurnTakes
  <1>. HIDE DEF lp
  <1>7. totalPTokens' \in 0 .. T /\ totalPTokens' \in 0 .. MaxPTokens /\ totalPTokens' \in Nat
    <2>. HIDE DEF T
    <2>. QED  BY <1>3, <1>5, <1>6, Total
  <1>8. M - o <= (totalPTokens' * M) \div T /\ (totalPTokens' * M) \div T \in Nat
    BY <1>2, <1>3, <1>5, <1>6, <1>7, Product, Quotient
  <1>9. (totalPTokens' * M) \div T <= CalcWithdraw(totalPTokens', i)
        /\ CalcWithdraw(totalPTokens', i) \in Nat
    <2>1. totalPTokens' * M = M * totalPTokens'
      BY <1>2, <1>7, SMT
    <2>2. (M * totalPTokens') \div T <= CalcWithdraw(totalPTokens', i)
      BY <1>2, <1>3, <1>7, Share DEF StrategyTypeOK
    <2>3. CalcWithdraw(totalPTokens', i) \in Nat
      BY <1>2, <1>7, CalcFacts DEF StrategyTypeOK
    <2>. QED  BY <2>1, <2>2, <2>3
  <1>10. M - o <= CalcWithdraw(totalPTokens', i)
    BY <1>2, <1>8, <1>9
  <1>11. /\ AsSupported(i, (totalPTokens' * M) \div T) >= allocatedAmt[c]
         /\ AsSupported(i, CalcWithdraw(totalPTokens', i)) >= allocatedAmt[c]
    BY <1>2, <1>8, <1>9, <1>10
  <1>. QED  BY <1>4, <1>11 DEF TakesItsShare, i, M, o

(* Collecting interest takes the interest's share of the LP tokens and      *)
(* leaves the principal's, in whichever coin it is paid.                    *)
THEOREM InterestIsAShare == StrategySpec => InterestTakesItsShare
  <1>1. StrategyTypeOK /\ [StrategyNext]_strategyVars =>
            [\A c \in Coins : CollectInterest(c) => TakesItsShare(c)]_strategyVars
    BY InterestStep
  <1>. QED  BY <1>1, StrategyTyped, PTL
       DEF StrategySpec, InterestTakesItsShare, TakesItsShare

-----------------------------------------------------------------------------
(* The coin that fetches more, or nearly.                                  *)

LEMMA Rearranged ==
    ASSUME NEW x \in Int, NEW y \in Int, NEW z \in Int
    PROVE  /\ x * y * z = x * (y * z) /\ x * y * z = x * z * y
           /\ x * y = y * x
  BY SMT

(* k coins at price p are worth no more than n at price q, and n at price p *)
(* less than m at price q: then k are worth less than m at the squares.     *)
LEMMA TwiceConverted ==
    ASSUME NEW n \in Nat, NEW m \in Nat, NEW k \in Nat,
           NEW p \in Nat \ {0}, NEW q \in Nat \ {0},
           k * p <= n * q, n * p < m * q
    PROVE  k * (p * p) < m * (q * q)
  <1>1. k * p * p <= n * q * p
    <2>1. k * p \in Int /\ n * q \in Int
      BY Product
    <2>. QED  BY <2>1, Times
  <1>2. n * p * q < m * q * q
    <2>1. n * p \in Int /\ m * q \in Int /\ n * p + 1 <= m * q
      BY Product
    <2>2. (n * p + 1) * q <= m * q * q
      BY <2>1, Times
    <2>3. (n * p + 1) * q = n * p * q + q
      BY <2>1, SMT
    <2>4. n * p * q \in Int /\ m * q * q \in Int
      BY Product
    <2>. QED  BY <2>2, <2>3, <2>4
  <1>3. /\ k * p * p = k * (p * p) /\ m * q * q = m * (q * q)
        /\ n * q * p = n * p * q
    BY Rearranged
  <1>4. k * (p * p) \in Int /\ m * (q * q) \in Int /\ n * p * q \in Int
    BY Product
  <1>. QED  BY <1>1, <1>2, <1>3, <1>4

(* Such a bound also holds with the larger price on the larger side.        *)
LEMMA Widened ==
    ASSUME NEW k \in Nat, NEW m \in Nat, NEW p \in Nat \ {0}, NEW q \in Nat \ {0},
           q <= p, k * (p * p) < m * (q * q)
    PROVE  k * (q * q) < m * (p * p)
  <1>1. q * q \in Nat /\ p * p \in Nat /\ q * p \in Nat
    BY Product
  <1>2. q * q <= p * p
    <2>1. q * q <= p * q /\ q * p <= p * p
      BY Times
    <2>. QED  BY <1>1, <2>1, Rearranged
  <1>3. q * q * k <= p * p * k /\ q * q * m <= p * p * m
    BY <1>1, <1>2, Times
  <1>4. /\ q * q * k = k * (q * q) /\ p * p * k = k * (p * p)
        /\ q * q * m = m * (q * q) /\ p * p * m = m * (p * p)
    BY <1>1, Rearranged
  <1>5. /\ k * (q * q) \in Int /\ k * (p * p) \in Int
        /\ m * (q * q) \in Int /\ m * (p * p) \in Int
    BY <1>1, Product
  <1>. QED  BY <1>3, <1>4, <1>5

(* Converting loses less than a unit.                                       *)
LEMMA ConvertLoses ==
    ASSUME StrategyTypeOK, BothMapped, NEW i \in Indices, NEW j \in Indices, NEW n \in Nat
    PROVE  n * curve.price[assetsMapped[i]]
               < (Convert(i, j, n) + 1) * curve.price[assetsMapped[j]]
  <1>. DEFINE p == curve.price[assetsMapped[i]]
              q == curve.price[assetsMapped[j]]
              x == Convert(i, j, n)
  <1>1. p \in Nat \ {0} /\ q \in Nat \ {0} /\ x \in Nat /\ x = (n * p) \div q
    BY ConvertFacts DEF Convert
  <1>. HIDE DEF p, q, x
  <1>2. n * p \in Nat /\ x * q \in Nat
    BY <1>1, Product
  <1>3. n * p < x * q + q
    BY <1>1, <1>2, Quotient
  <1>4. (x + 1) * q = x * q + q
    BY <1>1, SMT
  <1>. QED  BY <1>3, <1>4 DEF p, q, x

LEMMA NearMax == StrategyTypeOK => CheckBalanceIsNearMax
  <1>. SUFFICES ASSUME StrategyTypeOK, BothMapped
                PROVE  LET s == curve.price[assetsMapped[supportedAssetIndex]]
                           o == curve.price[assetsMapped[Other(supportedAssetIndex)]]
                       IN  IF s <= o THEN passedOver * (s * s) < (checkBalance + 1) * (o * o)
                           ELSE passedOver * (o * o) < (checkBalance + 1) * (s * s)
    BY DEF CheckBalanceIsNearMax
  <1>. DEFINE i == supportedAssetIndex
              j == Other(supportedAssetIndex)
              s == curve.price[assetsMapped[i]]
              o == curve.price[assetsMapped[j]]
              S == InOneCoin(i)
              O == InOneCoin(j)
              x == Convert(i, j, O)
              B == checkBalance
              missed == passedOver
  <1>1. i \in Indices /\ j \in Indices /\ i # j /\ Other(j) = i
    BY PoolFacts DEF Other, Indices
  <1>2. S \in Nat /\ O \in Nat
    BY <1>1, Total, CalcFacts DEF StrategyTypeOK, InOneCoin
  <1>3. KeepsCoin <=> S > x
    BY DEF KeepsCoin
  <1>4. KeepsCoin => B = S /\ missed = Convert(j, i, O)
    BY <1>1 DEF returnIndex, maxReturn, checkBalance, passedOver, AsSupported
  <1>5. ~KeepsCoin => B = Convert(j, i, O) /\ missed = S
    BY <1>1 DEF returnIndex, maxReturn, checkBalance, passedOver, AsSupported
  <1>6. /\ s \in Nat \ {0} /\ o \in Nat \ {0} /\ x \in Nat
        /\ x * o <= O * s /\ O * s < (x + 1) * o
    BY <1>1, <1>2, ConvertFacts, ConvertLoses
  <1>7. /\ Convert(j, i, O) \in Nat
        /\ Convert(j, i, O) * s <= O * o /\ O * o < (Convert(j, i, O) + 1) * s
    BY <1>1, <1>2, ConvertFacts, ConvertLoses
  <1>. HIDE DEF i, j, s, o, S, O, x, B, missed
  <1>8. B \in Nat /\ missed \in Nat
    BY <1>2, <1>4, <1>5, <1>7
  <1>9. CASE KeepsCoin
    <2>1. O * s < (B + 1) * o
      <3>1. x + 1 <= B + 1
        BY <1>2, <1>3, <1>4, <1>6, <1>9
      <3>2. (x + 1) * o <= (B + 1) * o
        BY <1>6, <1>8, <3>1, Times
      <3>3. O * s \in Int /\ (x + 1) * o \in Int /\ (B + 1) * o \in Int
        BY <1>2, <1>6, <1>8, Product
      <3>. QED  BY <1>6, <3>2, <3>3
    <2>2. missed * (s * s) < (B + 1) * (o * o)
      BY <1>2, <1>4, <1>6, <1>7, <1>8, <1>9, <2>1, TwiceConverted
    <2>3. o <= s => missed * (o * o) < (B + 1) * (s * s)
      BY <1>6, <1>8, <2>2, Widened
    <2>4. IF s <= o THEN missed * (s * s) < (B + 1) * (o * o)
          ELSE missed * (o * o) < (B + 1) * (s * s)
      BY <1>6, <2>2, <2>3
    <2>. QED  BY <2>4 DEF i, j, s, o, B, missed
  <1>10. CASE ~KeepsCoin
    <2>1. missed * o <= O * s
      <3>1. missed <= x
        BY <1>2, <1>3, <1>5, <1>6, <1>10
      <3>2. missed * o <= x * o
        BY <1>6, <1>8, <3>1, Times
      <3>3. missed * o \in Int /\ x * o \in Int /\ O * s \in Int
        BY <1>2, <1>6, <1>8, Product
      <3>. QED  BY <1>6, <3>2, <3>3
    <2>2. O * o < (B + 1) * s
      BY <1>5, <1>7, <1>10
    <2>3. missed * (o * o) < (B + 1) * (s * s)
      BY <1>2, <1>6, <1>8, <2>1, <2>2, TwiceConverted
    <2>4. s <= o => missed * (s * s) < (B + 1) * (o * o)
      BY <1>6, <1>8, <2>3, Widened
    <2>5. IF s <= o THEN missed * (s * s) < (B + 1) * (o * o)
          ELSE missed * (o * o) < (B + 1) * (s * s)
      BY <2>3, <2>4
    <2>. QED  BY <2>5 DEF i, j, s, o, B, missed
  <1>. QED  BY <1>9, <1>10

(* The coin that _checkMaxReturn passes over fetches more than it reports   *)
(* by the square of the ratio of the oracle's prices at most: the           *)
(* conversion in the wrong direction costs no more, and at par nothing.     *)
THEOREM BalanceIsNear == StrategySpec => []CheckBalanceIsNearMax
  BY StrategyTyped, NearMax, PTL
=============================================================================
