--------------------------- MODULE AllocatorProofs ---------------------------
(***************************************************************************)
(* Proofs about Allocator.tla: alone with its row, or on a row others save *)
(* and a clock that only moves forward, the allocator never repeats a      *)
(* version, for every block size and every number of crashes.              *)
(***************************************************************************)
EXTENDS Allocator, TLAPS

\* Everything the allocator has in hand or has issued is below the durable
\* watermark, what it will issue next is new, and a load in progress is fresh.
AllocInv ==
  /\ TypeOK
  /\ setting = "alone"
  /\ opc = "idle"
  /\ watermark >= last /\ watermark >= end
  /\ apc = "loaded" => loaded = watermark
  /\ next <= end => next > last

\* The block reserve is about to take lies above the watermark, the clock's
\* floor and the block in hand.
LEMMA BlockStartIsNew ==
  ASSUME TypeOK
  PROVE  /\ BlockStart \in Nat
         /\ BlockStart > loaded
         /\ BlockStart > end
         /\ BlockStart + BlockSize - 1 \in Nat
         /\ BlockStart + BlockSize - 1 >= BlockStart
  <1>1. clock \in Nat /\ PerTick \in Nat /\ BlockSize \in Nat /\ BlockSize >= 1
    BY AllocatorAssumption DEF AllocatorAssumption, TypeOK
  <1>2. Floor(clock) \in Nat
    BY <1>1 DEF Floor
  <1> QED
    BY <1>1, <1>2 DEF BlockStart, Larger, TypeOK

\* The allocator's state stays well typed, whoever shares its row.
THEOREM AllocatorTypeOK == Spec => []TypeOK
  <1>1. Init => TypeOK
    BY AllocatorAssumption DEF AllocatorAssumption, Init, TypeOK
  <1>2. TypeOK /\ [Next]_vars => TypeOK'
    <2> SUFFICES ASSUME TypeOK, [Next]_vars PROVE TypeOK'
      OBVIOUS
    <2>0. setting' = setting
      BY DEF Next, vars
    <2> USE AllocatorAssumption, <2>0
        DEF AllocatorAssumption, TypeOK, procVars, allocVars, otherVars, issueVars
    <2>1. CASE ReserveLoad
      BY <2>1 DEF ReserveLoad
    <2>2. CASE ReserveSave
      BY <2>2, BlockStartIsNew DEF ReserveSave
    <2>3. CASE ReserveFails
      BY <2>3, BlockStartIsNew DEF ReserveFails, Down
    <2>4. CASE Issue
      BY <2>4 DEF Issue, InHand
    <2>5. CASE OtherLoad \/ OtherSave
      BY <2>5 DEF OtherLoad, OtherSave
    <2>6. CASE Crash
      BY <2>6 DEF Crash, Down
    <2>7. CASE Restart
      BY <2>7 DEF Restart
    <2>8. CASE ClockTicks \/ ClockSetBack
      BY <2>8 DEF ClockTicks, ClockSetBack
    <2>9. CASE UNCHANGED vars
      BY <2>9 DEF vars
    <2> QED
      BY <2>1, <2>2, <2>3, <2>4, <2>5, <2>6, <2>7, <2>8, <2>9 DEF Next
  <1> QED
    BY <1>1, <1>2, PTL DEF Spec

\* Without other writers, every step of the allocator keeps AllocInv.
LEMMA AllocStep ==
  ASSUME AllocInv, [Next]_vars, TypeOK'
  PROVE  AllocInv'
  <1>0. setting' = "alone"
    BY DEF AllocInv, Next, vars
  <1> USE <1>0 DEF AllocInv, procVars, allocVars, otherVars, issueVars
  <1>1. CASE ReserveLoad
    BY <1>1 DEF ReserveLoad, TypeOK
  <1>2. CASE ReserveSave
    <2>1. BlockStart > last
      BY <1>2, BlockStartIsNew DEF ReserveSave, TypeOK
    <2> QED
      BY <1>2, <2>1, BlockStartIsNew DEF ReserveSave, TypeOK
  <1>3. CASE ReserveFails
    BY <1>3, BlockStartIsNew DEF ReserveFails, Down, TypeOK
  <1>4. CASE Issue
    BY <1>4 DEF Issue, InHand, TypeOK
  <1>5. CASE OtherLoad \/ OtherSave
    BY <1>5 DEF OtherLoad, OtherSave, SharedRow
  <1>6. CASE Crash
    BY <1>6 DEF Crash, Down, TypeOK
  <1>7. CASE Restart
    BY <1>7 DEF Restart, TypeOK
  <1>8. CASE ClockTicks \/ ClockSetBack
    BY <1>8 DEF ClockTicks, ClockSetBack, TypeOK
  <1>9. CASE UNCHANGED vars
    BY <1>9 DEF vars, TypeOK
  <1> QED
    BY <1>1, <1>2, <1>3, <1>4, <1>5, <1>6, <1>7, <1>8, <1>9 DEF Next

\* Without other writers, whatever is issued or in hand stays below the
\* durable watermark.
THEOREM AllocatorReserves == Spec => []ReservedBeforeIssued
  <1>1. Init => AllocInv \/ SharedRow
    BY AllocatorAssumption DEF AllocatorAssumption, Init, AllocInv, TypeOK, SharedRow
  <1>2. AllocInv /\ TypeOK' /\ [Next]_vars => AllocInv'
    BY AllocStep
  <1>3. SharedRow /\ [Next]_vars => SharedRow'
    BY DEF SharedRow, Next, vars
  <1>4. AllocInv \/ SharedRow => ReservedBeforeIssued
    BY DEF AllocInv, ReservedBeforeIssued
  <1> QED
    BY <1>1, <1>2, <1>3, <1>4, AllocatorTypeOK, PTL DEF Spec

-----------------------------------------------------------------------------
(***************************************************************************)
(* The row shared with the runner and the supervisor, whose saves put back *)
(* an old watermark, on a clock that only moves forward.  What keeps the   *)
(* versions apart then is the floor: everything issued, stored or loaded   *)
(* is within the block in hand or below the floor, and a block is taken    *)
(* only when the one before lies below the floor.                          *)
(***************************************************************************)
\* The end of a block that starts at the floor of t.
Reach(t) == Floor(t) + BlockSize - 1

\* A version that no block taken from now on can hold.
Covered(v) == v <= end \/ v < Floor(clock)

PacedInv ==
  /\ TypeOK
  /\ setting = "paced"
  /\ end <= Reach(clock)
  /\ proc = "up" =>
       Covered(watermark) /\ Covered(last) /\ (opc = "loaded" => Covered(stale))
  /\ proc = "down" =>
       watermark <= Reach(diedAt) /\ last <= Reach(diedAt) /\ opc = "idle"
  /\ apc = "loaded" => proc = "up" /\ loaded < Floor(clock) /\ end < Floor(clock)
  /\ next <= end => next > last

LEMMA FloorGrows ==
  ASSUME NEW t \in Nat
  PROVE  /\ Floor(t) \in Nat /\ Floor(t + 1) \in Nat
         /\ Floor(t) < Floor(t + 1)
         /\ BlockSize \in Nat /\ BlockSize >= 1
  <1>1. PerTick \in Nat /\ PerTick >= 1
    BY AllocatorAssumption DEF AllocatorAssumption
  <1>2. (t + 1) * PerTick = t * PerTick + PerTick /\ t * PerTick \in Nat
    BY <1>1
  <1> QED
    BY <1>1, <1>2, AllocatorAssumption DEF AllocatorAssumption, Floor

\* Every step of a paced allocator keeps PacedInv.
LEMMA PacedStep ==
  ASSUME PacedInv, [Next]_vars, TypeOK'
  PROVE  PacedInv'
  <1>0. setting' = "paced"
    BY DEF PacedInv, Next, vars
  <1>a. clock \in Nat /\ diedAt \in Nat
    BY AllocatorAssumption DEF AllocatorAssumption, PacedInv, TypeOK
  <1> DEFINE f == Floor(clock)
             g == Floor(diedAt)
  <1>b. f \in Nat /\ g \in Nat /\ BlockSize \in Nat /\ BlockSize >= 1
    BY <1>a, FloorGrows
  <1>c. clock' = clock => Floor(clock)' = f
    BY DEF Floor
  <1>d. diedAt' = diedAt => Floor(diedAt)' = g
    BY DEF Floor
  <1> USE <1>0, <1>b, <1>c, <1>d
      DEF PacedInv, procVars, allocVars, otherVars, issueVars, Covered, Reach, TypeOK
  <1> HIDE DEF f, g
  <1>1. CASE ReserveLoad
    <2>1. end < f
      BY <1>1 DEF ReserveLoad, Paced, f
    <2> QED
      BY <1>1, <2>1 DEF ReserveLoad, f, g
  <1>2. CASE ReserveSave
    <2>1. BlockStart = f
      BY <1>2 DEF ReserveSave, BlockStart, Larger, f
    <2> QED
      BY <1>2, <2>1 DEF ReserveSave, f, g
  <1>3. CASE ReserveFails
    <2>1. BlockStart = f
      BY <1>3 DEF ReserveFails, BlockStart, Larger, f
    <2>2. Floor(diedAt)' = f
      BY <1>3 DEF ReserveFails, Down, Floor, f
    <2> QED
      BY <1>3, <2>1, <2>2 DEF ReserveFails, Down, f, g
  <1>4. CASE Issue
    BY <1>4 DEF Issue, InHand, f, g
  <1>5. CASE OtherLoad \/ OtherSave
    BY <1>5 DEF OtherLoad, OtherSave, f, g
  <1>6. CASE Crash
    <2>1. Floor(diedAt)' = f
      BY <1>6 DEF Crash, Down, Floor, f
    <2> QED
      BY <1>6, <2>1 DEF Crash, Down, f, g
  <1>7. CASE Restart
    BY <1>7 DEF Restart, Paced, f, g
  <1>8. CASE ClockTicks
    <2>1. Floor(clock)' \in Nat /\ f < Floor(clock)'
      BY <1>8, <1>a, FloorGrows DEF ClockTicks, f
    <2> QED
      BY <1>8, <2>1 DEF ClockTicks, f, g
  <1>9. CASE ClockSetBack
    BY <1>9 DEF ClockSetBack, ClockStepsBack
  <1>10. CASE UNCHANGED vars
    BY <1>10 DEF vars, f, g
  <1> QED
    BY <1>1, <1>2, <1>3, <1>4, <1>5, <1>6, <1>7, <1>8, <1>9, <1>10 DEF Next

\* The allocator implements Sequence: no version is issued twice or out of
\* order, through crashes, restarts and failed saves.  Alone with its row it
\* does so on any clock; when Runner.advance and the supervisor save the row
\* with watermarks they loaded earlier, it does so on a clock that moves
\* forward faster than versions are used.
THEOREM AllocatorNeverReissues == Spec /\ setting # "shared" => NeverReissued
  <1> DEFINE Inv == AllocInv \/ PacedInv
  <1>1. Init /\ setting # "shared" => Inv /\ Versions!Init
    <2> SUFFICES ASSUME Init, setting # "shared" PROVE Inv /\ Versions!Init
      OBVIOUS
    <2>1. TypeOK
      BY AllocatorAssumption DEF AllocatorAssumption, Init, TypeOK
    <2>2. Floor(clock) \in Nat /\ BlockSize \in Nat /\ BlockSize >= 1
      BY <2>1, AllocatorAssumption, FloorGrows DEF TypeOK, AllocatorAssumption
    <2>3. setting \in {"alone", "paced"}
      BY AllocatorAssumption DEF AllocatorAssumption, Init
    <2> QED
      BY <2>1, <2>2, <2>3 DEF Init, AllocInv, PacedInv, Covered, Reach, Versions!Init
  <1>2. Inv /\ TypeOK' /\ [Next]_vars => Inv'
    BY AllocStep, PacedStep
  <1>3. Inv /\ [Next]_vars => [Versions!Issue]_issueVars
    <2> SUFFICES ASSUME Inv, [Next]_vars, ~UNCHANGED issueVars
                 PROVE  Versions!Issue
      OBVIOUS
    <2>1. Issue
      BY DEF Next, vars, ReserveLoad, ReserveSave, ReserveFails, Down, OtherLoad,
             OtherSave, Crash, Restart, ClockTicks, ClockSetBack, otherVars,
             procVars, allocVars, issueVars
    <2> QED
      BY <2>1 DEF Issue, InHand, AllocInv, PacedInv, TypeOK, Versions!Issue
  <1> QED
    BY <1>1, <1>2, <1>3, AllocatorTypeOK, PTL DEF Spec, NeverReissued, Versions!Spec, issueVars
==============================================================================
