--------------------------- MODULE StreamLockProofs ---------------------------
(***************************************************************************)
(* Proofs about StreamLock.tla: as long as the connections of locks live,  *)
(* no two processes work on one stream and no rescan is undone, for every  *)
(* set of processes and streams, whatever else fails.                      *)
(***************************************************************************)
EXTENDS StreamLock, WellFoundedInduction, TLAPS

\* A process claims its own streams only, and one that is still locking has a
\* stream left to lock.
Unfinished ==
  \A p \in Procs : claims[p] \subseteq Wants[p] /\ (pc[p] = "locking" => Left(p) # {})

\* What a process believes it holds it does hold.
Owned == \A p \in Procs : \A s \in claims[p] : holder[s] = p

\* resnapshot holds the stream it is about.
OperatorHolds == operator = "loaded" => holder[target] = Operator

\* A row is loaded and not yet saved only by a running process that holds its
\* stream.
SavesItsOwn ==
  \A p \in Procs, s \in Streams :
    saving[p][s] # Nothing => pc[p] = "running" /\ s \in claims[p]

\* A running process works on no stream whose rescan has yet to begin.
AskedIsIdle == \A p \in Procs : pc[p] = "running" => claims[p] \cap asked = {}

\* A rescan that was asked for is in the row.
Cleared == \A s \in asked : row[s] = "cleared"

\* What holds while the connections of the locks live.
Exclusive == Owned /\ OperatorHolds /\ SavesItsOwn /\ AskedIsIdle /\ Cleared

LockInv == TypeOK /\ Unfinished /\ (died = "no" => Exclusive)

\* The next stream a process claims is one of its streams, and not claimed yet.
LEMMA WantedIsLeft ==
  ASSUME NEW p \in Procs, Unfinished, pc[p] = "locking"
  PROVE  Wanted(p) \in Left(p) /\ Wanted(p) \in Streams /\ Wanted(p) \in Wants[p]
  <1> DEFINE T == Left(p)
  <1>1. T \subseteq Nat /\ T # {} /\ T \subseteq Streams /\ T \subseteq Wants[p]
    BY LockAssumption DEF LockAssumption, Unfinished, Left
  <1> HIDE DEF T
  <1>2. PICK x \in T : \A y \in T : ~ (<<y, x>> \in OpToRel(<, Nat))
    BY <1>1, NatLessThanWellFounded, WFMin, Zenon
  <1>3. \A y \in T : <<y, x>> \in OpToRel(<, Nat) <=> y < x
    BY <1>1 DEF OpToRel
  <1>4. \A y \in T : ~ (y < x)
    BY <1>2, <1>3, Zenon
  <1>5. \E z \in T : \A y \in T : z <= y
    BY <1>1, <1>4
  <1>6. Wanted(p) \in T
    BY <1>5 DEF Wanted, T
  <1> QED
    BY <1>1, <1>6 DEF T

\* What a process that is gone leaves.
LEMMA GoneIs ==
  ASSUME NEW p \in Procs, TypeOK, Unfinished, Gone(p), UNCHANGED died,
         holder' \in [Streams -> Procs \cup {Free, Operator, Dead}]
  PROVE  TypeOK' /\ Unfinished'
  <1> USE LockAssumption DEF LockAssumption
  <1>1. claims' \in [Procs -> SUBSET Streams] /\ claims'[p] = {} /\ pc'[p] = "off"
    BY DEF Gone, TypeOK
  <1>2. pc' \in [Procs -> {"off", "locking", "locked", "running"}]
    BY DEF Gone, TypeOK
  <1>3. saving' \in [Procs -> [Streams -> {"done", "cleared", Nothing}]]
    BY DEF Gone, TypeOK
  <1>4. \A q \in Procs : q # p => pc'[q] = pc[q] /\ claims'[q] = claims[q]
    BY DEF Gone, TypeOK
  <1>5. TypeOK'
    BY <1>1, <1>2, <1>3, <1>4 DEF Gone, TypeOK
  <1> QED
    BY <1>1, <1>4, <1>5 DEF Unfinished, Left

\* A process ends in one of four ways, and each leaves the locks of others as
\* they are, unless nobody had them.
LEMMA EndIs ==
  ASSUME NEW p \in Procs, TypeOK, Unfinished,
         LockTimesOut(p) \/ LockAnswerLost(p) \/ Stop(p) \/ Kill(p)
  PROVE  /\ Gone(p) /\ UNCHANGED died
         /\ holder' \in [Streams -> Procs \cup {Free, Operator, Dead}]
         /\ \A s \in Streams : holder[s] \notin {p, Free} => holder'[s] = holder[s]
  <1>1. Gone(p) /\ UNCHANGED died
    BY DEF LockTimesOut, LockAnswerLost, Stop, Kill
  <1>2. /\ Released(p) \in [Streams -> Procs \cup {Free, Operator, Dead}]
        /\ \A s \in Streams : holder[s] # p => Released(p)[s] = holder[s]
    BY DEF Released, TypeOK
  <1>3. CASE LockTimesOut(p) \/ Stop(p)
    BY <1>1, <1>2, <1>3 DEF LockTimesOut, Stop
  <1>4. CASE LockAnswerLost(p)
    <2>1. Wanted(p) \in Streams /\ holder[Wanted(p)] = Free
      BY <1>4, WantedIsLeft DEF LockAnswerLost, Granted
    <2>2. holder' = [Released(p) EXCEPT ![Wanted(p)] = Dead]
      BY <1>4 DEF LockAnswerLost
    <2> QED
      BY <1>1, <1>2, <2>1, <2>2
  <1>5. CASE Kill(p)
    BY <1>1, <1>5 DEF Kill, TypeOK
  <1> QED
    BY <1>3, <1>4, <1>5

\* The state stays well typed, whether or not connections die.
LEMMA TypeStep ==
  ASSUME TypeOK, Unfinished, [Next]_vars
  PROVE  TypeOK' /\ Unfinished'
  <1> USE LockAssumption DEF LockAssumption
  <1>1. ASSUME NEW p \in Procs, Start(p) PROVE TypeOK' /\ Unfinished'
    <2>1. claims[p] = {} /\ Left(p) # {}
      BY <1>1 DEF Start, TypeOK, Left
    <2> QED
      BY <1>1, <2>1 DEF Start, TypeOK, Unfinished, Left
  <1>2. ASSUME NEW p \in Procs, Lock(p) PROVE TypeOK' /\ Unfinished'
    <2> DEFINE w == Wanted(p)
    <2>1. w \in Left(p) /\ w \in Streams /\ w \in Wants[p] /\ pc[p] = "locking"
      BY <1>2, WantedIsLeft DEF Lock
    <2>2. /\ holder' = [holder EXCEPT ![w] = p]
          /\ claims' = [claims EXCEPT ![p] = @ \cup {w}]
          /\ pc' = IF Left(p) = {w} THEN [pc EXCEPT ![p] = "locked"] ELSE pc
      BY <1>2 DEF Lock
    <2> HIDE DEF w
    <2>3. holder' \in [Streams -> Procs \cup {Free, Operator, Dead}]
          /\ claims' \in [Procs -> SUBSET Streams]
          /\ pc' \in [Procs -> {"off", "locking", "locked", "running"}]
      BY <2>1, <2>2 DEF TypeOK
    <2>4. \A q \in Procs : q # p => pc'[q] = pc[q] /\ claims'[q] = claims[q]
      BY <2>2 DEF TypeOK
    <2>5. /\ claims'[p] = claims[p] \cup {w}
          /\ pc'[p] = IF Left(p) = {w} THEN "locked" ELSE "locking"
      BY <2>1, <2>2 DEF TypeOK
    <2>6. TypeOK'
      BY <1>2, <2>3, <2>4, <2>5 DEF Lock, TypeOK
    <2>7. pc'[p] = "locking" => Wants[p] \ claims'[p] # {}
      BY <2>1, <2>5 DEF Left
    <2> QED
      BY <2>1, <2>4, <2>5, <2>6, <2>7 DEF Unfinished, Left
  <1>3. ASSUME NEW p \in Procs, LockTimesOut(p) \/ LockAnswerLost(p) \/ Stop(p) \/ Kill(p)
        PROVE  TypeOK' /\ Unfinished'
    BY <1>3, EndIs, GoneIs
  <1>4. ASSUME NEW p \in Procs, NEW s \in Streams, LoadRow(p, s) \/ SaveRow(p, s)
        PROVE  TypeOK' /\ Unfinished'
    <2>1. saving' \in [Procs -> [Streams -> {"done", "cleared", Nothing}]]
      <3>1. PICK v \in {"done", "cleared", Nothing} : saving' = [saving EXCEPT ![p][s] = v]
        BY <1>4 DEF LoadRow, SaveRow, TypeOK
      <3>2. [saving[p] EXCEPT ![s] = v] \in [Streams -> {"done", "cleared", Nothing}]
        BY DEF TypeOK
      <3> QED
        BY <3>1, <3>2 DEF TypeOK
    <2>2. row' \in [Streams -> {"done", "cleared"}]
      BY <1>4 DEF LoadRow, SaveRow, TypeOK
    <2> QED
      BY <1>4, <2>1, <2>2 DEF LoadRow, SaveRow, TypeOK, Unfinished, Left
  <1>5. ASSUME NEW s \in Streams, ConnectionDies(s) \/ Ask(s) \/ Reap(s) PROVE TypeOK' /\ Unfinished'
    BY <1>5 DEF ConnectionDies, Ask, Reap, TypeOK, Unfinished, Left
  <1>6. CASE ClearAndRelease \/ AskFails
    <2>1. row' \in [Streams -> {"done", "cleared"}]
      BY <1>6 DEF ClearAndRelease, AskFails, TypeOK
    <2>2. holder' \in [Streams -> Procs \cup {Free, Operator, Dead}]
      BY <1>6 DEF ClearAndRelease, AskFails, TypeOK
    <2> QED
      BY <1>6, <2>1, <2>2 DEF ClearAndRelease, AskFails, TypeOK, Unfinished, Left
  <1>7. ASSUME NEW p \in Procs, Backfill(p) PROVE TypeOK' /\ Unfinished'
    BY <1>7 DEF Backfill, TypeOK, Unfinished, Left
  <1>8. CASE UNCHANGED vars
    BY <1>8 DEF vars, TypeOK, Unfinished, Left
  <1> QED
    BY <1>1, <1>2, <1>3, <1>4, <1>5, <1>6, <1>7, <1>8 DEF Next, Advance, Ends, Intrudes

\* While the connections live, every step keeps the locks exclusive.
LEMMA ExclusiveStep ==
  ASSUME TypeOK, Unfinished, Exclusive, Next, TypeOK', died' = "no"
  PROVE  Exclusive'
  <1> USE LockAssumption DEF LockAssumption
  <1>1. ASSUME NEW p \in Procs, Start(p) PROVE Exclusive'
    BY <1>1 DEF Start, TypeOK, Exclusive, Owned, OperatorHolds, SavesItsOwn,
                AskedIsIdle, Cleared
  <1>2. ASSUME NEW p \in Procs, Lock(p) PROVE Exclusive'
    <2> DEFINE w == Wanted(p)
    <2>1. w \in Streams /\ pc[p] = "locking" /\ holder[w] = Free
      BY <1>2, WantedIsLeft DEF Lock, Granted
    <2>2. /\ holder' = [holder EXCEPT ![w] = p]
          /\ claims' = [claims EXCEPT ![p] = @ \cup {w}]
      BY <1>2 DEF Lock
    <2> HIDE DEF w
    <2>3. /\ claims'[p] = claims[p] \cup {w} /\ pc'[p] # "running"
          /\ \A q \in Procs : q # p => claims'[q] = claims[q] /\ pc'[q] = pc[q]
      BY <1>2, <2>1, <2>2 DEF Lock, TypeOK
    <2>4. Owned'
      <3>1. holder'[w] = p
        BY <2>1, <2>2 DEF TypeOK
      <3>2. ASSUME NEW q \in Procs, NEW s \in claims[q] PROVE holder'[s] = q
        <4>1. s \in Streams /\ holder[s] = q
          BY DEF TypeOK, Exclusive, Owned
        <4> QED
          BY <2>1, <2>2, <4>1 DEF TypeOK
      <3> QED
        BY <2>3, <3>1, <3>2 DEF Owned
    <2>5. OperatorHolds'
      BY <1>2, <2>1, <2>2 DEF Lock, TypeOK, Exclusive, OperatorHolds
    <2>6. SavesItsOwn'
      BY <1>2, <2>1, <2>3 DEF Lock, Exclusive, SavesItsOwn
    <2>7. AskedIsIdle' /\ Cleared'
      BY <1>2, <2>3 DEF Lock, Exclusive, AskedIsIdle, Cleared
    <2> QED
      BY <2>4, <2>5, <2>6, <2>7 DEF Exclusive
  <1>3. ASSUME NEW p \in Procs, LockTimesOut(p) \/ LockAnswerLost(p) \/ Stop(p) \/ Kill(p)
        PROVE  Exclusive'
    <2>1. Gone(p) /\ \A s \in Streams : holder[s] \notin {p, Free} => holder'[s] = holder[s]
      BY <1>3, EndIs
    <2>2. claims'[p] = {} /\ \A q \in Procs : q # p => claims'[q] = claims[q] /\ pc'[q] = pc[q]
      BY <2>1 DEF Gone, TypeOK
    <2>3. Owned'
      <3>1. ASSUME NEW q \in Procs, NEW s \in claims[q], q # p PROVE holder'[s] = q
        BY <2>1, <3>1 DEF TypeOK, Exclusive, Owned
      <3> QED
        BY <2>2, <3>1 DEF Owned
    <2>4. OperatorHolds'
      BY <2>1 DEF Gone, TypeOK, Exclusive, OperatorHolds
    <2>5. SavesItsOwn'
      <3>1. \A s \in Streams : saving'[p][s] = Nothing
        BY <2>1 DEF Gone, TypeOK
      <3>2. \A q \in Procs : q # p => saving'[q] = saving[q]
        BY <2>1 DEF Gone, TypeOK
      <3> QED
        BY <2>2, <3>1, <3>2 DEF Exclusive, SavesItsOwn
    <2>6. AskedIsIdle' /\ Cleared'
      BY <2>1, <2>2 DEF Gone, Exclusive, AskedIsIdle, Cleared
    <2> QED
      BY <2>3, <2>4, <2>5, <2>6 DEF Exclusive
  <1>4. ASSUME NEW p \in Procs, NEW s \in Streams, LoadRow(p, s) PROVE Exclusive'
    <2>1. SavesItsOwn'
      BY <1>4 DEF LoadRow, TypeOK, Exclusive, SavesItsOwn
    <2> QED
      BY <1>4, <2>1 DEF LoadRow, Exclusive, Owned, OperatorHolds, AskedIsIdle, Cleared
  <1>5. ASSUME NEW p \in Procs, NEW s \in Streams, SaveRow(p, s) PROVE Exclusive'
    <2>1. s \notin asked
      BY <1>5 DEF SaveRow, Exclusive, SavesItsOwn, AskedIsIdle
    <2>2. Cleared'
      BY <1>5, <2>1 DEF SaveRow, TypeOK, Exclusive, Cleared
    <2>3. SavesItsOwn'
      BY <1>5 DEF SaveRow, TypeOK, Exclusive, SavesItsOwn
    <2> QED
      BY <1>5, <2>2, <2>3 DEF SaveRow, Exclusive, Owned, OperatorHolds, AskedIsIdle
  <1>6. ASSUME NEW s \in Streams, Ask(s) \/ Reap(s) PROVE Exclusive'
    <2>1. ASSUME NEW q \in Procs, NEW t \in claims[q] PROVE holder'[t] = q
      <3>1. t \in Streams /\ holder[t] = q
        BY DEF TypeOK, Exclusive, Owned
      <3> QED
        BY <1>6, <3>1 DEF Ask, Reap, Granted, TypeOK
    <2>2. Owned'
      BY <1>6, <2>1 DEF Ask, Reap, Owned
    <2>3. OperatorHolds'
      BY <1>6 DEF Ask, Reap, TypeOK, Exclusive, OperatorHolds
    <2> QED
      BY <1>6, <2>2, <2>3 DEF Ask, Reap, Exclusive, SavesItsOwn, AskedIsIdle, Cleared
  <1>7. CASE ClearAndRelease \/ AskFails
    <2>1. UNCHANGED claims /\ operator = "loaded" /\ operator' = "off"
      BY <1>7 DEF ClearAndRelease, AskFails
    <2>2. ASSUME NEW q \in Procs, NEW t \in claims[q] PROVE holder'[t] = q /\ t # target
      <3>1. t \in Streams /\ holder[t] = q
        BY DEF TypeOK, Exclusive, Owned
      <3> QED
        BY <1>7, <2>1, <3>1 DEF ClearAndRelease, AskFails, Exclusive, OperatorHolds
    <2>3. Owned' /\ OperatorHolds'
      BY <2>1, <2>2 DEF Owned, OperatorHolds
    <2>4. AskedIsIdle'
      BY <1>7, <2>1, <2>2 DEF ClearAndRelease, AskFails, Exclusive, AskedIsIdle
    <2>5. Cleared'
      BY <1>7 DEF ClearAndRelease, AskFails, TypeOK, Exclusive, Cleared
    <2>6. SavesItsOwn'
      BY <1>7 DEF ClearAndRelease, AskFails, Exclusive, SavesItsOwn
    <2> QED
      BY <2>3, <2>4, <2>5, <2>6 DEF Exclusive
  <1>8. ASSUME NEW p \in Procs, Backfill(p) PROVE Exclusive'
    <2>1. AskedIsIdle'
      BY <1>8 DEF Backfill, TypeOK, Exclusive, AskedIsIdle
    <2> QED
      BY <1>8, <2>1 DEF Backfill, TypeOK, Exclusive, Owned, OperatorHolds, SavesItsOwn, Cleared
  <1>9. ASSUME NEW s \in Streams PROVE ~ConnectionDies(s)
    BY DEF ConnectionDies
  <1> QED
    BY <1>1, <1>2, <1>3, <1>4, <1>5, <1>6, <1>7, <1>8, <1>9 DEF Next, Advance, Ends, Intrudes

\* LockInv is inductive.
LEMMA LockInvariant == Spec => []LockInv
  <1>1. Init => LockInv
    <2> SUFFICES ASSUME Init PROVE LockInv
      OBVIOUS
    <2> USE LockAssumption DEF LockAssumption, Init, Nothing
    <2>1. TypeOK /\ Unfinished
      BY DEF TypeOK, Unfinished
    <2>2. Exclusive
      BY DEF Exclusive, Owned, OperatorHolds, SavesItsOwn, AskedIsIdle, Cleared
    <2> QED
      BY <2>1, <2>2 DEF LockInv
  <1>2. LockInv /\ [Next]_vars => LockInv'
    <2> SUFFICES ASSUME LockInv, [Next]_vars PROVE LockInv'
      OBVIOUS
    <2>1. TypeOK' /\ Unfinished'
      BY TypeStep DEF LockInv
    <2>2. ASSUME died' = "no" PROVE Exclusive'
      <3>1. died = "no"
        <4>1. CASE UNCHANGED vars
          BY <2>2, <4>1 DEF vars
        <4>2. CASE Next
          BY <2>2, <4>2 DEF Next, Advance, Ends, Intrudes, Start, Lock, LockTimesOut,
             LockAnswerLost, Backfill, Stop, Kill, LoadRow, SaveRow, ConnectionDies, Ask, Reap,
             ClearAndRelease, AskFails
        <4> QED
          BY <4>1, <4>2
      <3>2. CASE Next
        BY <2>1, <2>2, <3>1, <3>2, ExclusiveStep DEF LockInv
      <3>3. CASE UNCHANGED vars
        BY <3>1, <3>3 DEF vars, LockInv, Exclusive, Owned, OperatorHolds, SavesItsOwn,
                          AskedIsIdle, Cleared
      <3> QED
        BY <3>2, <3>3
    <2> QED
      BY <2>1, <2>2 DEF LockInv
  <1> QED
    BY <1>1, <1>2, PTL DEF Spec

\* The state stays well typed, whether or not connections die.
THEOREM StreamLockTypeOK == Spec => []TypeOK
  <1>1. LockInv => TypeOK
    BY DEF LockInv
  <1> QED
    BY <1>1, LockInvariant, PTL

\* As long as the connections of the locks live, no two processes work on one
\* stream: two that both hold it would both be its holder.
THEOREM StreamLockOneOwner == Spec => []OneOwner
  <1>1. LockInv => OneOwner
    BY DEF LockInv, Exclusive, Owned, OneOwner, Fight
  <1> QED
    BY <1>1, LockInvariant, PTL

\* As long as the connections of the locks live, a confirmed rescan is never
\* undone by a process that had loaded the row before.
THEOREM StreamLockRescanKept == Spec => []RescanKept
  <1>1. LockInv => RescanKept
    BY DEF LockInv, Exclusive, Cleared, RescanKept
  <1> QED
    BY <1>1, LockInvariant, PTL
==============================================================================
