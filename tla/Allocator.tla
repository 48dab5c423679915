------------------------------ MODULE Allocator ------------------------------
(***************************************************************************)
(* The version allocator of internal/checkpoint/seq.go over the checkpoint *)
(* row of one stream, through crashes, restarts and failed saves, on a     *)
(* clock that may be wrong.                                                *)
(*                                                                         *)
(* The row is not the allocator's own.  Runner.advance and the supervisor  *)
(* load the same row, change their columns and save all of it, watermark   *)
(* included.  A clock tick is one millisecond and PerTick stands for       *)
(* 1 << floorShift.  The setting of a behaviour says what surrounds the    *)
(* allocator:                                                              *)
(*   "alone"   nobody else writes the row, and the clock may be set back;  *)
(*   "paced"   others write it, the clock only moves forward, and versions *)
(*             are used more slowly than its floor grows;                  *)
(*   "shared"  the same on a clock that may be set back.                   *)
(***************************************************************************)
EXTENDS Naturals

CONSTANTS
  BlockSize,       \* versions reserved at a time
  PerTick,         \* versions per clock tick in the floor
  MaxClock,        \* bound: last clock tick
  MaxSeq,          \* bound: no block is reserved beyond it
  MaxCrashes,      \* bound: crashes in one behaviour
  Settings         \* the settings to consider

ASSUME AllocatorAssumption ==
  /\ BlockSize \in Nat \ {0} /\ PerTick \in Nat \ {0}
  /\ MaxClock \in Nat /\ MaxSeq \in Nat /\ MaxCrashes \in Nat
  /\ Settings \subseteq {"alone", "paced", "shared"}

VARIABLES
  setting,    \* what surrounds the allocator
  clock,      \* the wall clock
  watermark,  \* checkpoint row: SeqWatermark, 0 when there is no row
  proc,       \* "up" while the process runs
  diedAt,     \* when it last stopped
  crashes,    \* crashes so far
  next, end,  \* Allocator.next and Allocator.end
  apc,        \* "loaded" while reserve has loaded the row and not saved it
  loaded,     \* the watermark it loaded
  opc,        \* "loaded" while another writer has loaded the row and not saved it
  stale,      \* the watermark that writer loaded
  issued,     \* how many versions were issued
  last        \* the last one

allocVars == <<next, end, apc, loaded>>
otherVars == <<opc, stale>>
procVars  == <<proc, diedAt, crashes>>
issueVars == <<issued, last>>
vars == <<setting, clock, watermark, procVars, allocVars, otherVars, issueVars>>

SharedRow == setting # "alone"
ClockStepsBack == setting # "paced"
Paced == setting # "alone"

Init ==
  /\ setting \in Settings
  /\ clock \in 0..MaxClock
  /\ watermark = 0
  /\ proc = "up" /\ diedAt = 0 /\ crashes = 0
  /\ next = 1 /\ end = 0 /\ apc = "idle" /\ loaded = 0
  /\ opc = "idle" /\ stale = 0
  /\ issued = 0 /\ last = 0

Larger(a, b) == IF a >= b THEN a ELSE b

\* seqFloor: the clock as a version.
Floor(t) == t * PerTick

\* reserve, first half: load the row.
ReserveLoad ==
  /\ proc = "up" /\ next > end /\ apc = "idle"
  /\ watermark <= MaxSeq /\ end <= MaxSeq
  /\ Paced => end < Floor(clock)
  /\ apc' = "loaded" /\ loaded' = watermark
  /\ UNCHANGED <<clock, watermark, procVars, next, end, otherVars, issueVars>>

\* A mutant: the block starts at the clock, whatever was reserved before.
StartAtClock == Larger(Floor(clock), end + 1)

\* A mutant: the clock is left out of it.
StartAfterRow == Larger(loaded + 1, end + 1)

\* Where reserve starts a block: after the watermark it loaded, at the clock's
\* floor, or after the block this allocator holds, whichever is highest.
BlockStart == Larger(Larger(loaded + 1, Floor(clock)), end + 1)

\* reserve, second half: save the row with the new watermark, then use the block.
ReserveSave ==
  /\ proc = "up" /\ apc = "loaded"
  /\ watermark' = BlockStart + BlockSize - 1
  /\ next' = BlockStart /\ end' = BlockStart + BlockSize - 1
  /\ apc' = "idle" /\ loaded' = 0
  /\ UNCHANGED <<clock, procVars, otherVars, issueVars>>

\* A mutant: one version more than was reserved.
InHandAndOne == next <= end + 1

\* Next: the block in hand is not spent.
InHand == next <= end

\* Next: issue a version from the block in hand.
Issue ==
  /\ proc = "up" /\ apc = "idle" /\ InHand
  /\ last' = next /\ issued' = issued + 1
  /\ next' = next + 1
  /\ UNCHANGED <<clock, watermark, procVars, end, apc, loaded, otherVars>>

\* Runner.advance, markScanStarted or finishScan loads the row ...
OtherLoad ==
  /\ SharedRow /\ proc = "up" /\ opc = "idle"
  /\ opc' = "loaded" /\ stale' = watermark
  /\ UNCHANGED <<clock, watermark, procVars, allocVars, issueVars>>

\* ... and saves all of it, the watermark as it was loaded.
OtherSave ==
  /\ proc = "up" /\ opc = "loaded"
  /\ watermark' = stale
  /\ opc' = "idle" /\ stale' = 0
  /\ UNCHANGED <<clock, procVars, allocVars, issueVars>>

\* The process stops and its allocator with it.
Down ==
  /\ proc = "up" /\ crashes < MaxCrashes
  /\ proc' = "down" /\ crashes' = crashes + 1 /\ diedAt' = clock
  /\ next' = 1 /\ end' = 0 /\ apc' = "idle" /\ loaded' = 0
  /\ opc' = "idle" /\ stale' = 0
  /\ UNCHANGED <<clock, issueVars>>

\* The process dies.
Crash == Down /\ UNCHANGED watermark

\* reserve fails, and with it the reader or the scan that asked for a version:
\* the row could not be loaded or saved, though the save may have landed.
ReserveFails ==
  /\ apc = "loaded"
  /\ watermark' \in {watermark, BlockStart + BlockSize - 1}
  /\ Down

\* NewAllocator on the next start.  A paced process takes at least as long to
\* start as a block lasts.
Restart ==
  /\ proc = "down"
  /\ Paced => Floor(clock) >= Floor(diedAt) + BlockSize
  /\ proc' = "up"
  /\ UNCHANGED <<clock, watermark, diedAt, crashes, allocVars, otherVars, issueVars>>

ClockTicks ==
  /\ clock < MaxClock
  /\ clock' = clock + 1
  /\ UNCHANGED <<watermark, procVars, allocVars, otherVars, issueVars>>

ClockSetBack ==
  /\ ClockStepsBack
  /\ clock' \in 0..MaxClock /\ clock' < clock
  /\ UNCHANGED <<watermark, procVars, allocVars, otherVars, issueVars>>

Next ==
  /\ \/ ReserveLoad \/ ReserveSave \/ ReserveFails \/ Issue
     \/ OtherLoad \/ OtherSave
     \/ Crash \/ Restart \/ ClockTicks \/ ClockSetBack
  /\ UNCHANGED setting

Spec == Init /\ [][Next]_vars

-----------------------------------------------------------------------------
TypeOK ==
  /\ setting \in Settings
  /\ clock \in 0..MaxClock /\ diedAt \in 0..MaxClock
  /\ watermark \in Nat /\ loaded \in Nat /\ stale \in Nat /\ last \in Nat
  /\ issued \in Nat
  /\ end \in Nat /\ next \in 1..(end + 1)
  /\ proc \in {"up", "down"} /\ apc \in {"idle", "loaded"} /\ opc \in {"idle", "loaded"}
  /\ crashes \in 0..MaxCrashes

Versions == INSTANCE Sequence WITH issued <- issued, last <- last

\* Every version issued is greater than every one issued before, through
\* crashes, restarts and failed saves: Reserve-before-issue never repeats a
\* version, so an older write cannot win.
NeverReissued == Versions!Spec

\* What is issued was reserved: unless others write the row, the durable
\* watermark is at or above every version in use, so a crash skips versions
\* rather than repeats them.
ReservedBeforeIssued == SharedRow \/ (watermark >= last /\ watermark >= end)
==============================================================================
