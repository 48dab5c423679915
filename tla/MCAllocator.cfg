SPECIFICATION Spec
CONSTANTS
  BlockSize = 3
  PerTick = 2
  MaxClock = 6
  MaxCrashes = 2
  MaxSeq = 14
  Settings = {"alone", "paced"}
INVARIANTS TypeOK ReservedBeforeIssued
PROPERTY NeverReissued
CHECK_DEADLOCK FALSE
