SPECIFICATION Spec
CONSTANTS
  BlockSize = 3
  PerTick = 2
  MaxClock = 6
  MaxCrashes = 2
  MaxSeq = 14
  Settings = {"shared"}
PROPERTY NeverReissued
CHECK_DEADLOCK FALSE
