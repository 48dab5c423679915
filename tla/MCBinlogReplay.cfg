\* PositionNeverMovesBack is violated too, without a fault; with
\* Binlog <- MCPlainBinlog and SPECIFICATION Spec: INVARIANT NothingLost.
SPECIFICATION FairSpec
CONSTANTS
  Binlog <- MCShortBinlog
  Keys = {"a", "b"}
  Refusable <- MCNone
  NoKey = "-"
  MaxRows = 3
  MaxBytes = 3
  Buffer = 1
  Block = 2
  MaxFaults = 1
PROPERTY NoRegress
