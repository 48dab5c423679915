SPECIFICATION FairSpec
CONSTANTS
  Binlog <- MCBinlog
  Keys = {"a", "b"}
  Refusable <- MCRefusable
  NoKey = "-"
  MaxRows = 3
  MaxBytes = 4
  Buffer = 1
  Block = 2
  MaxFaults = 2
INVARIANTS TypeOK NothingLost PositionBehindPipe
PROPERTY Converges
