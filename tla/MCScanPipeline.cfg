SPECIFICATION FairSpec
CONSTANTS
  Table <- MCTable
  Keys <- MCKeys
  BadRows <- MCBadRows
  Refusable <- MCRefusable
  NoKey = 0
  ChunkSize = 2
  MaxRows = 3
  MaxBytes = 9
  MaxFaults = 2
INVARIANTS TypeOK CursorSafe DoneMeansComplete
PROPERTY ScanCompletes
