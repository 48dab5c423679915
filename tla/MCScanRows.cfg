SPECIFICATION FairSpec
CONSTANTS
  Table <- MCEvenTable
  Keys <- MCEvenKeys
  BadRows <- MCNone
  Refusable <- MCNone
  NoKey = 0
  ChunkSize = 2
  MaxRows = 3
  MaxBytes = 9
  MaxFaults = 2
INVARIANT RowsDoneCounts
