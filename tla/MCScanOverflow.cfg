SPECIFICATION FairSpec
CONSTANTS
  Table <- MCUnevenTable
  Keys <- MCUnevenKeys
  BadRows <- MCNone
  Refusable <- MCNone
  NoKey = 0
  ChunkSize = 2
  MaxRows = 3
  MaxBytes = 3
  MaxFaults = 2
INVARIANT DoneMeansComplete
