SPECIFICATION FairSpec
CONSTANTS
  Streams <- MCOne
  Source <- MCSource
  BufferSize = 1
  MaxSaves = 1
  MaxFaults = 1
INVARIANT LastErrorKept
