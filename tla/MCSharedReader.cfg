SPECIFICATION FairSpec
CONSTANTS
  Streams <- MCStreams
  Source <- MCSource
  BufferSize = 1
  MaxSaves = 1
  MaxFaults = 2
INVARIANTS InOrder FailureReported RowsTell
PROPERTIES Delivers AllReturn
