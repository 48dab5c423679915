SPECIFICATION FairSpec
CONSTANTS
  N = 2
  K = 2
  Initial <- MCInitial
  Changes <- MCChanges
  Scanned <- MCFirst
  ScanServers = {"source", "replica"}
  Block = 2
  MaxLog = 3
  MaxRebuilds = 1
  MaxFaults = 2
INVARIANTS CopyIsExact ReadersMissNothing ReadersSeeWrites
PROPERTY ReadersMove
