SPECIFICATION Spec
CONSTANTS
  N = 2
  K = 2
  Initial <- MCInitial
  Changes <- MCSecond
  Scanned <- MCFirst
  ScanServers = {"source"}
  Block = 2
  MaxLog = 4
  MaxRebuilds = 1
  MaxFaults = 2
INVARIANT AnyCopyIsExact
