SPECIFICATION FairSpec
CONSTANTS
  N = 2
  K = 1
  Initial <- MCInitial2
  Changes <- MCChanges2
  Scanned <- MCBoth
  ScanServers = {"source"}
  Block = 2
  MaxLog = 3
  MaxRebuilds = 0
  MaxFaults = 0
INVARIANT CopyIsExact
