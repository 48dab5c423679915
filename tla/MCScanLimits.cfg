\* Each is violated; tlc -continue shows all three.  With ScanServers = {"source"},
\* MaxRebuilds = 1 and MaxFaults = 2: PROPERTY RebuildsMoveReaders.
SPECIFICATION FairSpec
CONSTANTS
  N = 1
  K = 1
  Initial <- MCInitial
  Changes <- MCOneKey
  Scanned <- MCFirst
  ScanServers = {"source", "replica"}
  Block = 2
  MaxLog = 2
  MaxRebuilds = 0
  MaxFaults = 1
INVARIANTS ReadersAlwaysSeeWrites AnyCopyIsExact ReadersNeverMissARow
