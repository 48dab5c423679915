SPECIFICATION FairSpec
CONSTANTS
  Procs <- MCProcs
  Wants <- MCWants
  Streams = {1, 2}
  Conns = 3
  Free = "free"
  Operator = "operator"
  Dead = "dead"
INVARIANTS TypeOK OneOwner RescanKept
PROPERTY SomeoneRuns
