\* Violated: the connection of a lock may die.  With Conns = 2, as many as there
\* are streams, PROPERTY SomeoneRuns is violated too: every connection is one of
\* a lock, and a process waits for another for ever.
SPECIFICATION FairSpec
CONSTANTS
  Procs <- MCProcs
  Wants <- MCWants
  Streams = {1, 2}
  Conns = 3
  Free = "free"
  Operator = "operator"
  Dead = "dead"
INVARIANT NeverFight
