SPECIFICATION FlowSpec
CONSTANTS
  MaxRows = 3
  MaxBytes = 4
  Sizes <- MCSizes
  FlushInterval = 2
  MaxDocs = 4
  MaxTime = 3
INVARIANTS FlowTypeOK OrderKept WithinLimits DeadlineIsOldest
CHECK_DEADLOCK FALSE
