SPECIFICATION LettersSpec
CONSTANTS
  MaxSize = 3
  MaxRecords = 6
  MaxFailures = 3
INVARIANTS ReadsBack
CHECK_DEADLOCK FALSE
