SPECIFICATION LettersSpec
CONSTANTS
  MaxSize = 3
  MaxRecords = 6
  MaxFailures = 3
INVARIANTS LettersTypeOK OnDisk SizeMatches
CHECK_DEADLOCK FALSE
