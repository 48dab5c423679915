SPECIFICATION FairSpec
CONSTANTS
  Wide = 4
  Cases <- MCCases
  MaxLog = 3
  MaxCrashes = 1
INVARIANTS FieldsHoldTheirColumns SameDocumentEitherWay DeadLettersAreDue
PROPERTY KeepsReading
