\* One case the code does not handle, and the property it violates:
\*   MCLatin1, MCDays            INVARIANT FieldsHoldTheirColumns
\*   MCLatin1Key, MCParsedZero, MCDateKey
\*                               INVARIANT SameDocumentEitherWay
\*   MCTimes                     INVARIANT DeadLettersAreDue
\*   MCBits, MCExcluded          PROPERTY KeepsReading
\*   MCAddedColumn, MCAddedLabel INVARIANT MatchedByName
\*   MCSettings, MaxLog = 3      INVARIANT FieldsHoldUnchecked
SPECIFICATION FairSpec
CONSTANTS
  Wide = 4
  Cases <- MCLatin1
  MaxLog = 2
  MaxCrashes = 0
INVARIANT FieldsHoldTheirColumns
