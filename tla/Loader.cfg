SPECIFICATION FairSpec
CONSTANTS
  Files <- MCFiles
  Requests <- MCRequests
  MaxBytes = 6
  MaxTokens = 6
  Huge = 99
  UIntSize = 5
  END = END
  BAD = BAD
  VOID = VOID
INVARIANTS TypeOK AnswerAlive NothingKept
PROPERTIES ImplementsByteStream FileLeft
