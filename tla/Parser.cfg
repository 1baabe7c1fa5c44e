SPECIFICATION FairSpec
CONSTANTS
  NONE = NONE
  HalfRange = 32
  Messages <- SomeMessages
  MaxMessages = 3
INVARIANTS InsideMessage
PROPERTIES AcceptedIsComplete EveryRecordHandled EndsUnlessStuck
