SPECIFICATION FairSpec
CONSTANTS
  NONE = NONE
  HalfRange = 32
  Messages <- PaddedMessages
  MaxMessages = 1
PROPERTIES MessageEnds
