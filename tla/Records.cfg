SPECIFICATION Spec
CONSTANTS
  Ids <- AllIds
  Names <- ElementNames
  Configurations <- Confs
  DataSets <- Batches
  Word = 65536
  Garbage = {0, 1}
INVARIANTS DictionaryComplete PrintedIffWanted RowsFitTemplate CrashOnlyByConfiguration
