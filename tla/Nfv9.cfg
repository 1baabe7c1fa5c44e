SPECIFICATION FairSpec
CONSTANTS
  Threads = {t1, t2}
  FileContents <- Files
  MaxFiles = 2
  CountRange = 8
  CounterSize = 32
  Libraries = {"old", "new"}
INVARIANTS NoNullKeyCompared ReadersRefused NoFieldMissing
PROPERTIES PlainFileFinished FileEnds
