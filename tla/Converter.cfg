SPECIFICATION FairConverterSpec
CONSTANTS
  root = root  sub = sub  a = a  b = b
  NULL = NULL  NoTime = NoTime
  ThreadCount = 2
  Threads <- MCThreads
  Dirs = {root, sub}
  Files <- MCFiles
  Entries <- MCEntries
  Unreadable = {}
  DirList <- MCDirList
  Recursive = TRUE
  Size <- MCSize
  NameTime <- MCNameTime
  MTime <- MCMTime
  TimeStart = 1  TimeStop = 3  ToleranceBefore = 0  ToleranceAfter = 0
  Bz2Files = {b}
  MaxPackets = 1
INVARIANTS ConverterTypeOK AllFilesOperated NoThreadAfterJoin CountNotOverstated PraiseDeserved
PROPERTIES Terminates
