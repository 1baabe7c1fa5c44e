SPECIFICATION FairSpec
CONSTANTS
  t1 = t1  t2 = t2  t3 = t3
  root = root  sub = sub  locked = locked
  early = early  late1 = late1  late2 = late2
  empty = empty  old = old  hidden = hidden
  NULL = NULL  NoTime = NoTime
  Threads = {t1, t2, t3}
  Dirs <- MCDirs
  Files <- MCFiles
  Entries <- MCEntries
  Unreadable = {locked}
  DirList <- NestedDirs
  Recursive = TRUE
  Size <- MCSize
  NameTime <- MCNameTime
  MTime <- MCMTime
  TimeStart = 2  TimeStop = 4  ToleranceBefore = 1  ToleranceAfter = 0
INVARIANTS TypeOK HandedInOrder NoneLeftBehind SortedByTime ListComplete
PROPERTIES ImplementsWorkQueue QueueDrained
