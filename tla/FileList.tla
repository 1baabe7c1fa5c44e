------------------------------- MODULE FileList -------------------------------
(***************************************************************************)
(* The list of input files (data/file_list.cpp).  The main thread walks    *)
(* the configured directories and fills a multimap ordered by file time;   *)
(* then the converter threads draw files from it, one at a time, through   *)
(* file_list_get_next_file_info, which moves a shared iterator under a     *)
(* mutex.  Every statement of that function that touches shared state is a *)
(* step of its own.                                                        *)
(***************************************************************************)
EXTENDS Integers, FiniteSets, Sequences, SequencesExt, Sums

CONSTANTS Threads,          \* the converter threads
          Dirs, Files,      \* the directories and the other directory entries
          Entries,          \* what readdir returns for each directory
          Unreadable,       \* directories that opendir refuses
          DirList,          \* the configured directories, in the set's order
          Recursive,        \* dataDirRecursive
          Size,             \* st_size, 0 for a file that stat refuses too
          NameTime, MTime,  \* the time in the name and st_mtime
          NoTime,           \* the name holds no time
          TimeStart, TimeStop, ToleranceBefore, ToleranceAfter,
          NULL

ASSUME FileListAssumption ==
  /\ Entries \in [Dirs -> SUBSET (Dirs \cup Files)]
  /\ Dirs \cap Files = {}
  /\ DirList \in Seq(Dirs)
  /\ Size \in [Files -> Nat]
  /\ MTime \in [Files -> Int]
  /\ NameTime \in [Files -> Int \cup {NoTime}]
  /\ {TimeStart, TimeStop, ToleranceBefore, ToleranceAfter} \subseteq Int
  /\ NULL \notin Threads \cup Files

VARIABLES
  list,     \* g_mmapFileList: the files in the order of the multimap
  iter,     \* g_iterFileList: a position of the list, or End
  started,  \* g_iStarted
  mutex,    \* g_mutexFileList: the thread that holds it, or NULL
  dirs,     \* configured directories still to read
  walk,     \* open directories, innermost first: their entries still to read
  pc,       \* where each thread is in file_list_get_next_file_info
  ret,      \* psoRetVal of each thread's current or last call
  handed    \* history: the thread and the list position of each file returned

listVars == <<list, iter, started, mutex>>
walkVars == <<dirs, walk>>
callVars == <<pc, ret, handed>>
vars == <<list, iter, started, mutex, dirs, walk, pc, ret, handed>>

\* g_mmapFileList.end(): the same iterator however many files are inserted.
End == 0

Init == /\ list = <<>>
        /\ iter = End
        /\ started = FALSE
        /\ mutex = NULL
        /\ dirs = DirList
        /\ walk = <<>>
        /\ pc = [t \in Threads |-> "idle"]
        /\ ret = [t \in Threads |-> NULL]
        /\ handed = <<>>

-----------------------------------------------------------------------------
(* Building the list: file_list_init, read_directory, add_data_file.       *)

\* The time a file is filed under: from its name if the name holds one.
FileTime(f) == IF NameTime[f] # NoTime THEN NameTime[f] ELSE MTime[f]

\* filter_time_file
InTimeWindow(time) == /\ TimeStart - ToleranceBefore <= time
                      /\ time < TimeStop + ToleranceAfter

\* SFileInfo::Init succeeds.
Admitted(f) == Size[f] # 0 /\ InTimeWindow(FileTime(f))

\* Mutant: a new file goes ahead of those of the same time.
AheadOfEqual(f, k) ==
  /\ \A i \in 1..(k - 1) : FileTime(list[i]) < FileTime(f)
  /\ \A i \in k..Len(list) : FileTime(f) <= FileTime(list[i])

\* The position that the multimap gives to f: behind the files of its time.
Place(f, k) ==
  /\ \A i \in 1..(k - 1) : FileTime(list[i]) <= FileTime(f)
  /\ \A i \in k..Len(list) : FileTime(f) < FileTime(list[i])

\* Mutant: the files are kept as readdir finds them.
AppendFile(f) == list' = Append(list, f)

\* Mutant: a map, which keeps one file for each time.
InsertUnlessTimeTaken(f) ==
  \E k \in 1..(Len(list) + 1) :
     /\ Place(f, k)
     /\ list' = IF \E i \in 1..Len(list) : FileTime(list[i]) = FileTime(f)
                THEN list ELSE InsertAt(list, k, f)

\* g_mmapFileList.insert
InsertFile(f) == \E k \in 1..(Len(list) + 1) : Place(f, k) /\ list' = InsertAt(list, k, f)

\* file_list_add_data_file
AddDataFile(f) ==
  \/ ~started /\ Admitted(f) /\ InsertFile(f)
  \/ /\ started \/ ~Admitted(f)
     /\ UNCHANGED list

\* opendir: a directory that cannot be opened contributes nothing.
OpenDir(d) == IF d \in Unreadable THEN <<>> ELSE <<Entries[d]>>

Forget(e) == <<Head(walk) \ {e}>> \o Tail(walk)

ReadConfiguredDir ==
  /\ walk = <<>> /\ dirs # <<>>
  /\ walk' = OpenDir(Head(dirs))
  /\ dirs' = Tail(dirs)
  /\ UNCHANGED <<listVars, callVars>>

ReadSubdir(d) ==
  /\ walk # <<>> /\ d \in Head(walk)
  /\ walk' = (IF Recursive THEN OpenDir(d) ELSE <<>>) \o Forget(d)
  /\ UNCHANGED <<listVars, dirs, callVars>>

ReadFile(f) ==
  /\ walk # <<>> /\ f \in Head(walk)
  /\ AddDataFile(f)
  /\ walk' = Forget(f)
  /\ UNCHANGED <<iter, started, mutex, dirs, callVars>>

CloseDir ==
  /\ walk # <<>> /\ Head(walk) = {}
  /\ walk' = Tail(walk)
  /\ UNCHANGED <<listVars, dirs, callVars>>

\* file_list_init has returned.
Built == dirs = <<>> /\ walk = <<>>

Build == \/ ReadConfiguredDir
         \/ \E d \in Dirs : ReadSubdir(d)
         \/ \E f \in Files : ReadFile(f)
         \/ CloseDir

-----------------------------------------------------------------------------
(* file_list_get_next_file_info, called by converter thread t.             *)

\* Mutant: the function does not wait for the mutex.
LockAtOnce(t) ==
  /\ pc[t] = "idle"
  /\ mutex' = t
  /\ pc' = [pc EXCEPT ![t] = "locked"]
  /\ ret' = [ret EXCEPT ![t] = NULL]
  /\ UNCHANGED <<list, iter, started, walkVars, handed>>

Lock(t) ==
  /\ pc[t] = "idle"
  /\ mutex = NULL
  /\ mutex' = t
  /\ pc' = [pc EXCEPT ![t] = "locked"]
  /\ ret' = [ret EXCEPT ![t] = NULL]
  /\ UNCHANGED <<list, iter, started, walkVars, handed>>

\* Mutant: the iteration stops one file early.
PositionBeforeLast(i) == IF i < Len(list) THEN i ELSE End

Position(i) == IF i <= Len(list) THEN i ELSE End

Advance(t) ==
  /\ pc[t] = "locked"
  /\ \/ /\ iter # End
        /\ iter' = Position(iter + 1)
        /\ pc' = [pc EXCEPT ![t] = "moved"]
        /\ UNCHANGED started
     \/ /\ iter = End /\ ~started
        /\ iter' = Position(1)
        /\ started' = TRUE
        /\ pc' = [pc EXCEPT ![t] = "moved"]
     \/ /\ iter = End /\ started
        /\ pc' = [pc EXCEPT ![t] = "read"]
        /\ UNCHANGED <<iter, started>>
  /\ UNCHANGED <<list, mutex, walkVars, ret, handed>>

\* Mutant: the iterator is followed although it is end(): what is there is no file.
FetchUnchecked(t) ==
  /\ pc[t] = "moved"
  /\ pc' = [pc EXCEPT ![t] = "read"]
  /\ ret' = [ret EXCEPT ![t] = IF iter # End THEN list[iter] ELSE "garbage"]
  /\ handed' = Append(handed, <<t, iter>>)
  /\ UNCHANGED <<listVars, walkVars>>

Fetch(t) ==
  /\ pc[t] = "moved"
  /\ pc' = [pc EXCEPT ![t] = "read"]
  /\ \/ /\ iter # End
        /\ ret' = [ret EXCEPT ![t] = list[iter]]
        /\ handed' = Append(handed, <<t, iter>>)
     \/ /\ iter = End
        /\ UNCHANGED <<ret, handed>>
  /\ UNCHANGED <<listVars, walkVars>>

\* Mutant: a thread that gets no file asks again.
UnlockAndAskAgain(t) ==
  /\ pc[t] = "read"
  /\ mutex' = NULL
  /\ pc' = [pc EXCEPT ![t] = "idle"]
  /\ UNCHANGED <<list, iter, started, walkVars, ret, handed>>

\* The thread that gets no file leaves the loop of netflow_converter_start
\* and never calls again.
Unlock(t) ==
  /\ pc[t] = "read"
  /\ mutex' = NULL
  /\ pc' = [pc EXCEPT ![t] = IF ret[t] = NULL THEN "done" ELSE "idle"]
  /\ UNCHANGED <<list, iter, started, walkVars, ret, handed>>

GetNextFileInfo(t) == Lock(t) \/ Advance(t) \/ Fetch(t) \/ Unlock(t)

\* Every thread has seen the end of the list.
Finished == /\ \A t \in Threads : pc[t] = "done"
            /\ UNCHANGED vars

Next == \/ Build
        \/ Built /\ \E t \in Threads : GetNextFileInfo(t)
        \/ Finished

Spec == Init /\ [][Next]_vars

\* The operating system runs the main thread and every converter thread, and
\* a free mutex goes to someone who asks; it need not be granted in turn.
Fairness == /\ WF_vars(Build)
            /\ \A t \in Threads : WF_vars(Built /\ GetNextFileInfo(t))

FairSpec == Spec /\ Fairness

-----------------------------------------------------------------------------
(* Properties.                                                             *)

\* Every variable keeps the type of the C++ object it stands for.
TypeOK == /\ list \in Seq(Files)
          /\ iter \in Nat
          /\ started \in BOOLEAN
          /\ mutex \in Threads \cup {NULL}
          /\ dirs \in Seq(Dirs)
          /\ walk \in Seq(SUBSET (Dirs \cup Files))
          /\ pc \in [Threads -> {"idle", "locked", "moved", "read", "done"}]
          /\ ret \in [Threads -> Files \cup {NULL}]
          /\ handed \in Seq(Threads \X (Nat \ {0}))

\* However the threads interleave, the calls of file_list_get_next_file_info
\* return the first file of the list, then the second, and so on: no file is
\* skipped and none goes to two threads.
HandedInOrder == \A i \in 1..Len(handed) : handed[i][2] = i /\ i <= Len(list)

\* A thread that is told the list is at its end is told so only when every
\* file has been given to some thread, so that no file is left unprocessed
\* when the threads have stopped.
NoneLeftBehind == \A t \in Threads : pc[t] = "done" => Len(handed) = Len(list)

\* The multimap and the scan of directories hold the files by time, whatever
\* the order in which readdir finds them, and only those that pass the filter.
SortedByTime ==
  /\ \A i, j \in 1..Len(list) : i < j => FileTime(list[i]) <= FileTime(list[j])
  /\ \A i \in 1..Len(list) : Admitted(list[i])

\* The sum of what reading each entry of d comes to, nothing if d cannot be opened.
Over(toll, d) == IF d \in Unreadable THEN 0 ELSE SumFunctionOnSet(toll, Entries[d])

\* How often the scan of an entry meets f.
Meets(f) ==
  LET meets[e \in Dirs \cup Files] ==
        IF e \in Files THEN IF e = f THEN 1 ELSE 0
        ELSE IF Recursive THEN Over(meets, e) ELSE 0
  IN  meets

\* Once the scan is over the list holds every admitted file that lies in a
\* configured directory, or below one when dataDirRecursive is given, once for
\* each configured directory that leads to it, whatever readdir's order and
\* although some directories cannot be opened (file_list_read_directory).
ListComplete ==
  Built => \A f \in Files :
    Cardinality({i \in DOMAIN list : list[i] = f})
      = IF Admitted(f) THEN Sum([k \in DOMAIN DirList |-> Over(Meets(f), DirList[k])])
        ELSE 0

\* The files that the threads process are those of the queue: the iterator,
\* the started flag and the mutex implement an atomic ordered work queue.
Queue == INSTANCE WorkQueue
           WITH Workers <- Threads, Items <- Files, Key <- FileTime,
                queue <- list, open <- started,
                handed <- [i \in 1..Len(handed) |->
                             <<handed[i][1], list[handed[i][2]]>>],
                finished <- {t \in Threads : pc[t] = "done"}

\* The file list implements the work queue, step by step.
ImplementsWorkQueue == Queue!Spec

\* The scan ends, every file is drawn and every thread is dismissed: nobody
\* waits for the mutex or for a file for ever.
QueueDrained == Queue!Drained
=============================================================================
