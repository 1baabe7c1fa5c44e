--------------------------- MODULE NetflowConverter ---------------------------
(***************************************************************************)
(* The life of the whole program (main.cpp, netflow_converter_start and    *)
(* data_loader_open): the main thread builds the file list, starts the     *)
(* converter threads, waits for them and reports how many files were       *)
(* opened; each converter thread draws files from the list, opens them,    *)
(* converts their packets one by one and closes them.  What a packet       *)
(* contains is the business of other modules; here a packet is converted,  *)
(* or it is not, or its conversion never returns.                          *)
(***************************************************************************)
EXTENDS FileList

CONSTANTS ThreadCount,  \* converterThreadCount
          Bz2Files,     \* the files whose names end in ".bz2"
          MaxPackets    \* bound: the packets a file holds at most

ASSUME ConverterAssumption == /\ ThreadCount \in Nat \ {0}
                              /\ Threads = 1..ThreadCount
                              /\ Bz2Files \subseteq Files
                              /\ MaxPackets \in Nat

VARIABLES
  main,      \* what the main thread is doing
  nth,       \* i in main's loops: the thread to create or to join
  at,        \* what each converter thread is doing
  count,     \* g_ui32OpenedFilesCount
  loaded,    \* the value of the counter that a thread holds in a register
  left,      \* packets that the thread's file still holds
  iFnRes,    \* the result of the last conversion, 0 or not
  reported,  \* the number in main's last message, or NULL
  mapped,    \* history: the files mapped so far
  failed,    \* history: files in which a packet was not converted,
  praised,   \*   files logged as "operated successfully", and
  operated   \*   files that were closed or could not be opened, by their
             \*   positions in the list, which may hold a file twice

mainVars == <<main, nth, reported>>
workVars == <<at, count, loaded, left, iFnRes>>
histVars == <<mapped, failed, praised, operated>>
allVars == <<vars, mainVars, workVars, histVars>>

ConverterInit ==
  /\ Init
  /\ main = "init"
  /\ nth = 1
  /\ at = [t \in Threads |-> "absent"]
  /\ count = 0
  /\ loaded = [t \in Threads |-> 0]
  /\ left = [t \in Threads |-> 0]
  /\ iFnRes = [t \in Threads |-> 0]
  /\ reported = NULL
  /\ mapped = 0
  /\ failed = {} /\ praised = {} /\ operated = {}

-----------------------------------------------------------------------------
(* The main thread.                                                        *)

InitFileList == /\ main = "init" /\ ~Built
                /\ Build
                /\ UNCHANGED <<mainVars, workVars, histVars>>

FileListReady == /\ main = "init" /\ Built
                 /\ main' = "create"
                 /\ UNCHANGED <<vars, nth, reported, workVars, histVars>>

\* The result of pthread_create is not looked at: a thread that could not be
\* created stays absent.
CreateThread ==
  /\ main = "create"
  /\ IF nth <= ThreadCount
     THEN /\ at' \in {[at EXCEPT ![nth] = "next"], at}
          /\ nth' = nth + 1
          /\ UNCHANGED main
     ELSE /\ main' = "join"
          /\ nth' = 1
          /\ UNCHANGED at
  /\ UNCHANGED <<vars, reported, count, loaded, left, iFnRes, histVars>>

\* Mutant: the loop of pthread_join misses the last thread.
JoinAllButLast ==
  /\ main = "join"
  /\ IF nth < ThreadCount
     THEN at[nth] \in {"exit", "absent"} /\ nth' = nth + 1 /\ UNCHANGED main
     ELSE main' = "report" /\ UNCHANGED nth
  /\ UNCHANGED <<vars, reported, workVars, histVars>>

\* pthread_join with an id that pthread_create never wrote is undefined: it
\* returns at once, or JoinOfNoThread.
JoinThread ==
  /\ main = "join"
  /\ IF nth <= ThreadCount
     THEN /\ at[nth] \in {"exit", "absent"}
          /\ nth' = nth + 1
          /\ UNCHANGED main
     ELSE /\ main' = "report"
          /\ UNCHANGED nth
  /\ UNCHANGED <<vars, reported, workVars, histVars>>

JoinOfNoThread ==
  /\ main = "join" /\ nth <= ThreadCount /\ at[nth] = "absent"
  /\ main' = "crashed"
  /\ UNCHANGED <<vars, nth, reported, workVars, histVars>>

ReportOpenedFiles ==
  /\ main = "report"
  /\ reported' = count
  /\ main' = "fini"
  /\ UNCHANGED <<vars, nth, workVars, histVars>>

\* file_list_fini, ipfix_converter_cache_fin and the return from main.
Fini == /\ main = "fini"
        /\ main' = "exit"
        /\ UNCHANGED <<vars, nth, reported, workVars, histVars>>

Main == InitFileList \/ FileListReady \/ CreateThread
        \/ JoinThread \/ JoinOfNoThread \/ ReportOpenedFiles \/ Fini

-----------------------------------------------------------------------------
(* A converter thread.                                                     *)

Go(t, place) == at' = [at EXCEPT ![t] = place]

\* The position of the file that t drew last.
Drawn(t) == Max({i \in DOMAIN handed : handed[i][1] = t})

\* The loop condition: the call of file_list_get_next_file_info.
DrawFile(t) ==
  /\ at[t] = "next"
  /\ GetNextFileInfo(t)
  /\ CASE pc'[t] = "done" -> Go(t, "exit")
       [] pc[t] = "read" /\ pc'[t] = "idle" -> Go(t, "open")
       [] OTHER -> UNCHANGED at
  /\ UNCHANGED <<mainVars, count, loaded, left, iFnRes, histVars>>

\* Mutant: a file that cannot be opened ends the thread.
OpenFileOrExit(t) ==
  /\ at[t] = "open"
  /\ \/ Go(t, "count") /\ left' = [left EXCEPT ![t] = MaxPackets] /\ UNCHANGED operated
     \/ Go(t, "exit") /\ operated' = operated \cup {Drawn(t)} /\ UNCHANGED left
  /\ UNCHANGED <<vars, mainVars, count, loaded, iFnRes, mapped, failed, praised>>

\* Mutant: a file is counted before it is known that it can be opened.
OpenFileCounted(t) ==
  /\ at[t] = "open"
  /\ \/ Go(t, "count") /\ left' = [left EXCEPT ![t] = MaxPackets] /\ UNCHANGED <<count, operated>>
     \/ Go(t, "next") /\ count' = count + 1 /\ operated' = operated \cup {Drawn(t)} /\ UNCHANGED left
  /\ UNCHANGED <<vars, mainVars, loaded, iFnRes, mapped, failed, praised>>

\* open and mmap: either may fail, and then the thread goes to the next file.
OpenFile(t) ==
  /\ at[t] = "open"
  /\ \/ /\ Go(t, "count")
        /\ left' = [left EXCEPT ![t] = MaxPackets]
        /\ UNCHANGED operated
     \/ /\ Go(t, "next")
        /\ operated' = operated \cup {Drawn(t)}
        /\ UNCHANGED left
  /\ UNCHANGED <<vars, mainVars, count, loaded, iFnRes, mapped, failed, praised>>

\* ++ g_ui32OpenedFilesCount, with no lock: a load and a store.
LoadCount(t) ==
  /\ at[t] = "count"
  /\ loaded' = [loaded EXCEPT ![t] = count]
  /\ Go(t, "store")
  /\ UNCHANGED <<vars, mainVars, count, left, iFnRes, histVars>>

StoreCount(t) ==
  /\ at[t] = "store"
  /\ count' = loaded[t] + 1
  /\ mapped' = mapped + 1
  /\ Go(t, IF ret[t] \in Bz2Files THEN "bz_init" ELSE "read")
  /\ UNCHANGED <<vars, mainVars, loaded, left, iFnRes, failed, praised, operated>>

InitBz2(t) ==
  /\ at[t] = "bz_init"
  /\ \/ Go(t, "read") /\ UNCHANGED operated
     \/ Go(t, "next") /\ operated' = operated \cup {Drawn(t)}
  /\ UNCHANGED <<vars, mainVars, count, loaded, left, iFnRes, mapped, failed, praised>>

\* Mutant: the data loader does not look whether the file is over.
ReadVersionAnyway(t) ==
  /\ at[t] = "read"
  /\ \/ Go(t, "close") /\ UNCHANGED left
     \/ left' = [left EXCEPT ![t] = left[t] - 1] /\ Go(t, "convert")
  /\ UNCHANGED <<vars, mainVars, count, loaded, iFnRes, histVars>>

\* Mutant: the bytes of a packet are not taken out of the file.
ReadVersionInPlace(t) ==
  /\ at[t] = "read"
  /\ \/ left[t] = 0 /\ Go(t, "close") /\ UNCHANGED left
     \/ left[t] > 0 /\ left' = [left EXCEPT ![t] = 0] /\ UNCHANGED at
     \/ left[t] > 0 /\ Go(t, "convert") /\ UNCHANGED left
  /\ UNCHANGED <<vars, mainVars, count, loaded, iFnRes, histVars>>

\* data_loader_get_data for a version number.  Nothing is left: the file is
\* over.  Half a version number: the loop asks again.  Otherwise the version
\* number opens a packet.
ReadVersion(t) ==
  /\ at[t] = "read"
  /\ \/ Go(t, "close") /\ UNCHANGED left
     \/ /\ left[t] > 0
        /\ left' = [left EXCEPT ![t] = 0]
        /\ UNCHANGED at
     \/ /\ left[t] > 0
        /\ left' = [left EXCEPT ![t] = left[t] - 1]
        /\ Go(t, "convert")
  /\ UNCHANGED <<vars, mainVars, count, loaded, iFnRes, histVars>>

\* Mutant: the result of the conversion is dropped.
ConvertRegardless(t) ==
  /\ at[t] = "convert"
  /\ \/ Go(t, "read") /\ UNCHANGED failed
     \/ Go(t, "close") /\ failed' = failed \cup {Drawn(t)}
  /\ UNCHANGED <<vars, mainVars, count, loaded, left, iFnRes, mapped, praised, operated>>

\* A packet that is not converted, or is of another version, ends the file.  The
\* conversion of an IPFIX message need not return at all: see Stuck in IpfixParser.
Convert(t) ==
  /\ at[t] = "convert"
  /\ \/ /\ iFnRes' = [iFnRes EXCEPT ![t] = 0]
        /\ Go(t, "read")
        /\ UNCHANGED failed
     \/ /\ iFnRes' = [iFnRes EXCEPT ![t] = -1]
        /\ Go(t, "close")
        /\ failed' = failed \cup {Drawn(t)}
     \/ Go(t, "endless") /\ UNCHANGED <<iFnRes, failed>>
  /\ UNCHANGED <<vars, mainVars, count, loaded, left, mapped, praised, operated>>

\* The message "file is operated successfully" and data_loader_close.
CloseFile(t) ==
  /\ at[t] = "close"
  /\ praised' = IF iFnRes[t] = 0 THEN praised \cup {Drawn(t)} ELSE praised
  /\ operated' = operated \cup {Drawn(t)}
  /\ Go(t, "next")
  /\ UNCHANGED <<vars, mainVars, count, loaded, left, iFnRes, mapped, failed>>

Worker(t) == \/ DrawFile(t)
             \/ OpenFile(t) \/ LoadCount(t) \/ StoreCount(t) \/ InitBz2(t)
             \/ ReadVersion(t) \/ Convert(t) \/ CloseFile(t)

Exited == main \in {"exit", "crashed"} /\ UNCHANGED allVars

\* A thread runs as long as the process does.
Work(t) == main \notin {"exit", "crashed"} /\ Worker(t)

\* The loop of the parser that a thread does not get out of.
Loop(t) == at[t] = "endless" /\ UNCHANGED allVars

ConverterNext == Main \/ (\E t \in Threads : Work(t)) \/ (\E t \in Threads : Loop(t)) \/ Exited

ConverterSpec == ConverterInit /\ [][ConverterNext]_allVars

\* The system runs every thread that can run.
FairConverterSpec == /\ ConverterSpec
                     /\ WF_allVars(Main)
                     /\ \A t \in Threads : WF_allVars(Work(t))

-----------------------------------------------------------------------------
(* Properties.                                                             *)

\* The types of the program's variables and of the history.
ConverterTypeOK ==
  /\ TypeOK
  /\ main \in {"init", "create", "join", "report", "fini", "exit", "crashed"}
  /\ nth \in 1..(ThreadCount + 1)
  /\ at \in [Threads -> {"absent", "next", "open", "count", "store", "bz_init",
                         "read", "convert", "endless", "close", "exit"}]
  /\ count \in Nat /\ mapped \in Nat
  /\ loaded \in [Threads -> Nat]
  /\ left \in [Threads -> 0..MaxPackets]
  /\ iFnRes \in [Threads -> {0, -1}]
  /\ reported \in Nat \cup {NULL}
  /\ failed \cup praised \cup operated \subseteq 1..Len(handed)

\* When main reports, every file of the list has been opened, converted as far
\* as it goes and closed, or could not be opened; a file that cannot be opened
\* or converted never takes the files behind it along, nor does a thread that
\* could not be created as long as there is another.
AllFilesOperated ==
  main \in {"report", "fini", "exit"} /\ (\E t \in Threads : at[t] # "absent") =>
    1..Len(list) \subseteq operated

\* main destroys the mutex of the list and the lock of the template cache only
\* when no thread can be about to use them.
NoThreadAfterJoin ==
  main \in {"report", "fini", "exit"} => \A t \in Threads : at[t] \in {"exit", "absent"}

\* The counter of opened files never exceeds the files that were mapped,
\* although its increments may be lost.
CountNotOverstated == count <= mapped

\* data_loader_get_total_count_of_opened_files returns the number of files that
\* were opened, and main prints it (data_loader.h:25-27, main.cpp:70).
ReportExact == reported # NULL => reported = mapped

\* A file is logged as operated successfully only if all its packets were
\* converted: the variable iFnRes outlives the file it was set for, but never
\* hides a failure of the file at hand.
PraiseDeserved == praised \cap failed = {}

\* The program comes to its end if every conversion returns: every thread is
\* joined, whichever files cannot be opened or converted.  Only the join of a
\* thread that could not be created may end it before.  A conversion that never
\* returns keeps main in pthread_join (main.cpp:64), but no other thread from
\* going through the files that are left.
Terminates ==
  <>(\/ main = "exit"
     \/ main = "crashed" /\ \E t \in Threads : at[t] = "absent"
     \/ /\ main = "join" /\ \E t \in Threads : at[t] = "endless"
        /\ \A t \in Threads : at[t] \in {"absent", "endless", "exit"})
=============================================================================
