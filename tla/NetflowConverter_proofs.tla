----------------------- MODULE NetflowConverter_proofs -----------------------
(***************************************************************************)
(* For every directory tree and every number of threads: the list is       *)
(* complete and sorted, the calls of file_list_get_next_file_info return   *)
(* its files in order, each once, and no thread stops while files are      *)
(* left.                                                                   *)
(*                                                                         *)
(* For every number of packets besides: the program draws its files as     *)
(* FileList says, operates each of them, tears down after its threads,     *)
(* does not overstate its count, and praises no file that it failed to     *)
(* convert.                                                                *)
(*                                                                         *)
(* The first part is about the specification Spec of FileList alone.       *)
(***************************************************************************)
EXTENDS NetflowConverter, NumberTheorems

-----------------------------------------------------------------------------
(* The file list.                                                          *)

\* What inserting an element at position k of a sequence yields.
LEMMA InsertAtProperties ==
  ASSUME NEW S, NEW s \in Seq(S), NEW e \in S, NEW k \in 1..(Len(s) + 1)
  PROVE  /\ InsertAt(s, k, e) \in Seq(S)
         /\ Len(InsertAt(s, k, e)) = Len(s) + 1
         /\ \A i \in 1..(Len(s) + 1) :
              InsertAt(s, k, e)[i] = IF i < k THEN s[i]
                                     ELSE IF i = k THEN e ELSE s[i - 1]
<1> DEFINE l == SubSeq(s, 1, k - 1)
           r == SubSeq(s, k, Len(s))
<1>1. /\ l \in Seq(S) /\ Len(l) = k - 1
      /\ \A i \in 1..(k - 1) : l[i] = s[i]
  OBVIOUS
<1>2. /\ r \in Seq(S) /\ Len(r) = Len(s) - k + 1
      /\ \A i \in 1..(Len(s) - k + 1) : r[i] = s[k + i - 1]
  OBVIOUS
<1>3. InsertAt(s, k, e) = (l \o <<e>>) \o r
  BY DEF InsertAt
<1> HIDE DEF l, r
<1> DEFINE h == l \o <<e>>
<1>4. /\ h \in Seq(S) /\ Len(h) = k
      /\ \A i \in 1..(k - 1) : h[i] = s[i]
      /\ h[k] = e
  BY <1>1
<1> HIDE DEF h
<1>5. h \o r \in Seq(S) /\ Len(h \o r) = Len(s) + 1
  <2>1. Len(s) \in Nat
    OBVIOUS
  <2>2. h \in Seq(S) /\ r \in Seq(S)
    BY <1>2, <1>4
  <2>3. h \o r \in Seq(S) /\ Len(h \o r) = Len(h) + Len(r)
    BY <2>2
  <2> QED
    BY <1>2, <1>4, <2>1, <2>3
<1>6. ASSUME NEW i \in 1..(Len(s) + 1)
      PROVE  (h \o r)[i] = IF i < k THEN s[i] ELSE IF i = k THEN e ELSE s[i - 1]
  <2>1. CASE i <= k
    BY <1>2, <1>4, <2>1
  <2>2. CASE i > k
    <3>1. (h \o r)[i] = r[i - k]
      BY <1>2, <1>4, <2>2
    <3>2. i - k \in 1..(Len(s) - k + 1) /\ k + (i - k) - 1 = i - 1
      BY <2>2
    <3>3. r[i - k] = s[i - 1]
      BY <1>2, <3>2, Zenon
    <3> QED
      BY <2>2, <3>1, <3>3
  <2>3. i <= k \/ i > k
    OBVIOUS
  <2> QED
    BY <2>1, <2>2, <2>3, Zenon
<1> QED
  BY <1>3, <1>5, <1>6 DEF h

\* What SortedByTime, HandedInOrder and NoneLeftBehind rest on: whoever is
\* inside the function holds the mutex, nobody is inside before the list is
\* complete, and the number of files handed out follows the iterator, which is
\* one ahead of it between the two statements that move and read it.
Inside(t) == pc[t] \in {"locked", "moved", "read"}

InsideHolds == \A t \in Threads : Inside(t) => mutex = t

AtEnd == started /\ iter = End /\ Len(handed) = Len(list)

InvThread(t) == /\ pc[t] # "idle" => Built
                /\ pc[t] \in {"locked", "moved"} => ret[t] = NULL
                /\ pc[t] = "moved" => /\ started
                                      /\ iter # End => iter = Len(handed) + 1
                /\ pc[t] = "read" /\ ret[t] = NULL => AtEnd
                /\ pc[t] = "done" => AtEnd

InvIter == /\ iter <= Len(list)
           /\ started => Built
           /\ ~started => iter = End /\ handed = <<>>
           /\ started /\ iter = End => Len(handed) = Len(list)
           /\ iter # End /\ (\A t \in Threads : pc[t] # "moved") => iter = Len(handed)

IInv == /\ TypeOK
        /\ HandedInOrder
        /\ InsideHolds
        /\ InvIter
        /\ \A t \in Threads : InvThread(t)

LEMMA FileTimeType == ASSUME NEW f \in Files PROVE FileTime(f) \in Int
  BY FileListAssumption DEF FileTime

\* file_list_add_data_file leaves a list of files.
LEMMA AddDataFileType ==
  ASSUME TypeOK, NEW f \in Files, AddDataFile(f)
  PROVE  list' \in Seq(Files)
<1>1. CASE ~started /\ Admitted(f)
  <2>1. PICK k \in 1..(Len(list) + 1) : list' = InsertAt(list, k, f)
    BY <1>1 DEF AddDataFile, InsertFile
  <2> QED
    BY <2>1, InsertAtProperties DEF TypeOK
<1>2. CASE started \/ ~Admitted(f)
  BY <1>2 DEF AddDataFile, TypeOK
<1> QED
  BY <1>1, <1>2

\* What opening a directory pushes on the walk.
LEMMA OpenDirType ==
  ASSUME NEW d \in Dirs PROVE OpenDir(d) \in Seq(SUBSET (Dirs \cup Files))
<1>1. Entries[d] \in SUBSET (Dirs \cup Files)
  BY FileListAssumption
<1>2. <<Entries[d]>> \in Seq(SUBSET (Dirs \cup Files))
  BY <1>1
<1>3. <<>> \in Seq(SUBSET (Dirs \cup Files))
  OBVIOUS
<1> QED
  BY <1>2, <1>3 DEF OpenDir

LEMMA ForgetType ==
  ASSUME TypeOK, walk # <<>>, NEW e
  PROVE  Forget(e) \in Seq(SUBSET (Dirs \cup Files))
<1>1. Head(walk) \ {e} \in SUBSET (Dirs \cup Files)
  BY DEF TypeOK
<1>2. Tail(walk) \in Seq(SUBSET (Dirs \cup Files))
  BY DEF TypeOK
<1> QED
  BY <1>1, <1>2 DEF Forget

LEMMA InitIInv == Init => IInv
<1> SUFFICES ASSUME Init PROVE IInv
  OBVIOUS
<1>1. list = <<>> /\ walk = <<>> /\ handed = <<>> /\ Len(list) = 0 /\ Len(handed) = 0
  BY DEF Init
<1>2. TypeOK
  <2>1. dirs \in Seq(Dirs)
    BY FileListAssumption DEF Init
  <2>2. list \in Seq(Files) /\ walk \in Seq(SUBSET (Dirs \cup Files))
        /\ handed \in Seq(Threads \X (Nat \ {0}))
    BY <1>1
  <2> QED
    BY <2>1, <2>2 DEF Init, TypeOK, End
<1>3. HandedInOrder
  BY <1>1 DEF HandedInOrder
<1>4. InsideHolds /\ InvIter /\ \A t \in Threads : InvThread(t)
  BY <1>1 DEF Init, InsideHolds, Inside, InvIter, InvThread, End
<1> QED
  BY <1>2, <1>3, <1>4 DEF IInv

\* While the list is being built nobody is inside the function.
LEMMA BuildIInv == IInv /\ Build => IInv'
<1> SUFFICES ASSUME IInv, Build PROVE IInv'
  OBVIOUS
<1>1. /\ ~Built /\ ~started /\ iter = End /\ handed = <<>>
      /\ \A t \in Threads : pc[t] = "idle"
  <2>1. ~Built
    BY DEF Build, ReadConfiguredDir, ReadSubdir, ReadFile, CloseDir, Built
  <2> QED
    BY <2>1 DEF IInv, InvIter, InvThread
<1>2. UNCHANGED <<iter, started, mutex, pc, ret, handed>>
  BY DEF Build, ReadConfiguredDir, ReadSubdir, ReadFile, CloseDir, listVars, callVars
<1>3. /\ list' \in Seq(Files)
      /\ dirs' \in Seq(Dirs)
      /\ walk' \in Seq(SUBSET (Dirs \cup Files))
  <2>1. CASE ReadConfiguredDir
    <3>1. Head(dirs) \in Dirs /\ Tail(dirs) \in Seq(Dirs)
      BY <2>1 DEF ReadConfiguredDir, IInv, TypeOK
    <3> QED
      BY <2>1, <3>1, OpenDirType DEF ReadConfiguredDir, listVars, IInv, TypeOK
  <2>2. ASSUME NEW d \in Dirs, ReadSubdir(d)
        PROVE  list' \in Seq(Files) /\ dirs' \in Seq(Dirs)
               /\ walk' \in Seq(SUBSET (Dirs \cup Files))
    <3>1. Forget(d) \in Seq(SUBSET (Dirs \cup Files))
      BY <2>2, ForgetType DEF ReadSubdir, IInv
    <3>2. (IF Recursive THEN OpenDir(d) ELSE <<>>) \in Seq(SUBSET (Dirs \cup Files))
      BY OpenDirType
    <3> QED
      BY <2>2, <3>1, <3>2 DEF ReadSubdir, listVars, IInv, TypeOK
  <2>3. ASSUME NEW f \in Files, ReadFile(f)
        PROVE  list' \in Seq(Files) /\ dirs' \in Seq(Dirs)
               /\ walk' \in Seq(SUBSET (Dirs \cup Files))
    BY <2>3, AddDataFileType, ForgetType DEF ReadFile, IInv, TypeOK
  <2>4. CASE CloseDir
    BY <2>4 DEF CloseDir, listVars, IInv, TypeOK
  <2> QED
    BY <2>1, <2>2, <2>3, <2>4 DEF Build
<1>4. TypeOK'
  BY <1>2, <1>3 DEF IInv, TypeOK
<1> QED
  BY <1>1, <1>2, <1>3, <1>4
  DEF IInv, TypeOK, HandedInOrder, InsideHolds, Inside, InvIter, InvThread, End

LEMMA LockIInv ==
  ASSUME IInv, Built, NEW t \in Threads, Lock(t) PROVE IInv'
<1>1. TypeOK'
  BY DEF IInv, TypeOK, Lock, walkVars
<1>2. UNCHANGED <<list, iter, started, handed>> /\ Built'
  BY DEF Lock, walkVars, Built
<1>3. HandedInOrder' /\ InvIter'
  <2>1. \A u \in Threads : pc[u] # "moved" <=> pc'[u] # "moved"
    BY DEF Lock, IInv, TypeOK
  <2> QED
    BY <1>2, <2>1 DEF IInv, HandedInOrder, InvIter, End
<1>4. InsideHolds'
  \* The mutex was free: nobody else is inside.
  <2>1. \A u \in Threads : ~Inside(u)
    BY FileListAssumption DEF Lock, IInv, InsideHolds
  <2> QED
    BY <2>1 DEF Lock, InsideHolds, Inside, IInv, TypeOK
<1>5. ASSUME NEW u \in Threads PROVE InvThread(u)'
  <2>1. InvThread(u)
    BY DEF IInv
  <2>2. CASE u = t
    BY <1>2, <2>2 DEF Lock, InvThread, IInv, TypeOK
  <2>3. CASE u # t
    <3>1. pc'[u] = pc[u] /\ ret'[u] = ret[u]
      BY <2>3 DEF Lock, IInv, TypeOK
    <3> QED
      BY <1>2, <2>1, <3>1 DEF InvThread, AtEnd, End
  <2> QED
    BY <2>2, <2>3
<1> QED
  BY <1>1, <1>3, <1>4, <1>5 DEF IInv

\* The other threads are outside the function while t is inside it.
LEMMA OthersOutside ==
  ASSUME IInv, NEW t \in Threads, Inside(t), NEW u \in Threads, u # t
  PROVE  ~Inside(u)
  BY DEF IInv, InsideHolds

LEMMA AdvanceIInv ==
  ASSUME IInv, Built, NEW t \in Threads, Advance(t) PROVE IInv'
<1>1. /\ UNCHANGED <<list, mutex, dirs, walk, ret, handed>>
      /\ pc[t] = "locked" /\ Inside(t)
      /\ \A u \in Threads : u # t => pc'[u] = pc[u] /\ ~Inside(u)
    BY OthersOutside DEF Advance, Inside, walkVars, IInv, TypeOK
<1>2. Len(list) \in Nat /\ Len(handed) \in Nat /\ iter \in Nat
  BY DEF IInv, TypeOK
<1>3. /\ pc'[t] \in {"moved", "read"}
      /\ iter' \in Nat /\ iter' <= Len(list)
      /\ started' = TRUE
      /\ iter' = End => Len(handed) = Len(list)
      /\ pc'[t] = "read" => iter' = End
      /\ iter' # End => iter' = Len(handed) + 1
  <2>1. \A u \in Threads : pc[u] # "moved"
    BY <1>1 DEF Inside
  <2>2. CASE iter # End
    <3>1. iter = Len(handed) /\ started /\ iter <= Len(list)
      BY <2>1, <2>2 DEF IInv, InvIter, TypeOK
    <3>2. iter' = Position(iter + 1) /\ pc'[t] = "moved" /\ started' = started
      BY <2>2 DEF Advance, IInv, TypeOK
    <3> QED
      BY <1>2, <3>1, <3>2 DEF Position, End
  <2>3. CASE iter = End /\ ~started
    <3>1. handed = <<>> /\ Len(handed) = 0
      BY <2>3 DEF IInv, InvIter
    <3>2. iter' = Position(1) /\ pc'[t] = "moved" /\ started'
      BY <2>3 DEF Advance, IInv, TypeOK
    <3> QED
      BY <1>2, <3>1, <3>2 DEF Position, End, Advance
  <2>4. CASE iter = End /\ started
    <3>1. Len(handed) = Len(list)
      BY <2>4 DEF IInv, InvIter
    <3>2. iter' = iter /\ pc'[t] = "read" /\ started' = started
      BY <2>4 DEF Advance, IInv, TypeOK
    <3> QED
      BY <1>2, <2>4, <3>1, <3>2 DEF End, IInv, TypeOK
  <2> QED
    BY <2>2, <2>3, <2>4 DEF IInv, TypeOK
<1>4. TypeOK'
  <2>1. pc' \in [Threads -> {"idle", "locked", "moved", "read", "done"}]
    BY DEF Advance, IInv, TypeOK
  <2> QED
    BY <1>1, <1>3, <2>1 DEF IInv, TypeOK
<1>5. HandedInOrder'
  BY <1>1 DEF IInv, HandedInOrder
<1>6. InsideHolds'
  BY <1>1, <1>3 DEF IInv, InsideHolds, Inside
<1>7. InvIter'
  <2>1. (\A u \in Threads : pc[u] # "moved")' => iter' = End
    BY <1>3
  <2> QED
    BY <1>1, <1>3, <2>1 DEF InvIter, Built
<1>8. ASSUME NEW u \in Threads PROVE InvThread(u)'
  <2>1. InvThread(u) /\ InvThread(t)
    BY DEF IInv
  <2>2. CASE u = t
    BY <1>1, <1>3, <2>1, <2>2 DEF InvThread, AtEnd, Built
  <2>3. CASE u # t
    <3>1. pc'[u] = pc[u] /\ pc[u] \in {"idle", "done"}
      BY <1>1, <2>3 DEF Inside, IInv, TypeOK
    <3>2. pc[u] = "done" => iter' = iter /\ started' = started
      BY <2>1, <3>1, <2>3, <1>2 DEF InvThread, AtEnd, Advance
    <3> QED
      BY <1>1, <2>1, <3>1, <3>2 DEF InvThread, AtEnd, Built
  <2> QED
    BY <2>2, <2>3
<1> QED
  BY <1>4, <1>5, <1>6, <1>7, <1>8 DEF IInv

LEMMA FetchIInv ==
  ASSUME IInv, Built, NEW t \in Threads, Fetch(t) PROVE IInv'
<1>1. /\ UNCHANGED <<list, iter, started, mutex, dirs, walk>>
      /\ pc[t] = "moved" /\ Inside(t) /\ pc'[t] = "read"
      /\ \A u \in Threads : u # t => /\ pc'[u] = pc[u] /\ ret'[u] = ret[u]
                                     /\ ~Inside(u)
    BY OthersOutside DEF Fetch, Inside, listVars, walkVars, IInv, TypeOK
<1>2. Len(list) \in Nat /\ Len(handed) \in Nat /\ iter \in Nat
  BY DEF IInv, TypeOK
<1>3. started /\ ret[t] = NULL /\ iter <= Len(list)
  BY <1>1 DEF IInv, InvThread, InvIter
<1>4. /\ handed' \in Seq(Threads \X (Nat \ {0}))
      /\ ret'[t] \in Files \cup {NULL}
      /\ ret' \in [Threads -> Files \cup {NULL}]
      /\ HandedInOrder'
      /\ iter = End => handed' = handed /\ Len(handed) = Len(list)
      /\ iter # End => Len(handed') = iter /\ ret'[t] # NULL
  <2>1. CASE iter # End
    <3>1. iter = Len(handed) + 1
      BY <1>1, <2>1 DEF IInv, InvThread
    <3>2. list[iter] \in Files /\ list[iter] # NULL
      BY <1>2, <1>3, <2>1, <3>1, FileListAssumption DEF IInv, TypeOK
    <3>3. <<t, iter>> \in Threads \X (Nat \ {0})
      BY <1>2, <2>1 DEF End
    <3>4. handed' = Append(handed, <<t, iter>>) /\ ret' = [ret EXCEPT ![t] = list[iter]]
      BY <2>1 DEF Fetch
    <3>5. handed \in Seq(Threads \X (Nat \ {0}))
      BY DEF IInv, TypeOK
    <3>6. /\ handed' \in Seq(Threads \X (Nat \ {0}))
          /\ Len(handed') = Len(handed) + 1
          /\ \A i \in 1..Len(handed) : handed'[i] = handed[i]
          /\ handed'[Len(handed) + 1] = <<t, iter>>
      BY <3>3, <3>4, <3>5
    <3>7. HandedInOrder'
      <4>1. ASSUME NEW i \in 1..(Len(handed) + 1)
            PROVE  handed'[i][2] = i /\ i <= Len(list)
        <5>1. CASE i \in 1..Len(handed)
          BY <3>6, <5>1 DEF IInv, HandedInOrder
        <5>2. CASE i = Len(handed) + 1
          BY <1>3, <3>1, <3>6, <5>2
        <5> QED
          BY <1>2, <5>1, <5>2
      <4> QED
        BY <1>1, <3>6, <4>1 DEF HandedInOrder
    <3> QED
      BY <1>2, <2>1, <3>1, <3>2, <3>4, <3>6, <3>7 DEF IInv, TypeOK
  <2>2. CASE iter = End
    <3>1. handed' = handed /\ ret' = ret
      BY <2>2 DEF Fetch
    <3>2. Len(handed) = Len(list)
      BY <1>3, <2>2 DEF IInv, InvIter
    <3> QED
      BY <1>1, <2>2, <3>1, <3>2 DEF IInv, TypeOK, HandedInOrder
  <2> QED
    BY <2>1, <2>2
<1>5. TypeOK'
  BY <1>1, <1>4 DEF Fetch, IInv, TypeOK
<1>6. InsideHolds'
  BY <1>1 DEF IInv, InsideHolds, Inside
<1>7. InvIter'
  <2>1. Built' = Built
    BY <1>1 DEF Built
  <2> QED
    BY <1>1, <1>2, <1>3, <1>4, <2>1 DEF IInv, InvIter, End
<1>8. ASSUME NEW u \in Threads PROVE InvThread(u)'
  <2>1. InvThread(u) /\ Built' = Built
    BY <1>1 DEF IInv, Built
  <2>2. CASE u = t
    BY <1>1, <1>3, <1>4, <2>1, <2>2 DEF InvThread, AtEnd, End
  <2>3. CASE u # t
    <3>1. pc'[u] = pc[u] /\ ret'[u] = ret[u] /\ pc[u] \in {"idle", "done"}
      BY <1>1, <2>3 DEF Inside, IInv, TypeOK
    <3>2. pc[u] = "done" => handed' = handed
      BY <1>4, <2>1, <3>1 DEF InvThread, AtEnd
    <3> QED
      BY <1>1, <2>1, <3>1, <3>2 DEF InvThread, AtEnd, End
  <2> QED
    BY <2>2, <2>3
<1> QED
  BY <1>4, <1>5, <1>6, <1>7, <1>8 DEF IInv

LEMMA UnlockIInv ==
  ASSUME IInv, Built, NEW t \in Threads, Unlock(t) PROVE IInv'
<1>1. /\ UNCHANGED <<list, iter, started, dirs, walk, ret, handed>>
      /\ pc[t] = "read" /\ Inside(t)
      /\ pc'[t] = IF ret[t] = NULL THEN "done" ELSE "idle"
      /\ \A u \in Threads : u # t => pc'[u] = pc[u] /\ ~Inside(u)
    BY OthersOutside DEF Unlock, Inside, walkVars, IInv, TypeOK
<1>2. TypeOK'
  BY <1>1 DEF Unlock, IInv, TypeOK
<1>3. HandedInOrder'
  BY <1>1 DEF IInv, HandedInOrder
<1>4. InsideHolds'
  BY <1>1 DEF InsideHolds, Inside
<1>5. InvIter'
  <2>1. Built' = Built /\ \A u \in Threads : pc[u] # "moved"
    BY <1>1 DEF Built, Inside
  <2> QED
    BY <1>1, <2>1 DEF IInv, InvIter, End
<1>6. ASSUME NEW u \in Threads PROVE InvThread(u)'
  BY <1>1 DEF IInv, InvThread, AtEnd, End, Built
<1> QED
  BY <1>2, <1>3, <1>4, <1>5, <1>6 DEF IInv

LEMMA NextIInv == IInv /\ [Next]_vars => IInv'
<1> SUFFICES ASSUME IInv, [Next]_vars PROVE IInv'
  OBVIOUS
<1>1. CASE Build
  BY <1>1, BuildIInv
<1>2. ASSUME Built, NEW t \in Threads, GetNextFileInfo(t) PROVE IInv'
  BY <1>2, LockIInv, AdvanceIInv, FetchIInv, UnlockIInv DEF GetNextFileInfo
<1>3. CASE UNCHANGED vars
  BY <1>3 DEF vars, IInv, TypeOK, HandedInOrder, InsideHolds, Inside, InvIter,
              InvThread, AtEnd, Built, End
<1> QED
  BY <1>1, <1>2, <1>3 DEF Next, Finished

\* The invariant on which the theorems below rest.
THEOREM Invariant == Spec => []IInv
  BY InitIInv, NextIInv, PTL DEF Spec

\* The variables of the file list keep their types.
THEOREM Typing == Spec => []TypeOK
<1>1. IInv => TypeOK
  BY DEF IInv
<1> QED
  BY <1>1, Invariant, PTL

\* Whatever the number of threads and files, the calls return the files of the
\* list in its order, each of them once.
THEOREM FilesHandedInOrder == Spec => []HandedInOrder
<1>1. IInv => HandedInOrder
  BY DEF IInv
<1> QED
  BY <1>1, Invariant, PTL

\* No thread stops before every file has been handed out.
THEOREM NoFileLeftBehind == Spec => []NoneLeftBehind
<1>1. IInv => NoneLeftBehind
  BY DEF IInv, InvThread, AtEnd, NoneLeftBehind
<1> QED
  BY <1>1, Invariant, PTL

\* file_list_add_data_file keeps the list sorted and admits only what the
\* filter accepts.
LEMMA AddDataFileSorted ==
  ASSUME TypeOK, SortedByTime, NEW f \in Files, AddDataFile(f)
  PROVE  SortedByTime'
<1>1. CASE ~started /\ Admitted(f)
  <2>1. PICK k \in 1..(Len(list) + 1) :
          /\ \A i \in 1..(k - 1) : FileTime(list[i]) <= FileTime(f)
          /\ \A i \in k..Len(list) : FileTime(f) < FileTime(list[i])
          /\ list' = InsertAt(list, k, f)
    BY <1>1 DEF AddDataFile, InsertFile, Place
  <2>2. /\ Len(list') = Len(list) + 1
        /\ \A i \in 1..(Len(list) + 1) :
             list'[i] = IF i < k THEN list[i] ELSE IF i = k THEN f ELSE list[i - 1]
    BY <2>1, InsertAtProperties, SMTT(30) DEF TypeOK
  <2>3. Len(list) \in Nat /\ \A i \in 1..Len(list) : list[i] \in Files
    BY DEF TypeOK
  <2> DEFINE T == [i \in 1..Len(list) |-> FileTime(list[i])]
  <2>4. FileTime(f) \in Int /\ \A i \in 1..Len(list) : T[i] \in Int
    BY <2>3, FileTimeType
  <2>5. ASSUME NEW i \in 1..(Len(list) + 1), NEW j \in 1..(Len(list) + 1), i < j
        PROVE  FileTime(list'[i]) <= FileTime(list'[j])
    <3>1. CASE j < k
      BY <2>2, <2>3, <2>5, <3>1 DEF SortedByTime
    <3>2. CASE j = k
      BY <2>1, <2>2, <2>3, <2>5, <3>2
    <3>3. CASE i < k /\ k < j
      <4>1. i \in 1..(k - 1) /\ j - 1 \in k..Len(list)
        BY <2>3, <3>3
      <4>2. list'[i] = list[i] /\ list'[j] = list[j - 1]
        BY <2>2, <2>3, <3>3
      <4>3. FileTime(list[i]) <= FileTime(f) /\ FileTime(f) < FileTime(list[j - 1])
        BY <2>1, <4>1
      <4>4. FileTime(list[i]) \in Int /\ FileTime(list[j - 1]) \in Int
        BY <2>3, <4>1, FileTimeType
      <4> QED
        BY <2>4, <4>2, <4>3, <4>4
    <3>4. CASE i = k
      <4>1. j - 1 \in k..Len(list)
        BY <2>3, <2>5, <3>4
      <4>2. list'[i] = f /\ list'[j] = list[j - 1]
        BY <2>2, <2>3, <2>5, <3>4
      <4>3. FileTime(f) < FileTime(list[j - 1]) /\ FileTime(list[j - 1]) \in Int
        BY <2>1, <2>3, <4>1, FileTimeType
      <4> QED
        BY <2>4, <4>2, <4>3
    <3>5. CASE k < i
      <4>1. list'[i] = list[i - 1] /\ list'[j] = list[j - 1]
        BY <2>2, <2>3, <2>5, <3>5
      <4>2. i - 1 \in 1..Len(list) /\ j - 1 \in 1..Len(list) /\ i - 1 < j - 1
        BY <2>3, <2>5, <3>5
      <4> QED
        BY <4>1, <4>2 DEF SortedByTime
    <3> QED
      BY <2>3, <2>5, <3>1, <3>2, <3>3, <3>4, <3>5
  <2>6. ASSUME NEW i \in 1..(Len(list) + 1) PROVE Admitted(list'[i])
    <3>1. CASE i < k
      BY <2>2, <2>3, <3>1 DEF SortedByTime
    <3>2. CASE i = k
      BY <1>1, <2>2, <3>2
    <3>3. CASE k < i
      <4>1. list'[i] = list[i - 1] /\ i - 1 \in 1..Len(list)
        BY <2>2, <2>3, <3>3
      <4> QED
        BY <4>1 DEF SortedByTime
    <3> QED
      BY <3>1, <3>2, <3>3
  <2> QED
    BY <2>2, <2>5, <2>6 DEF SortedByTime, Admitted, InTimeWindow, FileTime
<1>2. CASE started \/ ~Admitted(f)
  BY <1>2 DEF AddDataFile, SortedByTime, Admitted, InTimeWindow, FileTime
<1> QED
  BY <1>1, <1>2

\* For every directory tree the list is in time order and holds only files
\* that the filter admits.
THEOREM ListSorted == Spec => []SortedByTime
<1>1. Init => SortedByTime
  BY DEF Init, SortedByTime
<1>2. TypeOK /\ SortedByTime /\ [Next]_vars => SortedByTime'
  <2> SUFFICES ASSUME TypeOK, SortedByTime, [Next]_vars PROVE SortedByTime'
    OBVIOUS
  <2>1. ASSUME NEW f \in Files, ReadFile(f) PROVE SortedByTime'
    BY <2>1, AddDataFileSorted DEF ReadFile
  <2>2. CASE UNCHANGED list
    BY <2>2 DEF SortedByTime, Admitted, InTimeWindow, FileTime
  <2>3. (\E f \in Files : ReadFile(f)) \/ UNCHANGED list
    BY DEF Next, Build, ReadConfiguredDir, ReadSubdir, CloseDir, listVars,
           GetNextFileInfo, Lock, Advance, Fetch, Unlock, Finished, vars
  <2> QED
    BY <2>1, <2>2, <2>3
<1> QED
  BY <1>1, <1>2, Typing, PTL DEF Spec

-----------------------------------------------------------------------------
(* The list holds every file that the scan meets.                           *)

\* What a scan reaches: the configured directories and, where it is recursive, those
\* in directories that it can read; and the files that it meets there.
Closed(S) ==
  /\ \A k \in 1..Len(DirList) : DirList[k] \in S
  /\ Recursive => \A d \in S \ Unreadable : Entries[d] \cap Dirs \subseteq S

Scanned == {d \in Dirs : \A S \in SUBSET Dirs : Closed(S) => d \in S}
Met == {f \in Files : \E d \in Scanned \ Unreadable : f \in Entries[d]}

Members(s) == {s[i] : i \in 1..Len(s)}

\* Once the scan is over, the list holds the admitted files that it could meet and no
\* others, whatever readdir's order and however the directories lie in one another
\* (file_list_read_directory).
EveryFileListed == Built => Members(list) = {f \in Met : Admitted(f)}

\* The entries still to read.
Pending(w) == UNION {w[k] : k \in 1..Len(w)}

\* Everything read and to read is reached by the scan.
Leads(e) == (e \in Files => e \in Met) /\ (e \in Dirs /\ Recursive => e \in Scanned)

OnTheWay ==
  /\ Members(dirs) \subseteq Scanned
  /\ \A e \in Pending(walk) : Leads(e)
  /\ \A f \in Members(list) : f \in Met /\ Admitted(f)

\* S holds the directories opened, or refused: each of their entries is still to read or
\* was dealt with.
DealtWith(e, S) ==
  /\ e \in Files /\ Admitted(e) => e \in Members(list)
  /\ e \in Dirs /\ Recursive => e \in S

Accounted(S) ==
  /\ S \in SUBSET Dirs
  /\ \A k \in 1..Len(DirList) : DirList[k] \in S \cup Members(dirs)
  /\ \A d \in S \ Unreadable : \A e \in Entries[d] : e \in Pending(walk) \/ DealtWith(e, S)

\* Nothing comes from elsewhere, and nothing is left behind.
WInv == OnTheWay /\ \E S : Accounted(S)

\* What is to be read of a directory.
EntrySets == SUBSET (Dirs \cup Files)

\* A directory more, a directory less.
LEMMA PendingIs ==
  ASSUME NEW w \in Seq(EntrySets)
  PROVE  /\ Pending(<<>>) = {}
         /\ w # <<>> => Pending(w) = Head(w) \cup Pending(Tail(w))
         /\ \A E \in EntrySets : Pending(<<E>> \o w) = E \cup Pending(w)
<1>1. Pending(<<>>) = {}
  BY DEF Pending
<1>2. PICK n \in Nat : n = Len(w)
  OBVIOUS
<1>3. ASSUME w # <<>> PROVE Pending(w) = Head(w) \cup Pending(Tail(w))
  <2>1. PICK t : t = Tail(w)
    OBVIOUS
  <2>2. n # 0 /\ Head(w) = w[1] /\ Len(t) = n - 1 /\ \A k \in 1..(n - 1) : t[k] = w[k + 1]
    BY <1>2, <1>3, <2>1
  <2>3. ASSUME NEW e \in Pending(w) PROVE e \in w[1] \cup Pending(t)
    <3>1. PICK k \in 1..n : e \in w[k]
      BY <1>2, <2>3 DEF Pending
    <3>2. CASE k = 1
      BY <3>1, <3>2
    <3>3. CASE k # 1
      <4>1. k - 1 \in 1..(n - 1) /\ (k - 1) + 1 = k
        BY <3>3
      <4>2. t[k - 1] = w[k]
        BY <2>2, <4>1
      <4> QED
        BY <2>2, <3>1, <4>1, <4>2 DEF Pending
    <3> QED
      BY <3>2, <3>3
  <2>4. ASSUME NEW e \in w[1] PROVE e \in Pending(w)
    <3>1. 1 \in 1..n
      BY <2>2
    <3> QED
      BY <1>2, <2>4, <3>1 DEF Pending
  <2>5. ASSUME NEW e \in Pending(t) PROVE e \in Pending(w)
    <3>1. PICK k \in 1..(n - 1) : e \in t[k]
      BY <2>2, <2>5 DEF Pending
    <3>2. k + 1 \in 1..n /\ e \in w[k + 1]
      BY <2>2, <3>1
    <3> QED
      BY <1>2, <3>2 DEF Pending
  <2> QED
    BY <2>1, <2>2, <2>3, <2>4, <2>5
<1>4. ASSUME NEW E \in EntrySets PROVE Pending(<<E>> \o w) = E \cup Pending(w)
  <2>1. PICK v : v = <<E>> \o w
    OBVIOUS
  <2>2. Len(v) = n + 1 /\ v[1] = E /\ \A k \in 1..n : v[k + 1] = w[k]
    BY <1>2, <2>1
  <2>3. ASSUME NEW e \in Pending(v) PROVE e \in E \cup Pending(w)
    <3>1. PICK k \in 1..(n + 1) : e \in v[k]
      BY <2>2, <2>3 DEF Pending
    <3>2. CASE k = 1
      BY <2>2, <3>1, <3>2
    <3>3. CASE k # 1
      <4>1. k - 1 \in 1..n /\ (k - 1) + 1 = k
        BY <3>3
      <4>2. w[k - 1] = v[k]
        BY <2>2, <4>1
      <4> QED
        BY <1>2, <3>1, <4>1, <4>2 DEF Pending
    <3> QED
      BY <3>2, <3>3
  <2>4. ASSUME NEW e \in E PROVE e \in Pending(v)
    <3>1. 1 \in 1..(n + 1)
      OBVIOUS
    <3> QED
      BY <2>2, <2>4, <3>1 DEF Pending
  <2>5. ASSUME NEW e \in Pending(w) PROVE e \in Pending(v)
    <3>1. PICK k \in 1..n : e \in w[k]
      BY <1>2, <2>5 DEF Pending
    <3>2. k + 1 \in 1..(n + 1) /\ e \in v[k + 1]
      BY <2>2, <3>1
    <3> QED
      BY <2>2, <3>2 DEF Pending
  <2> QED
    BY <2>1, <2>3, <2>4, <2>5
<1> QED
  BY <1>1, <1>3, <1>4

\* What lies in a directory that is reached, is reached.
LEMMA EntryLeads ==
  ASSUME NEW d \in Scanned \ Unreadable, NEW e \in Entries[d] PROVE Leads(e)
<1>1. ASSUME e \in Dirs, Recursive, NEW S \in SUBSET Dirs, Closed(S) PROVE e \in S
  <2>1. d \in S
    BY <1>1 DEF Scanned
  <2> QED
    BY <1>1, <2>1 DEF Closed
<1> QED
  BY <1>1 DEF Leads, Met, Scanned

\* The scan starts from the configured directories.
LEMMA ConfiguredScanned == \A k \in 1..Len(DirList) : DirList[k] \in Scanned
<1>1. \A k \in 1..Len(DirList) : DirList[k] \in Dirs
  BY FileListAssumption
<1> QED
  BY <1>1 DEF Scanned, Closed

\* All is still to read.
LEMMA ScanBegins == Init => WInv
<1> SUFFICES ASSUME Init PROVE WInv
  OBVIOUS
<1>1. list = <<>> /\ dirs = DirList /\ walk = <<>>
  BY DEF Init
<1>2. Pending(walk) = {} /\ Members(list) = {}
  BY <1>1 DEF Pending, Members
<1>3. OnTheWay
  BY <1>1, <1>2, ConfiguredScanned DEF OnTheWay, Members
<1>4. Accounted({})
  BY <1>1 DEF Accounted, Members
<1> QED
  BY <1>3, <1>4 DEF WInv

\* A file that is admitted is added to the others.
LEMMA FileAdded ==
  ASSUME TypeOK, NEW f \in Files, ~ started, AddDataFile(f)
  PROVE  Members(list') = IF Admitted(f) THEN Members(list) \cup {f} ELSE Members(list)
<1>1. CASE ~ Admitted(f)
  BY <1>1 DEF AddDataFile
<1>2. CASE Admitted(f)
  <2>1. PICK k \in 1..(Len(list) + 1) : list' = InsertAt(list, k, f)
    BY <1>2 DEF AddDataFile, InsertFile
  <2>2. PICK n, m : n = Len(list) /\ m = list'
    OBVIOUS
  <2>3. n \in Nat /\ list \in Seq(Files)
    BY <2>2 DEF TypeOK
  <2>4. /\ Len(m) = n + 1 /\ k \in 1..(n + 1)
        /\ \A i \in 1..(n + 1) : m[i] = IF i < k THEN list[i] ELSE IF i = k THEN f ELSE list[i - 1]
    BY <2>1, <2>2, <2>3, InsertAtProperties
  <2>5. ASSUME NEW e \in Members(m) PROVE e \in Members(list) \cup {f}
    <3>1. PICK i \in 1..(n + 1) : e = m[i]
      BY <2>4, <2>5 DEF Members
    <3>2. CASE i < k
      <4>1. i \in 1..n
        BY <2>3, <2>4, <3>2
      <4> QED
        BY <2>2, <2>4, <3>1, <3>2, <4>1 DEF Members
    <3>3. CASE i = k
      BY <2>4, <3>1, <3>3
    <3>4. CASE i > k
      <4>1. i - 1 \in 1..n /\ ~(i < k) /\ i # k
        BY <2>3, <2>4, <3>4
      <4> QED
        BY <2>2, <2>4, <3>1, <4>1 DEF Members
    <3> QED
      BY <3>2, <3>3, <3>4
  <2>6. f \in Members(m)
    <3>1. m[k] = f
      BY <2>4
    <3> QED
      BY <2>4, <3>1 DEF Members
  <2>7. ASSUME NEW e \in Members(list) PROVE e \in Members(m)
    <3>1. PICK i \in 1..n : e = list[i]
      BY <2>2, <2>7 DEF Members
    <3>2. CASE i < k
      <4>1. i \in 1..(n + 1) /\ m[i] = e
        BY <2>3, <2>4, <3>1, <3>2
      <4> QED
        BY <2>4, <4>1 DEF Members
    <3>3. CASE i >= k
      <4>1. i + 1 \in 1..(n + 1) /\ ~(i + 1 < k) /\ i + 1 # k /\ (i + 1) - 1 = i
        BY <2>3, <2>4, <3>3
      <4>2. m[i + 1] = e
        BY <2>4, <3>1, <4>1
      <4> QED
        BY <2>4, <4>1, <4>2 DEF Members
    <3> QED
      BY <2>4, <3>2, <3>3
  <2> QED
    BY <1>2, <2>2, <2>5, <2>6, <2>7
<1> QED
  BY <1>1, <1>2

\* The first directory and the others.
LEMMA HeadAndTail ==
  ASSUME NEW s \in Seq(Dirs), s # <<>>
  PROVE  Members(s) = {Head(s)} \cup Members(Tail(s))
<1>1. PICK n, t : n = Len(s) /\ t = Tail(s)
  OBVIOUS
<1>2. n \in Nat \ {0} /\ Head(s) = s[1] /\ Len(t) = n - 1 /\ \A k \in 1..(n - 1) : t[k] = s[k + 1]
  BY <1>1
<1>3. ASSUME NEW e \in Members(s) PROVE e = s[1] \/ e \in Members(t)
  <2>1. PICK k \in 1..n : e = s[k]
    BY <1>1, <1>3 DEF Members
  <2>2. CASE k # 1
    <3>1. k - 1 \in 1..(n - 1) /\ (k - 1) + 1 = k
      BY <1>2, <2>2
    <3>2. t[k - 1] = e
      BY <1>2, <2>1, <3>1
    <3> QED
      BY <1>2, <3>1, <3>2 DEF Members
  <2> QED
    BY <2>1, <2>2
<1>4. s[1] \in Members(s)
  <2>1. 1 \in 1..n
    BY <1>2
  <2> QED
    BY <1>1, <2>1 DEF Members
<1>5. ASSUME NEW e \in Members(t) PROVE e \in Members(s)
  <2>1. PICK k \in 1..(n - 1) : e = t[k]
    BY <1>2, <1>5 DEF Members
  <2>2. k + 1 \in 1..n /\ e = s[k + 1]
    BY <1>2, <2>1
  <2> QED
    BY <1>1, <2>2 DEF Members
<1> QED
  BY <1>1, <1>2, <1>3, <1>4, <1>5

\* A directory that is opened, or refused, counts as such from then on and its entries
\* are to read; an entry that is read is dealt with.
LEMMA ScanStep ==
  ASSUME IInv, WInv, Build PROVE WInv'
<1>1. TypeOK /\ ~ started
  BY DEF IInv, InvIter, Built, Build, ReadConfiguredDir, ReadSubdir, ReadFile, CloseDir
<1>2. PICK S : Accounted(S)
  BY DEF WInv
<1>3. walk \in Seq(EntrySets) /\ dirs \in Seq(Dirs)
  BY <1>1 DEF TypeOK, EntrySets
<1>4. \A d \in Dirs : Entries[d] \in EntrySets
  BY FileListAssumption DEF EntrySets
<1>9. ASSUME walk # <<>>, NEW e
      PROVE  /\ Forget(e) \in Seq(EntrySets)
             /\ Pending(Forget(e)) \subseteq Pending(walk)
             /\ Pending(walk) \ {e} \subseteq Pending(Forget(e))
             /\ e \in Head(walk) => e \in Pending(walk)
  <2>1. PICK h, t : h = Head(walk) /\ t = Tail(walk)
    OBVIOUS
  <2>2. t \in Seq(EntrySets) /\ h \in EntrySets
    BY <1>3, <1>9, <2>1
  <2>3. h \ {e} \in EntrySets
    BY <2>2 DEF EntrySets
  <2>4. PICK g : g = h \ {e}
    OBVIOUS
  <2>5. <<g>> \o t \in Seq(EntrySets) /\ Forget(e) = <<g>> \o t
    BY <2>1, <2>2, <2>3, <2>4 DEF Forget
  <2>6. Pending(walk) = h \cup Pending(t)
    BY <1>3, <1>9, <2>1, PendingIs
  <2>7. Pending(<<g>> \o t) = g \cup Pending(t)
    BY <2>2, <2>3, <2>4, PendingIs
  <2> QED
    BY <2>1, <2>4, <2>5, <2>6, <2>7
<1>5. CASE ReadConfiguredDir
  <2>1. PICK d \in Dirs : d = Head(dirs)
    BY <1>3, <1>5 DEF ReadConfiguredDir
  <2>2. /\ walk = <<>> /\ dirs # <<>> /\ list' = list
        /\ walk' = OpenDir(d) /\ dirs' = Tail(dirs)
    BY <1>5, <2>1 DEF ReadConfiguredDir, listVars
  <2>3. Members(dirs) = {d} \cup Members(dirs')
    BY <1>3, <2>1, <2>2, HeadAndTail
  <2>4. Pending(walk) = {} /\ Pending(walk') = IF d \in Unreadable THEN {} ELSE Entries[d]
    <3>1. Pending(walk) = {}
      BY <1>3, <2>2, PendingIs
    <3>2. CASE d \in Unreadable
      <4>1. walk' = walk
        BY <2>2, <3>2 DEF OpenDir
      <4> QED
        BY <3>1, <3>2, <4>1
    <3>3. CASE d \notin Unreadable
      <4>1. PICK E \in EntrySets : E = Entries[d]
        BY <1>4
      <4>2. walk' = <<E>> \o walk
        BY <2>2, <3>3, <4>1 DEF OpenDir
      <4>3. Pending(<<E>> \o walk) = E \cup Pending(walk)
        BY <1>3, PendingIs
      <4> QED
        BY <3>1, <3>3, <4>1, <4>2, <4>3
    <3> QED
      BY <3>1, <3>2, <3>3
  <2>5. OnTheWay'
    BY <2>2, <2>3, <2>4, EntryLeads DEF WInv, OnTheWay
  <2>6. Accounted(S \cup {d})'
    BY <1>2, <2>1, <2>2, <2>3, <2>4 DEF Accounted, DealtWith
  <2> QED
    BY <2>5, <2>6 DEF WInv
<1>6. ASSUME NEW d \in Dirs, ReadSubdir(d) PROVE WInv'
  <2>1. /\ walk # <<>> /\ d \in Head(walk) /\ list' = list /\ dirs' = dirs
        /\ walk' = (IF Recursive THEN OpenDir(d) ELSE <<>>) \o Forget(d)
    BY <1>6 DEF ReadSubdir, listVars
  <2>2. /\ Pending(walk') \subseteq
             Pending(walk) \cup (IF Recursive /\ d \notin Unreadable THEN Entries[d] ELSE {})
        /\ (Pending(walk) \ {d}) \cup (IF Recursive /\ d \notin Unreadable THEN Entries[d] ELSE {})
             \subseteq Pending(walk')
        /\ d \in Pending(walk)
    <3>1. PICK w \in Seq(EntrySets) : w = Forget(d)
      BY <1>9, <2>1
    <3>2. /\ Pending(w) \subseteq Pending(walk) /\ Pending(walk) \ {d} \subseteq Pending(w)
          /\ d \in Pending(walk)
      BY <1>9, <2>1, <3>1
    <3>3. CASE Recursive /\ d \notin Unreadable
      <4>1. PICK E \in EntrySets : E = Entries[d]
        BY <1>4
      <4>2. walk' = <<E>> \o w
        BY <2>1, <3>1, <3>3, <4>1 DEF OpenDir
      <4>3. Pending(<<E>> \o w) = E \cup Pending(w)
        BY PendingIs
      <4> QED
        BY <3>2, <3>3, <4>1, <4>2, <4>3
    <3>4. CASE ~(Recursive /\ d \notin Unreadable)
      <4>1. walk' = <<>> \o w
        BY <2>1, <3>1, <3>4 DEF OpenDir
      <4>2. walk' = w
        BY <4>1
      <4> QED
        BY <3>2, <3>4, <4>2
    <3> QED
      BY <3>3, <3>4
  <2>3. Recursive => d \in Scanned
    BY <2>2 DEF WInv, OnTheWay, Leads
  <2>4. OnTheWay'
    BY <2>1, <2>2, <2>3, EntryLeads DEF WInv, OnTheWay
  <2>5. CASE Recursive
    <3>1. Accounted(S \cup {d})'
      BY <1>2, <2>1, <2>2, <2>5, FileListAssumption DEF Accounted, DealtWith
    <3> QED
      BY <2>4, <3>1 DEF WInv
  <2>6. CASE ~ Recursive
    <3>1. Accounted(S)'
      BY <1>2, <2>1, <2>2, <2>6, FileListAssumption DEF Accounted, DealtWith
    <3> QED
      BY <2>4, <3>1 DEF WInv
  <2> QED
    BY <2>5, <2>6
<1>7. ASSUME NEW f \in Files, ReadFile(f) PROVE WInv'
  <2>1. /\ walk # <<>> /\ f \in Head(walk) /\ walk' = Forget(f) /\ dirs' = dirs /\ AddDataFile(f)
    BY <1>7 DEF ReadFile
  <2>2. /\ Pending(walk') \subseteq Pending(walk)
        /\ Pending(walk) \ {f} \subseteq Pending(walk')
        /\ f \in Pending(walk)
    BY <1>9, <2>1
  <2>3. Members(list)' = IF Admitted(f) THEN Members(list) \cup {f} ELSE Members(list)
    BY <1>1, <2>1, FileAdded DEF Members
  <2>4. OnTheWay'
    BY <2>1, <2>2, <2>3 DEF WInv, OnTheWay, Leads
  <2>5. Accounted(S)'
    BY <1>2, <2>1, <2>2, <2>3, FileListAssumption DEF Accounted, DealtWith
  <2> QED
    BY <2>4, <2>5 DEF WInv
<1>8. CASE CloseDir
  <2>1. /\ walk # <<>> /\ Head(walk) = {} /\ walk' = Tail(walk) /\ dirs' = dirs /\ list' = list
    BY <1>8 DEF CloseDir, listVars
  <2>2. Pending(walk') = Pending(walk)
    BY <1>3, <2>1, PendingIs
  <2>3. OnTheWay'
    BY <2>1, <2>2 DEF WInv, OnTheWay
  <2>4. Accounted(S)'
    BY <1>2, <2>1, <2>2 DEF Accounted, DealtWith
  <2> QED
    BY <2>3, <2>4 DEF WInv
<1> QED
  BY <1>5, <1>6, <1>7, <1>8 DEF Build

\* The threads leave the list and the directories alone.
LEMMA ScanNext == IInv /\ WInv /\ [Next]_vars => WInv'
<1> SUFFICES ASSUME IInv, WInv, [Next]_vars PROVE WInv'
  OBVIOUS
<1>1. CASE Build
  BY <1>1, ScanStep
<1>2. CASE UNCHANGED <<list, dirs, walk>>
  <2>1. Members(list)' = Members(list) /\ Members(dirs)' = Members(dirs)
        /\ Pending(walk)' = Pending(walk)
    BY <1>2
  <2>2. OnTheWay'
    BY <2>1 DEF WInv, OnTheWay
  <2>3. PICK S : Accounted(S)
    BY DEF WInv
  <2>4. Accounted(S)'
    BY <2>1, <2>3 DEF Accounted, DealtWith
  <2> QED
    BY <2>2, <2>4 DEF WInv
<1>3. ASSUME NEW t \in Threads, GetNextFileInfo(t) PROVE UNCHANGED <<list, dirs, walk>>
  BY <1>3 DEF GetNextFileInfo, Lock, Advance, Fetch, Unlock, listVars, walkVars
<1>4. CASE Finished \/ UNCHANGED vars
  BY <1>4, <1>2 DEF Finished, vars
<1> QED
  BY <1>1, <1>2, <1>3, <1>4 DEF Next

\* The list is complete and holds nothing else, for any tree of directories, also one in
\* which directories lie in one another in a circle, and any order of readdir.
THEOREM EveryFileIsListed == Spec => []EveryFileListed
<1>1. Init => WInv
  BY ScanBegins
<1>2. IInv /\ WInv /\ [Next]_vars => WInv'
  BY ScanNext
<1>3. WInv => EveryFileListed
  <2> SUFFICES ASSUME WInv, Built
               PROVE  \A f \in Files : f \in Members(list) <=> f \in Met /\ Admitted(f)
    BY DEF EveryFileListed, WInv, OnTheWay, Met
  <2>1. PICK S : Accounted(S)
    BY DEF WInv
  <2>2. Members(dirs) = {} /\ Pending(walk) = {}
    BY DEF Built, Members, Pending
  <2>3. Closed(S)
    BY <2>1, <2>2 DEF Accounted, DealtWith, Closed
  <2>4. Scanned \subseteq S
    BY <2>1, <2>3 DEF Accounted, Scanned
  <2>5. ASSUME NEW f \in Met, Admitted(f) PROVE f \in Members(list)
    <3>1. PICK d \in Scanned \ Unreadable : f \in Entries[d] /\ f \in Files
      BY DEF Met
    <3>2. DealtWith(f, S)
      BY <2>1, <2>2, <2>4, <3>1 DEF Accounted
    <3> QED
      BY <2>5, <3>1, <3>2 DEF DealtWith
  <2> QED
    BY <2>5 DEF WInv, OnTheWay
<1> QED
  BY <1>1, <1>2, <1>3, Invariant, PTL DEF Spec

-----------------------------------------------------------------------------
(* How often a file is listed.                                             *)

\* What a directory tree is: each directory holds finitely many entries, and a
\* recursive scan comes to an end below each.
FiniteTree ==
  /\ \A d \in Dirs : IsFiniteSet(Entries[d])
  /\ Recursive => \E n \in Nat : \E depth \in [Dirs -> 0..n] :
       \A d \in Dirs \ Unreadable : \A e \in Entries[d] \cap Dirs : depth[e] < depth[d]

\* The toll that is paid for the scan of an entry, where a file f costs price[f], an
\* entry that is a directory a, and to go through a directory b and what its entries
\* cost.
Toll == [Dirs \cup Files -> Nat]

OpenToll(toll, b, d) == IF d \in Unreadable THEN 0 ELSE b + SumFunctionOnSet(toll, Entries[d])

IsToll(toll, price, a, b) ==
  \A e \in Dirs \cup Files :
    toll[e] = IF e \in Files THEN price[e]
              ELSE IF Recursive THEN a + OpenToll(toll, b, e) ELSE a

\* The sum of the tolls is known where those of the entries are.
LEMMA OpenTollType ==
  ASSUME FiniteTree, NEW toll \in Toll, NEW b \in Nat, NEW d \in Dirs
  PROVE  OpenToll(toll, b, d) \in Nat
<1>1. IsFiniteSet(Entries[d]) /\ \A e \in Entries[d] : toll[e] \in Nat
  BY FileListAssumption DEF FiniteTree, Toll
<1>2. SumFunctionOnSet(toll, Entries[d]) \in Nat
  BY <1>1, SumOverSet
<1> QED
  BY <1>2 DEF OpenToll

\* There are such tolls: those of the deepest directories first.
LEMMA TollExists ==
  ASSUME FiniteTree, NEW price \in [Files -> Nat], NEW a \in Nat, NEW b \in Nat
  PROVE  \E toll \in Toll : IsToll(toll, price, a, b)
<1>1. CASE ~ Recursive
  <2> DEFINE toll == [e \in Dirs \cup Files |-> IF e \in Files THEN price[e] ELSE a]
  <2>1. toll \in Toll
    BY DEF Toll
  <2>2. IsToll(toll, price, a, b)
    BY <1>1 DEF IsToll
  <2> QED
    BY <2>1, <2>2
<1>2. CASE Recursive
  <2>1. PICK m \in Nat : \E depth \in [Dirs -> 0..m] :
          \A d \in Dirs \ Unreadable : \A e \in Entries[d] \cap Dirs : depth[e] < depth[d]
    BY <1>2 DEF FiniteTree
  <2>2. PICK depth \in [Dirs -> 0..m] :
          \A d \in Dirs \ Unreadable : \A e \in Entries[d] \cap Dirs : depth[e] < depth[d]
    BY <2>1
  <2> DEFINE Upto(n, toll) ==
               \A e \in Dirs \cup Files :
                 e \in Files \/ depth[e] < n
                   => toll[e] = IF e \in Files THEN price[e] ELSE a + OpenToll(toll, b, e)
             S == {n \in Nat : \E toll \in Toll : Upto(n, toll)}
  <2>3. 0 \in S
    <3> DEFINE toll == [e \in Dirs \cup Files |-> IF e \in Files THEN price[e] ELSE 0]
    <3>1. toll \in Toll
      BY DEF Toll
    <3>2. Upto(0, toll)
      OBVIOUS
    <3> QED
      BY <3>1, <3>2
  <2>4. ASSUME NEW n \in Nat, n \in S PROVE n + 1 \in S
    <3>1. PICK toll \in Toll : Upto(n, toll)
      BY <2>4
    <3> DEFINE more == [e \in Dirs \cup Files |->
                          IF e \in Files \/ depth[e] < n THEN toll[e]
                          ELSE a + OpenToll(toll, b, e)]
    <3>2. \A e \in Dirs : OpenToll(toll, b, e) \in Nat
      BY OpenTollType
    <3>3. more \in Toll
      BY <3>2 DEF Toll
    <3>4. ASSUME NEW d \in Dirs, depth[d] < n + 1
          PROVE  OpenToll(more, b, d) = OpenToll(toll, b, d)
      <4>1. CASE d \in Unreadable
        BY <4>1 DEF OpenToll
      <4>2. CASE d \notin Unreadable
        <5>1. \A e \in Entries[d] : e \in Dirs \cup Files /\ (e \in Files \/ depth[e] < n)
          BY <2>2, <3>4, <4>2, FileListAssumption
        <5>2. \A e \in Entries[d] : toll[e] \in Nat /\ more[e] = toll[e]
          BY <5>1 DEF Toll
        <5> HIDE DEF more
        <5>3. SumFunctionOnSet(more, Entries[d]) = SumFunctionOnSet(toll, Entries[d])
          BY <5>2, SumOfSame DEF FiniteTree
        <5> QED
          BY <5>3 DEF OpenToll
      <4> QED
        BY <4>1, <4>2
    <3>5. Upto(n + 1, more)
      <4>1. ASSUME NEW f \in Files PROVE more[f] = price[f]
        BY <3>1
      <4>2. ASSUME NEW d \in Dirs, d \notin Files, depth[d] < n + 1
            PROVE  more[d] = a + OpenToll(toll, b, d)
        <5>1. CASE depth[d] < n
          <6>1. more[d] = toll[d]
            BY <5>1
          <6>2. toll[d] = a + OpenToll(toll, b, d)
            BY <3>1, <4>2, <5>1
          <6> QED
            BY <6>1, <6>2
        <5>2. CASE ~(depth[d] < n)
          BY <4>2, <5>2
        <5> QED
          BY <5>1, <5>2
      <4> HIDE DEF more
      <4> QED
        BY <3>4, <4>1, <4>2
    <3> HIDE DEF more, Upto
    <3> QED
      BY <3>3, <3>5
  <2> HIDE DEF S
  <2>5. m + 1 \in S
    BY <2>3, <2>4, Induction
  <2>6. PICK toll \in Toll : Upto(m + 1, toll)
    BY <2>5 DEF S
  <2>7. IsToll(toll, price, a, b)
    BY <1>2, <2>6 DEF IsToll
  <2> QED
    BY <2>7
<1> QED
  BY <1>1, <1>2

\* What is still to be paid: for the directories on the way, and for those not begun.
FiniteEntries == {E \in EntrySets : IsFiniteSet(E)}

DirTolls(toll, a, b) == [d \in Dirs |-> a + OpenToll(toll, b, d)]
OpenTolls(toll, b) == [E \in FiniteEntries |-> b + SumFunctionOnSet(toll, E)]

Unpaid(toll, a, b) ==
  Sum([k \in DOMAIN dirs |-> DirTolls(toll, a, b)[dirs[k]]])
  + Sum([k \in DOMAIN walk |-> OpenTolls(toll, b)[walk[k]]])

FinitelyOpen == walk \in Seq(FiniteEntries)

\* The scan keeps to finite directories.
LEMMA StaysFinite ==
  ASSUME TypeOK, FiniteTree, FinitelyOpen, Build PROVE FinitelyOpen'
<1>1. \A d \in Dirs : OpenDir(d) \in Seq(FiniteEntries)
  <2>1. \A d \in Dirs : Entries[d] \in FiniteEntries
    BY FileListAssumption DEF FiniteTree, FiniteEntries, EntrySets
  <2>2. <<>> \in Seq(FiniteEntries) /\ \A d \in Dirs : <<Entries[d]>> \in Seq(FiniteEntries)
    BY <2>1
  <2> QED
    BY <2>2 DEF OpenDir
<1>2. ASSUME walk # <<>>, NEW e PROVE Forget(e) \in Seq(FiniteEntries)
  <2>1. Head(walk) \in FiniteEntries /\ Tail(walk) \in Seq(FiniteEntries)
    BY <1>2 DEF FinitelyOpen
  <2>2. Head(walk) \ {e} \in FiniteEntries
    BY <2>1, FS_RemoveElement DEF FiniteEntries, EntrySets
  <2> QED
    BY <2>1, <2>2 DEF Forget
<1>3. CASE ReadConfiguredDir
  <2>1. Head(dirs) \in Dirs
    BY <1>3 DEF ReadConfiguredDir, TypeOK
  <2> QED
    BY <1>1, <1>3, <2>1 DEF ReadConfiguredDir, FinitelyOpen
<1>4. ASSUME NEW d \in Dirs, ReadSubdir(d) PROVE FinitelyOpen'
  <2>1. PICK w \in Seq(FiniteEntries) : w = Forget(d)
    BY <1>2, <1>4 DEF ReadSubdir
  <2>2. PICK v \in Seq(FiniteEntries) : v = (IF Recursive THEN OpenDir(d) ELSE <<>>)
    <3>1. <<>> \in Seq(FiniteEntries)
      OBVIOUS
    <3> QED
      BY <1>1, <3>1
  <2>3. walk' = v \o w
    BY <1>4, <2>1, <2>2 DEF ReadSubdir
  <2> QED
    BY <2>3 DEF FinitelyOpen
<1>5. ASSUME NEW f \in Files, ReadFile(f) PROVE FinitelyOpen'
  BY <1>2, <1>5 DEF ReadFile, FinitelyOpen
<1>6. CASE CloseDir
  BY <1>6 DEF CloseDir, FinitelyOpen
<1> QED
  BY <1>3, <1>4, <1>5, <1>6 DEF Build

\* Every step of the scan pays the toll of what it reads, and what remains to be paid is
\* that much less.
LEMMA ScanPays ==
  ASSUME TypeOK, FiniteTree, FinitelyOpen, Build,
         NEW price \in [Files -> Nat], NEW a \in Nat, NEW b \in Nat,
         NEW toll \in Toll, IsToll(toll, price, a, b)
  PROVE  /\ Unpaid(toll, a, b)' \in Nat
         /\ \/ /\ UNCHANGED list
               /\ \/ Unpaid(toll, a, b) = a + Unpaid(toll, a, b)'
                  \/ Unpaid(toll, a, b) = b + Unpaid(toll, a, b)'
            \/ \E f \in Files : /\ ReadFile(f)
                                /\ Unpaid(toll, a, b) = price[f] + Unpaid(toll, a, b)'
<1> DEFINE dt == DirTolls(toll, a, b)
           ot == OpenTolls(toll, b)
           D(s) == Sum([k \in DOMAIN s |-> dt[s[k]]])
           W(s) == Sum([k \in DOMAIN s |-> ot[s[k]]])
<1>1. \A E \in FiniteEntries : /\ IsFiniteSet(E)
                               /\ \A e \in E : toll[e] \in Nat
                               /\ SumFunctionOnSet(toll, E) \in Nat
  <2>1. \A E \in FiniteEntries : IsFiniteSet(E) /\ \A e \in E : toll[e] \in Nat
    BY DEF FiniteEntries, EntrySets, Toll
  <2> QED
    BY <2>1, SumOverSet
<1>2. dt \in [Dirs -> Nat] /\ ot \in [FiniteEntries -> Nat]
  <2>1. \A d \in Dirs : a + OpenToll(toll, b, d) \in Nat
    <3> TAKE d \in Dirs
    <3>1. OpenToll(toll, b, d) \in Nat
      BY OpenTollType
    <3> QED
      BY <3>1
  <2>2. \A E \in FiniteEntries : b + SumFunctionOnSet(toll, E) \in Nat
    <3> TAKE E \in FiniteEntries
    <3>1. SumFunctionOnSet(toll, E) \in Nat
      BY <1>1
    <3> QED
      BY <3>1
  <2> QED
    BY <2>1, <2>2 DEF DirTolls, OpenTolls
<1> HIDE DEF dt, ot
<1>3. \A s \in Seq(Dirs) : D(s) \in Nat /\ (s = <<>> => D(s) = 0)
                           /\ (s # <<>> => D(s) = dt[Head(s)] + D(Tail(s)))
  <2> TAKE s \in Seq(Dirs)
  <2>1. dt \in [Dirs -> Nat]
    BY <1>2
  <2> QED
    BY <2>1, SumOfMapped
<1>4. \A s \in Seq(FiniteEntries) : W(s) \in Nat /\ (s = <<>> => W(s) = 0)
                                    /\ (s # <<>> => W(s) = ot[Head(s)] + W(Tail(s)))
  <2> TAKE s \in Seq(FiniteEntries)
  <2>1. ot \in [FiniteEntries -> Nat]
    BY <1>2
  <2> QED
    BY <2>1, SumOfMapped
<1>5. \A s \in Seq(FiniteEntries), E \in FiniteEntries : W(<<E>> \o s) = ot[E] + W(s)
  <2> TAKE s \in Seq(FiniteEntries), E \in FiniteEntries
  <2>1. <<E>> \o s \in Seq(FiniteEntries) /\ <<E>> \o s # <<>>
    OBVIOUS
  <2>2. Head(<<E>> \o s) = E /\ Tail(<<E>> \o s) = s
    OBVIOUS
  <2> HIDE DEF W
  <2> QED
    BY <1>4, <2>1, <2>2
<1>6. Unpaid(toll, a, b) = D(dirs) + W(walk) /\ Unpaid(toll, a, b)' = D(dirs') + W(walk')
  BY DEF Unpaid, dt, ot
<1> HIDE DEF D, W
<1>7. FinitelyOpen' /\ dirs \in Seq(Dirs) /\ walk \in Seq(FiniteEntries)
  BY StaysFinite DEF TypeOK, FinitelyOpen
<1>8. \A d \in Dirs : /\ Entries[d] \in FiniteEntries
                      /\ dt[d] = a + IF d \in Unreadable THEN 0 ELSE ot[Entries[d]]
                      /\ toll[d] = a + IF Recursive /\ d \notin Unreadable THEN ot[Entries[d]] ELSE 0
  <2>1. \A d \in Dirs : Entries[d] \in FiniteEntries /\ d \notin Files
    BY FileListAssumption DEF FiniteTree, FiniteEntries, EntrySets
  <2>2. \A d \in Dirs \ Unreadable : ot[Entries[d]] = OpenToll(toll, b, d) /\ ot[Entries[d]] \in Nat
    BY <1>2, <2>1 DEF OpenToll, ot, OpenTolls
  <2>3. \A d \in Dirs \cap Unreadable : OpenToll(toll, b, d) = 0
    BY DEF OpenToll
  <2>4. \A d \in Dirs : dt[d] = a + OpenToll(toll, b, d)
    BY DEF dt, DirTolls
  <2>5. \A d \in Dirs : toll[d] = IF Recursive THEN a + OpenToll(toll, b, d) ELSE a
    BY <2>1 DEF IsToll
  <2> QED
    BY <2>1, <2>2, <2>3, <2>4, <2>5
<1>9. ASSUME walk # <<>>, NEW e \in Head(walk)
      PROVE  /\ Forget(e) \in Seq(FiniteEntries)
             /\ toll[e] \in Nat
             /\ W(walk) = toll[e] + W(Forget(e))
  <2>1. PICK E \in FiniteEntries, s \in Seq(FiniteEntries) : E = Head(walk) /\ s = Tail(walk)
    <3>1. Head(walk) \in FiniteEntries /\ Tail(walk) \in Seq(FiniteEntries)
      BY <1>7, <1>9
    <3> QED
      BY <3>1
  <2>2. E \ {e} \in FiniteEntries
    BY FS_RemoveElement DEF FiniteEntries, EntrySets
  <2>3. PICK F \in FiniteEntries : F = E \ {e}
    BY <2>2
  <2>4. Forget(e) = <<F>> \o s /\ <<F>> \o s \in Seq(FiniteEntries)
    BY <2>1, <2>3 DEF Forget
  <2>5. SumFunctionOnSet(toll, E) = toll[e] + SumFunctionOnSet(toll, F)
    <3>1. IsFiniteSet(E) /\ (\A x \in E : toll[x] \in Nat) /\ e \in E
      BY <1>1, <1>9, <2>1
    <3> QED
      BY <2>3, <3>1, SumOverSet
  <2>6. ot[E] = b + SumFunctionOnSet(toll, E) /\ ot[F] = b + SumFunctionOnSet(toll, F)
    BY DEF ot, OpenTolls
  <2>7. W(walk) = ot[E] + W(s) /\ W(Forget(e)) = ot[F] + W(s)
    BY <1>4, <1>5, <1>7, <1>9, <2>1, <2>4
  <2>8. /\ toll[e] \in Nat /\ W(s) \in Nat
        /\ SumFunctionOnSet(toll, E) \in Nat /\ SumFunctionOnSet(toll, F) \in Nat
    <3>1. e \in E
      BY <1>9, <2>1
    <3>2. W(s) \in Nat
      BY <1>4
    <3>3. toll[e] \in Nat /\ SumFunctionOnSet(toll, E) \in Nat
      BY <1>1, <3>1
    <3>4. SumFunctionOnSet(toll, F) \in Nat
      BY <1>1
    <3> QED
      BY <3>2, <3>3, <3>4
  <2> QED
    BY <2>4, <2>5, <2>6, <2>7, <2>8
<1>10. Unpaid(toll, a, b)' \in Nat
  <2>1. dirs' \in Seq(Dirs)
    <3>1. dirs' = dirs \/ (dirs # <<>> /\ dirs' = Tail(dirs))
      BY DEF Build, ReadConfiguredDir, ReadSubdir, ReadFile, CloseDir
    <3>2. dirs # <<>> => Tail(dirs) \in Seq(Dirs)
      BY <1>7
    <3> QED
      BY <1>7, <3>1, <3>2
  <2>2. walk' \in Seq(FiniteEntries)
    BY <1>7 DEF FinitelyOpen
  <2>3. D(dirs') \in Nat /\ W(walk') \in Nat
    BY <1>3, <1>4, <2>1, <2>2
  <2> QED
    BY <1>6, <2>3
<1>11. CASE ReadConfiguredDir
  <2>1. PICK d \in Dirs : d = Head(dirs)
    <3>1. Head(dirs) \in Dirs
      BY <1>7, <1>11 DEF ReadConfiguredDir
    <3> QED
      BY <3>1
  <2>2. /\ walk = <<>> /\ dirs # <<>> /\ UNCHANGED list
        /\ walk' = OpenDir(d) /\ dirs' = Tail(dirs)
    BY <1>11, <2>1 DEF ReadConfiguredDir, listVars
  <2>3. D(dirs) = dt[d] + D(dirs') /\ W(walk) = 0
    BY <1>3, <1>4, <1>7, <2>1, <2>2
  <2>4. W(walk') = IF d \in Unreadable THEN 0 ELSE ot[Entries[d]]
    <3>1. CASE d \in Unreadable
      BY <2>2, <2>3, <3>1 DEF OpenDir
    <3>2. CASE d \notin Unreadable
      <4>1. walk' = <<Entries[d]>> \o walk
        BY <2>2, <3>2 DEF OpenDir
      <4>2. W(walk') = ot[Entries[d]] + W(walk)
        BY <1>5, <1>7, <1>8, <4>1
      <4>3. ot[Entries[d]] \in Nat
        BY <1>2, <1>8
      <4> QED
        BY <2>3, <3>2, <4>2, <4>3
    <3> QED
      BY <3>1, <3>2
  <2>5. dt[d] = a + W(walk')
    BY <1>8, <2>4
  <2>6. D(dirs') \in Nat /\ W(walk') \in Nat
    <3>1. Tail(dirs) \in Seq(Dirs) /\ walk' \in Seq(FiniteEntries)
      BY <1>7, <2>2 DEF FinitelyOpen
    <3> QED
      BY <1>3, <1>4, <2>2, <3>1
  <2> QED
    BY <1>6, <1>10, <2>2, <2>3, <2>5, <2>6
<1>12. ASSUME NEW d \in Dirs, ReadSubdir(d)
       PROVE  UNCHANGED list /\ Unpaid(toll, a, b) = a + Unpaid(toll, a, b)'
  <2>1. /\ walk # <<>> /\ d \in Head(walk) /\ UNCHANGED list /\ dirs' = dirs
        /\ walk' = (IF Recursive THEN OpenDir(d) ELSE <<>>) \o Forget(d)
    BY <1>12 DEF ReadSubdir, listVars
  <2>2. PICK w \in Seq(FiniteEntries) : w = Forget(d)
    BY <1>9, <2>1
  <2>3. W(walk) = toll[d] + W(w)
    BY <1>9, <2>1, <2>2
  <2>4. W(walk') = W(w) + IF Recursive /\ d \notin Unreadable THEN ot[Entries[d]] ELSE 0
    <3>1. CASE Recursive /\ d \notin Unreadable
      <4>1. walk' = <<Entries[d]>> \o w
        BY <2>1, <2>2, <3>1 DEF OpenDir
      <4>2. W(walk') = ot[Entries[d]] + W(w)
        BY <1>5, <1>8, <4>1
      <4>3. ot[Entries[d]] \in Nat /\ W(w) \in Nat
        BY <1>2, <1>4, <1>8
      <4> QED
        BY <3>1, <4>2, <4>3
    <3>2. CASE ~(Recursive /\ d \notin Unreadable)
      <4>1. walk' = <<>> \o w
        BY <2>1, <2>2, <3>2 DEF OpenDir
      <4>2. walk' = w
        BY <4>1
      <4>3. W(w) \in Nat
        BY <1>4
      <4> QED
        BY <3>2, <4>2, <4>3
    <3> QED
      BY <3>1, <3>2
  <2>5. /\ W(w) \in Nat /\ D(dirs) \in Nat
        /\ (Recursive /\ d \notin Unreadable => ot[Entries[d]] \in Nat)
    BY <1>2, <1>3, <1>4, <1>7, <1>8
  <2>6. toll[d] = a + IF Recursive /\ d \notin Unreadable THEN ot[Entries[d]] ELSE 0
    BY <1>8
  <2>7. PICK x \in Nat : x = IF Recursive /\ d \notin Unreadable THEN ot[Entries[d]] ELSE 0
    BY <2>5
  <2> QED
    BY <1>6, <2>1, <2>3, <2>4, <2>5, <2>6, <2>7
<1>13. ASSUME NEW f \in Files, ReadFile(f)
       PROVE  Unpaid(toll, a, b) = price[f] + Unpaid(toll, a, b)'
  <2>1. walk # <<>> /\ f \in Head(walk) /\ dirs' = dirs /\ walk' = Forget(f)
    BY <1>13 DEF ReadFile
  <2>2. toll[f] = price[f]
    BY DEF IsToll
  <2>3. W(walk) = price[f] + W(walk') /\ W(walk') \in Nat /\ D(dirs) \in Nat
    BY <1>3, <1>4, <1>7, <1>9, <2>1, <2>2
  <2> QED
    BY <1>6, <2>1, <2>3
<1>14. CASE CloseDir
  <2>1. walk # <<>> /\ Head(walk) = {} /\ UNCHANGED list /\ dirs' = dirs /\ walk' = Tail(walk)
    BY <1>14 DEF CloseDir, listVars
  <2>2. {} \in FiniteEntries
    BY FS_EmptySet DEF FiniteEntries, EntrySets
  <2>3. ot[{}] = b
    <3>1. SumFunctionOnSet(toll, {}) = 0
      BY FS_EmptySet, SumOverSet
    <3> QED
      BY <2>2, <3>1 DEF ot, OpenTolls
  <2>4. Tail(walk) \in Seq(FiniteEntries)
    BY <1>7, <2>1
  <2>5. W(walk) = b + W(walk') /\ W(walk') \in Nat /\ D(dirs) \in Nat
    BY <1>3, <1>4, <1>7, <2>1, <2>3, <2>4
  <2> QED
    BY <1>6, <2>1, <2>5
<1> QED
  BY <1>10, <1>11, <1>12, <1>13, <1>14 DEF Build

\* The meetings with f are tolls: each time it costs one to read f, and nothing else does.
MeetingPrice(f) == [g \in Files |-> IF g = f THEN 1 ELSE 0]

MeetsAgain(f, meets) ==
  [e \in Dirs \cup Files |-> IF e \in Files THEN IF e = f THEN 1 ELSE 0
                             ELSE IF Recursive THEN Over(meets, e) ELSE 0]

LEMMA OverIsOpenToll ==
  ASSUME NEW toll, NEW d, IsFiniteSet(Entries[d]), \A e \in Entries[d] : toll[e] \in Nat
  PROVE  Over(toll, d) \in Nat /\ OpenToll(toll, 0, d) = Over(toll, d)
<1>1. SumFunctionOnSet(toll, Entries[d]) \in Nat
  BY SumOverSet
<1> QED
  BY <1>1 DEF Over, OpenToll

\* What counts the meetings in terms of itself counts with numbers.
LEMMA MeetsType ==
  ASSUME FiniteTree, NEW f \in Files, NEW m, m = MeetsAgain(f, m)
  PROVE  m \in Toll
<1>1. \A e \in Files : m[e] \in Nat
  BY DEF MeetsAgain
<1>2. \A d \in Dirs : m[d] = IF Recursive THEN Over(m, d) ELSE 0
  BY FileListAssumption DEF MeetsAgain
<1>3. CASE ~ Recursive
  BY <1>1, <1>2, <1>3 DEF MeetsAgain, Toll
<1>4. CASE Recursive
  <2>1. PICK n \in Nat : \E depth \in [Dirs -> 0..n] :
          \A d \in Dirs \ Unreadable : \A e \in Entries[d] \cap Dirs : depth[e] < depth[d]
    BY <1>4 DEF FiniteTree
  <2>2. PICK depth \in [Dirs -> 0..n] :
          \A d \in Dirs \ Unreadable : \A e \in Entries[d] \cap Dirs : depth[e] < depth[d]
    BY <2>1
  <2> DEFINE S == {k \in Nat : \A d \in Dirs : depth[d] < k => m[d] \in Nat}
  <2>3. 0 \in S
    OBVIOUS
  <2>4. ASSUME NEW k \in Nat, k \in S PROVE k + 1 \in S
    <3>1. ASSUME NEW d \in Dirs, depth[d] < k + 1 PROVE m[d] \in Nat
      <4>1. CASE d \in Unreadable
        BY <1>2, <1>4, <4>1 DEF Over
      <4>2. CASE d \notin Unreadable
        <5>1. \A e \in Entries[d] : e \in Dirs \cup Files /\ (e \in Dirs => depth[e] < k)
          BY <2>2, <3>1, <4>2, FileListAssumption
        <5>2. \A e \in Entries[d] : m[e] \in Nat
          BY <1>1, <2>4, <5>1
        <5>3. Over(m, d) \in Nat
          BY <5>2, OverIsOpenToll DEF FiniteTree
        <5> QED
          BY <1>2, <1>4, <5>3
      <4> QED
        BY <4>1, <4>2
    <3> QED
      BY <3>1
  <2> HIDE DEF S
  <2>5. n + 1 \in S
    BY <2>3, <2>4, Induction
  <2>6. \A d \in Dirs : m[d] \in Nat
    BY <2>5 DEF S
  <2>7. m = [e \in Dirs \cup Files |-> m[e]]
    BY DEF MeetsAgain
  <2> QED
    BY <1>1, <2>6, <2>7 DEF Toll
<1> QED
  BY <1>3, <1>4

LEMMA MeetsIsToll ==
  ASSUME FiniteTree, NEW f \in Files
  PROVE  /\ Meets(f) \in Toll
         /\ IsToll(Meets(f), MeetingPrice(f), 0, 0)
         /\ \A d \in Dirs : DirTolls(Meets(f), 0, 0)[d] = Over(Meets(f), d)
<1>1. MeetingPrice(f) \in [Files -> Nat]
  BY DEF MeetingPrice
<1>2. PICK toll \in Toll : IsToll(toll, MeetingPrice(f), 0, 0)
  BY <1>1, TollExists
<1>3. ASSUME NEW x \in Toll
      PROVE  \A d \in Dirs : Over(x, d) \in Nat /\ OpenToll(x, 0, d) = Over(x, d)
  <2> TAKE d \in Dirs
  <2>1. IsFiniteSet(Entries[d]) /\ \A e \in Entries[d] : x[e] \in Nat
    BY FileListAssumption DEF FiniteTree, Toll
  <2> QED
    BY <2>1, OverIsOpenToll
<1>4. toll = MeetsAgain(f, toll)
  <2>1. \A e \in Dirs \cup Files : toll[e] = IF e \in Files THEN IF e = f THEN 1 ELSE 0
                                             ELSE IF Recursive THEN Over(toll, e) ELSE 0
    <3> TAKE e \in Dirs \cup Files
    <3>1. CASE e \in Files
      BY <1>2, <3>1 DEF IsToll, MeetingPrice
    <3>2. CASE e \notin Files
      <4>1. toll[e] = IF Recursive THEN 0 + OpenToll(toll, 0, e) ELSE 0
        BY <1>2, <3>2 DEF IsToll
      <4>2. Over(toll, e) \in Nat /\ OpenToll(toll, 0, e) = Over(toll, e)
        BY <1>3, <3>2
      <4> QED
        BY <3>2, <4>1, <4>2
    <3> QED
      BY <3>1, <3>2
  <2> QED
    BY <2>1 DEF Toll, MeetsAgain
<1>5. Meets(f) = CHOOSE m : m = MeetsAgain(f, m)
  BY DEF Meets, MeetsAgain
<1>6. PICK m : m = Meets(f) /\ m = MeetsAgain(f, m)
  BY <1>4, <1>5
<1>7. m \in Toll
  BY <1>6, MeetsType
<1>8. \A d \in Dirs : Over(m, d) \in Nat /\ OpenToll(m, 0, d) = Over(m, d)
  BY <1>3, <1>7
<1>9. IsToll(m, MeetingPrice(f), 0, 0)
  <2> SUFFICES ASSUME NEW e \in Dirs \cup Files
               PROVE  m[e] = IF e \in Files THEN MeetingPrice(f)[e]
                             ELSE IF Recursive THEN 0 + OpenToll(m, 0, e) ELSE 0
    BY DEF IsToll
  <2>1. m[e] = IF e \in Files THEN IF e = f THEN 1 ELSE 0
               ELSE IF Recursive THEN Over(m, e) ELSE 0
    BY <1>6 DEF MeetsAgain
  <2>2. CASE e \in Files
    BY <2>1, <2>2 DEF MeetingPrice
  <2>3. CASE e \notin Files
    <3>1. Over(m, e) \in Nat /\ OpenToll(m, 0, e) = Over(m, e)
      BY <1>8, <2>3
    <3> QED
      BY <2>1, <2>3, <3>1
  <2> QED
    BY <2>2, <2>3
<1>10. \A d \in Dirs : DirTolls(m, 0, 0)[d] = Over(m, d)
  <2> TAKE d \in Dirs
  <2>1. DirTolls(m, 0, 0)[d] = 0 + OpenToll(m, 0, d)
    BY DEF DirTolls
  <2> QED
    BY <1>8, <2>1
<1> QED
  BY <1>6, <1>7, <1>9, <1>10

\* The places at which the list holds f.
PlacesOf(f) == {i \in DOMAIN list : list[i] = f}

\* A file that is admitted takes one place more, and leaves the others theirs.
LEMMA OnePlaceMore ==
  ASSUME TypeOK, ~ started, NEW f \in Files, NEW g \in Files, AddDataFile(g)
  PROVE  /\ IsFiniteSet(PlacesOf(f))
         /\ Cardinality(PlacesOf(f)) \in Nat
         /\ Cardinality(PlacesOf(f)') = Cardinality(PlacesOf(f))
              + (IF Admitted(g) /\ g = f THEN 1 ELSE 0)
<1>1. PICK n \in Nat : n = Len(list)
  BY DEF TypeOK
<1>2. DOMAIN list = 1..n
  BY <1>1 DEF TypeOK
<1>3. IsFiniteSet(PlacesOf(f)) /\ Cardinality(PlacesOf(f)) \in Nat
  <2>1. IsFiniteSet(1..n)
    BY FS_Interval
  <2>2. IsFiniteSet(PlacesOf(f))
    BY <1>2, <2>1, FS_Subset DEF PlacesOf
  <2> QED
    BY <2>2, FS_CardinalityType
<1>4. CASE ~ Admitted(g)
  <2>1. list' = list
    BY <1>4 DEF AddDataFile
  <2>2. PlacesOf(f)' = PlacesOf(f)
    BY <2>1 DEF PlacesOf
  <2> QED
    BY <1>3, <1>4, <2>2
<1>5. CASE Admitted(g)
  <2>1. PICK k \in 1..(Len(list) + 1) : list' = InsertAt(list, k, g)
    BY <1>5 DEF AddDataFile, InsertFile
  <2>2. /\ list' \in Seq(Files) /\ Len(list') = n + 1 /\ k \in 1..(n + 1)
        /\ \A i \in 1..(n + 1) : list'[i] = IF i < k THEN list[i]
                                            ELSE IF i = k THEN g ELSE list[i - 1]
    <3>1. list \in Seq(Files) /\ k \in 1..(Len(list) + 1)
      BY DEF TypeOK
    <3>2. /\ InsertAt(list, k, g) \in Seq(Files) /\ Len(InsertAt(list, k, g)) = Len(list) + 1
          /\ \A i \in 1..(Len(list) + 1) :
               InsertAt(list, k, g)[i] = IF i < k THEN list[i]
                                         ELSE IF i = k THEN g ELSE list[i - 1]
      BY <3>1, InsertAtProperties
    <3> QED
      BY <1>1, <2>1, <3>2
  <2>3. DOMAIN list' = 1..(n + 1)
    BY <2>2
  <2> DEFINE New == PlacesOf(f)'
             Others == New \ {k}
             moved == [i \in PlacesOf(f) |-> IF i < k THEN i ELSE i + 1]
  <2>4. New = {i \in 1..(n + 1) : list'[i] = f} /\ PlacesOf(f) = {i \in 1..n : list[i] = f}
    BY <1>2, <2>3 DEF PlacesOf
  <2>5. moved \in Bijection(PlacesOf(f), Others)
    <3>1. ASSUME NEW i \in PlacesOf(f) PROVE moved[i] \in Others
      <4>1. i \in 1..n /\ list[i] = f
        BY <2>4
      <4>2. CASE i < k
        BY <2>2, <2>4, <4>1, <4>2
      <4>3. CASE ~(i < k)
        <5>1. i + 1 \in 1..(n + 1) /\ ~(i + 1 < k) /\ i + 1 # k /\ (i + 1) - 1 = i
          BY <2>2, <4>1, <4>3
        <5>2. list'[i + 1] = list[i]
          BY <2>2, <5>1
        <5> QED
          BY <2>4, <4>1, <4>3, <5>1, <5>2
      <4> QED
        BY <4>2, <4>3
    <3>2. ASSUME NEW i \in PlacesOf(f), NEW j \in PlacesOf(f), moved[i] = moved[j] PROVE i = j
      <4>1. i \in 1..n /\ j \in 1..n
        BY <2>4
      <4> QED
        BY <2>2, <3>2, <4>1
    <3>3. ASSUME NEW j \in Others PROVE \E i \in PlacesOf(f) : moved[i] = j
      <4>1. j \in 1..(n + 1) /\ j # k /\ list'[j] = f
        BY <2>4
      <4>2. CASE j < k
        <5>1. j \in 1..n /\ list[j] = f
          BY <2>2, <4>1, <4>2
        <5> QED
          BY <2>4, <4>2, <5>1
      <4>3. CASE j > k
        <5>1. j - 1 \in 1..n /\ ~(j < k) /\ ~(j - 1 < k) /\ (j - 1) + 1 = j
          BY <2>2, <4>1, <4>3
        <5>2. list[j - 1] = f
          BY <2>2, <4>1, <5>1
        <5>3. j - 1 \in PlacesOf(f) /\ moved[j - 1] = j
          BY <2>4, <5>1, <5>2
        <5> QED
          BY <5>3
      <4> QED
        BY <2>2, <4>1, <4>2, <4>3
    <3> HIDE DEF New
    <3> QED
      BY <3>1, <3>2, <3>3 DEF Bijection, Injection, Surjection, IsInjective
  <2>6. IsFiniteSet(Others) /\ Cardinality(Others) = Cardinality(PlacesOf(f))
    <3> HIDE DEF New, moved
    <3>1. ExistsBijection(PlacesOf(f), Others)
      BY <2>5 DEF ExistsBijection
    <3> QED
      BY <1>3, <3>1, FS_Bijection
  <2>7. k \in New <=> g = f
    BY <2>2, <2>4
  <2>8. CASE g = f
    <3>1. New = Others \cup {k} /\ k \notin Others
      BY <2>7, <2>8
    <3> HIDE DEF New
    <3>2. Cardinality(Others \cup {k}) = Cardinality(Others) + 1
      BY <2>6, <3>1, FS_AddElement
    <3> QED
      BY <1>3, <1>5, <2>6, <2>8, <3>1, <3>2 DEF New
  <2>9. CASE g # f
    <3>1. New = Others
      BY <2>7, <2>9
    <3> HIDE DEF New
    <3>2. Cardinality(New) = Cardinality(PlacesOf(f))
      BY <2>6, <3>1
    <3> QED
      BY <1>3, <2>9, <3>2 DEF New
  <2> QED
    BY <2>8, <2>9
<1> QED
  BY <1>3, <1>4, <1>5

\* The places that f has and those that it will have come to what the configured
\* directories come to.
Total(f) == Sum([k \in DOMAIN DirList |-> DirTolls(Meets(f), 0, 0)[DirList[k]]])

AsOftenAsMet == \A f \in Files :
  Admitted(f) => Cardinality(PlacesOf(f)) + Unpaid(Meets(f), 0, 0) = Total(f)

CountInv == FinitelyOpen /\ AsOftenAsMet

LEMMA UnpaidType ==
  ASSUME TypeOK, FiniteTree, FinitelyOpen, NEW toll \in Toll, NEW a \in Nat, NEW b \in Nat
  PROVE  /\ Unpaid(toll, a, b) \in Nat
         /\ dirs = <<>> /\ walk = <<>> => Unpaid(toll, a, b) = 0
<1> DEFINE dt == DirTolls(toll, a, b)
           ot == OpenTolls(toll, b)
           D(s) == Sum([k \in DOMAIN s |-> dt[s[k]]])
           W(s) == Sum([k \in DOMAIN s |-> ot[s[k]]])
<1>1. dt \in [Dirs -> Nat]
  <2>1. \A d \in Dirs : a + OpenToll(toll, b, d) \in Nat
    <3> TAKE d \in Dirs
    <3>1. OpenToll(toll, b, d) \in Nat
      BY OpenTollType
    <3> QED
      BY <3>1
  <2> QED
    BY <2>1 DEF DirTolls
<1>2. ot \in [FiniteEntries -> Nat]
  <2>1. \A E \in FiniteEntries : b + SumFunctionOnSet(toll, E) \in Nat
    <3> TAKE E \in FiniteEntries
    <3>1. IsFiniteSet(E) /\ \A e \in E : toll[e] \in Nat
      BY DEF FiniteEntries, EntrySets, Toll
    <3>2. SumFunctionOnSet(toll, E) \in Nat
      BY <3>1, SumOverSet
    <3> QED
      BY <3>2
  <2> QED
    BY <2>1 DEF OpenTolls
<1> HIDE DEF dt, ot
<1>3. D(dirs) \in Nat /\ (dirs = <<>> => D(dirs) = 0)
  <2>1. dirs \in Seq(Dirs)
    BY DEF TypeOK
  <2> QED
    BY <1>1, <2>1, SumOfMapped
<1>4. W(walk) \in Nat /\ (walk = <<>> => W(walk) = 0)
  <2>1. walk \in Seq(FiniteEntries)
    BY DEF FinitelyOpen
  <2> QED
    BY <1>2, <2>1, SumOfMapped
<1>5. Unpaid(toll, a, b) = D(dirs) + W(walk)
  BY DEF Unpaid, dt, ot
<1> HIDE DEF D, W
<1> QED
  BY <1>3, <1>4, <1>5

\* Before the scan all is to be paid.
LEMMA AllUnpaid ==
  ASSUME FiniteTree, Init PROVE CountInv
<1>1. list = <<>> /\ dirs = DirList /\ walk = <<>> /\ TypeOK
  BY InitIInv DEF Init, IInv
<1>2. FinitelyOpen
  BY <1>1 DEF FinitelyOpen
<1>3. ASSUME NEW f \in Files
      PROVE  Cardinality(PlacesOf(f)) + Unpaid(Meets(f), 0, 0) = Total(f)
  <2>1. Cardinality(PlacesOf(f)) = 0
    <3>1. PlacesOf(f) = {}
      BY <1>1 DEF PlacesOf
    <3> QED
      BY <3>1, FS_EmptySet
  <2>2. Unpaid(Meets(f), 0, 0) \in Nat
    BY <1>1, <1>2, MeetsIsToll, UnpaidType
  <2> DEFINE ot == OpenTolls(Meets(f), 0)
             W == Sum([k \in DOMAIN walk |-> ot[walk[k]]])
  <2>3. W = 0
    <3>1. [k \in DOMAIN walk |-> ot[walk[k]]] = <<>>
      BY <1>1
    <3>2. SumTo(<<>>, 0) = 0
      <4>1. <<>> \in Seq(Nat)
        OBVIOUS
      <4> QED
        BY <4>1, SumToProperties
    <3> QED
      BY <3>1, <3>2 DEF Sum
  <2>4. Unpaid(Meets(f), 0, 0) = Total(f) + W
    BY <1>1 DEF Unpaid, Total
  <2>5. Total(f) \in Nat
    <3> DEFINE dt == DirTolls(Meets(f), 0, 0)
    <3>1. dt \in [Dirs -> Nat]
      <4>1. \A d \in Dirs : 0 + OpenToll(Meets(f), 0, d) \in Nat
        <5> TAKE d \in Dirs
        <5>1. OpenToll(Meets(f), 0, d) \in Nat
          BY MeetsIsToll, OpenTollType
        <5> QED
          BY <5>1
      <4> QED
        BY <4>1 DEF DirTolls
    <3> HIDE DEF dt
    <3>2. DirList \in Seq(Dirs)
      BY FileListAssumption
    <3>3. Sum([k \in DOMAIN DirList |-> dt[DirList[k]]]) \in Nat
      BY <3>1, <3>2, SumOfMapped
    <3> QED
      BY <3>3 DEF Total, dt
  <2> QED
    BY <2>1, <2>3, <2>4, <2>5
<1> QED
  BY <1>2, <1>3 DEF CountInv, AsOftenAsMet

\* Reading f moves one from what is to be paid to the places of f; nothing else changes
\* either.
LEMMA CountStep ==
  ASSUME FiniteTree, IInv, CountInv, Build PROVE CountInv'
<1>1. TypeOK /\ ~ started /\ FinitelyOpen
  BY DEF CountInv, IInv, InvIter, Built, Build, ReadConfiguredDir, ReadSubdir, ReadFile, CloseDir
<1>2. FinitelyOpen'
  BY <1>1, StaysFinite
<1>3. ASSUME NEW f \in Files, Admitted(f)
      PROVE  (Cardinality(PlacesOf(f)) + Unpaid(Meets(f), 0, 0) = Total(f))'
  <2> DEFINE price == MeetingPrice(f)
             toll == Meets(f)
             U == Unpaid(toll, 0, 0)
             n == Cardinality(PlacesOf(f))
  <2>1. price \in [Files -> Nat]
    BY DEF MeetingPrice
  <2>2. toll \in Toll /\ IsToll(toll, price, 0, 0)
    BY MeetsIsToll
  <2>3. n + U = Total(f)
    BY <1>3 DEF CountInv, AsOftenAsMet
  <2>4. n \in Nat
    <3>1. DOMAIN list = 1..Len(list) /\ Len(list) \in Nat
      BY <1>1 DEF TypeOK
    <3>2. IsFiniteSet(1..Len(list))
      BY <3>1, FS_Interval
    <3>3. IsFiniteSet(PlacesOf(f))
      BY <3>1, <3>2, FS_Subset DEF PlacesOf
    <3> QED
      BY <3>3, FS_CardinalityType
  <2>5. Total(f)' = Total(f)
    BY DEF Total, DirTolls, OpenToll, Meets, Over
  <2> HIDE DEF toll
  <2>6. /\ U' \in Nat
        /\ \/ UNCHANGED list /\ (U = 0 + U' \/ U = 0 + U')
           \/ \E g \in Files : ReadFile(g) /\ U = price[g] + U'
    BY <1>1, <2>1, <2>2, ScanPays
  <2>7. CASE UNCHANGED list /\ U = 0 + U'
    <3>1. n' = n
      BY <2>7 DEF PlacesOf
    <3>2. U = U'
      BY <2>6, <2>7
    <3> QED
      BY <2>3, <2>5, <3>1, <3>2 DEF toll
  <2>8. ASSUME NEW g \in Files, ReadFile(g), U = price[g] + U' PROVE n' + U' = n + U
    <3>1. AddDataFile(g)
      BY <2>8 DEF ReadFile
    <3>2. n' = n + (IF Admitted(g) /\ g = f THEN 1 ELSE 0)
      BY <1>1, <3>1, OnePlaceMore
    <3>3. price[g] = IF g = f THEN 1 ELSE 0
      BY DEF MeetingPrice
    <3> HIDE DEF U, n, price
    <3>4. CASE g = f
      BY <1>3, <2>4, <2>6, <2>8, <3>2, <3>3, <3>4
    <3>5. CASE g # f
      BY <2>4, <2>6, <2>8, <3>2, <3>3, <3>5
    <3> QED
      BY <3>4, <3>5
  <2> QED
    BY <2>3, <2>5, <2>6, <2>7, <2>8 DEF toll
<1>4. \A f \in Files : Admitted(f)' <=> Admitted(f)
  BY DEF Admitted, InTimeWindow, FileTime
<1> QED
  BY <1>2, <1>3, <1>4 DEF CountInv, AsOftenAsMet

LEMMA CountNext == ASSUME FiniteTree, IInv, CountInv, [Next]_vars PROVE CountInv'
<1>1. CASE Build
  BY <1>1, CountStep
<1>2. CASE UNCHANGED <<list, dirs, walk>>
  <2>1. FinitelyOpen'
    BY <1>2 DEF CountInv, FinitelyOpen
  <2>2. ASSUME NEW f \in Files
        PROVE  /\ PlacesOf(f)' = PlacesOf(f)
               /\ Unpaid(Meets(f), 0, 0)' = Unpaid(Meets(f), 0, 0)
               /\ Total(f)' = Total(f)
               /\ Admitted(f)' <=> Admitted(f)
    <3>1. Unpaid(Meets(f), 0, 0)' = Unpaid(Meets(f), 0, 0)
      BY <1>2 DEF Unpaid, DirTolls, OpenTolls, OpenToll, Meets, Over
    <3>2. Total(f)' = Total(f)
      BY DEF Total, DirTolls, OpenToll, Meets, Over
    <3> QED
      BY <1>2, <3>1, <3>2 DEF PlacesOf, Admitted, InTimeWindow, FileTime
  <2> QED
    BY <2>1, <2>2 DEF CountInv, AsOftenAsMet
<1>3. ASSUME NEW t \in Threads, GetNextFileInfo(t) PROVE UNCHANGED <<list, dirs, walk>>
  BY <1>3 DEF GetNextFileInfo, Lock, Advance, Fetch, Unlock, listVars, walkVars
<1>4. CASE Finished \/ UNCHANGED vars
  BY <1>2, <1>4 DEF Finished, vars
<1> QED
  BY <1>1, <1>2, <1>3, <1>4 DEF Next

\* In every finite tree the finished list holds each admitted file just as often as the
\* scan meets it.
THEOREM FilesListedAsOften == ASSUME FiniteTree PROVE Spec => []ListComplete
<1>1. Init => CountInv
  BY AllUnpaid
<1>2. IInv /\ CountInv /\ [Next]_vars => CountInv'
  BY CountNext
<1>3. IInv /\ CountInv /\ SortedByTime => ListComplete
  <2> SUFFICES ASSUME IInv, CountInv, SortedByTime, Built, NEW f \in Files
               PROVE  Cardinality(PlacesOf(f)) =
                        IF Admitted(f)
                        THEN Sum([k \in DOMAIN DirList |-> Over(Meets(f), DirList[k])]) ELSE 0
    BY DEF ListComplete, PlacesOf
  <2>1. CASE ~ Admitted(f)
    <3>1. DOMAIN list = 1..Len(list)
      BY DEF IInv, TypeOK
    <3>2. PlacesOf(f) = {}
      BY <2>1, <3>1 DEF PlacesOf, SortedByTime
    <3> QED
      BY <2>1, <3>2, FS_EmptySet
  <2>2. CASE Admitted(f)
    <3>1. Unpaid(Meets(f), 0, 0) = 0
      BY MeetsIsToll, UnpaidType DEF IInv, CountInv, Built
    <3>2. DOMAIN list = 1..Len(list) /\ Len(list) \in Nat
      BY DEF IInv, TypeOK
    <3>3. IsFiniteSet(PlacesOf(f))
      <4>1. IsFiniteSet(1..Len(list))
        BY <3>2, FS_Interval
      <4> QED
        BY <3>2, <4>1, FS_Subset DEF PlacesOf
    <3>4. Cardinality(PlacesOf(f)) = Total(f)
      <4>1. Cardinality(PlacesOf(f)) \in Nat
        BY <3>3, FS_CardinalityType
      <4>2. Cardinality(PlacesOf(f)) + Unpaid(Meets(f), 0, 0) = Total(f)
        BY <2>2 DEF CountInv, AsOftenAsMet
      <4> QED
        BY <3>1, <4>1, <4>2
    <3>5. [k \in DOMAIN DirList |-> DirTolls(Meets(f), 0, 0)[DirList[k]]]
            = [k \in DOMAIN DirList |-> Over(Meets(f), DirList[k])]
      <4>1. \A k \in DOMAIN DirList : DirList[k] \in Dirs
        BY FileListAssumption
      <4> QED
        BY <4>1, MeetsIsToll
    <3> QED
      BY <2>2, <3>4, <3>5 DEF Total
  <2> QED
    BY <2>1, <2>2
<1> QED
  BY <1>1, <1>2, <1>3, Invariant, ListSorted, PTL DEF Spec

-----------------------------------------------------------------------------
(* The scan and the calls come to an end.                                  *)

\* A step of the scan costs one and the files are prepaid, with the step that reads them
\* and the four of the call that returns them.
ScanPrice == [f \in Files |-> 5]
ScanToll == CHOOSE toll \in Toll : IsToll(toll, ScanPrice, 1, 1)

NotDismissed == {t \in Threads : pc[t] # "done"}

\* The calls to come or under way: one for each file, and one more for each thread.
Returning == IF mutex # NULL /\ pc[mutex] = "read" /\ ret[mutex] # NULL THEN 1 ELSE 0
CallsLeft == (Len(list) - Len(handed)) + Cardinality(NotDismissed) + Returning

\* The steps that the call under way has taken.
StepsInCall == IF mutex = NULL THEN 0
               ELSE IF pc[mutex] = "locked" THEN 1 ELSE IF pc[mutex] = "moved" THEN 2 ELSE 3

StepsLeft == Unpaid(ScanToll, 1, 1) + 4 * CallsLeft - StepsInCall

\* Who holds the mutex is inside the function, where it waits for nothing.
HolderGoesOn == mutex # NULL => mutex \in Threads /\ Inside(mutex)

LEMMA ScanTollIsToll ==
  ASSUME FiniteTree
  PROVE  ScanToll \in Toll /\ IsToll(ScanToll, ScanPrice, 1, 1) /\ ScanPrice \in [Files -> Nat]
<1>1. ScanPrice \in [Files -> Nat]
  BY DEF ScanPrice
<1>2. \E toll \in Toll : IsToll(toll, ScanPrice, 1, 1)
  BY <1>1, TollExists
<1> QED
  BY <1>1, <1>2 DEF ScanToll

LEMMA ThreadsAreFinite == \A S \in SUBSET Threads : IsFiniteSet(S) /\ Cardinality(S) \in Nat
<1>1. IsFiniteSet(Threads)
  BY ConverterAssumption, FS_Interval
<1> QED
  BY <1>1, FS_Subset, FS_CardinalityType

\* Not more files are handed out than there are.
LEMMA NotMoreHanded == ASSUME IInv PROVE Len(handed) \in Nat /\ Len(list) \in Nat /\ Len(handed) <= Len(list)
<1>1. Len(handed) \in Nat /\ Len(list) \in Nat
  BY DEF IInv, TypeOK
<1>2. CASE Len(handed) > 0
  <2>1. Len(handed) \in 1..Len(handed)
    BY <1>1, <1>2
  <2> QED
    BY <1>1, <2>1 DEF IInv, HandedInOrder
<1> QED
  BY <1>1, <1>2

\* What is left is a number.
LEMMA StepsLeftType ==
  ASSUME FiniteTree, IInv, FinitelyOpen, HolderGoesOn
  PROVE  /\ StepsLeft \in Nat
         /\ Unpaid(ScanToll, 1, 1) \in Nat
         /\ CallsLeft \in Nat
         /\ StepsInCall \in 0..3
<1>1. Unpaid(ScanToll, 1, 1) \in Nat
  BY ScanTollIsToll, UnpaidType DEF IInv
<1>2. PICK n \in Nat : n = Cardinality(NotDismissed)
  BY ThreadsAreFinite DEF NotDismissed
<1>3. CallsLeft \in Nat /\ CallsLeft >= n
  BY <1>2, NotMoreHanded DEF CallsLeft, Returning
<1>4. StepsInCall \in 0..3
  BY DEF StepsInCall
<1>5. mutex # NULL => n >= 1
  <2> SUFFICES ASSUME mutex # NULL PROVE n # 0
    BY <1>2
  <2>1. mutex \in NotDismissed
    BY DEF HolderGoesOn, Inside, NotDismissed
  <2>2. NotDismissed # {} /\ IsFiniteSet(NotDismissed)
    BY <2>1, ThreadsAreFinite DEF NotDismissed
  <2> QED
    BY <1>2, <2>2, FS_EmptySet
<1>6. mutex = NULL => StepsInCall = 0
  BY DEF StepsInCall
<1> QED
  BY <1>1, <1>2, <1>3, <1>4, <1>5, <1>6 DEF StepsLeft

\* The mutex is held by a thread that is inside the function, or by nobody.
LEMMA HolderStep == ASSUME IInv, HolderGoesOn, [Next]_vars PROVE HolderGoesOn'
<1>1. CASE Build \/ Finished \/ UNCHANGED vars
  <2>1. UNCHANGED <<mutex, pc>>
    BY <1>1 DEF Build, ReadConfiguredDir, ReadSubdir, ReadFile, CloseDir, listVars, callVars,
                Finished, vars
  <2> QED
    BY <2>1 DEF HolderGoesOn, Inside
<1>2. ASSUME NEW t \in Threads, GetNextFileInfo(t) PROVE HolderGoesOn'
  <2>1. /\ pc \in [Threads -> {"idle", "locked", "moved", "read", "done"}]
        /\ pc[t] \in {"locked", "moved", "read"} => mutex = t
    BY DEF IInv, TypeOK, InsideHolds, Inside
  <2>2. \/ mutex' = t /\ pc'[t] \in {"locked", "moved", "read"}
        \/ mutex' = NULL
    BY <1>2, <2>1 DEF GetNextFileInfo, Lock, Advance, Fetch, Unlock, listVars
  <2> QED
    BY <2>2 DEF HolderGoesOn, Inside
<1> QED
  BY <1>1, <1>2 DEF Next

\* Each step of the scan leaves one step less at least.
LEMMA ScanMovesOn ==
  ASSUME FiniteTree, IInv, FinitelyOpen, HolderGoesOn, Build
  PROVE  FinitelyOpen' /\ StepsLeft' < StepsLeft
<1> DEFINE U == Unpaid(ScanToll, 1, 1)
<1>1. TypeOK /\ ~ started
  BY DEF IInv, InvIter, Built, Build, ReadConfiguredDir, ReadSubdir, ReadFile, CloseDir
<1>2. FinitelyOpen'
  BY <1>1, StaysFinite
<1>3. UNCHANGED <<handed, mutex, pc, ret>>
  BY DEF Build, ReadConfiguredDir, ReadSubdir, ReadFile, CloseDir, listVars, callVars
<1>5. /\ U \in Nat /\ CallsLeft \in Nat /\ StepsInCall \in 0..3
      /\ StepsLeft = U + 4 * CallsLeft - StepsInCall
  BY StepsLeftType DEF StepsLeft
<1>6. /\ U' \in Nat
      /\ \/ UNCHANGED list /\ U = 1 + U'
         \/ \E f \in Files : ReadFile(f) /\ U = 5 + U'
  <2>1. /\ U' \in Nat
        /\ \/ UNCHANGED list /\ (U = 1 + U' \/ U = 1 + U')
           \/ \E f \in Files : ReadFile(f) /\ U = ScanPrice[f] + U'
    BY <1>1, ScanTollIsToll, ScanPays
  <2> QED
    BY <2>1 DEF ScanPrice
<1>7. Len(list) \in Nat /\ Len(handed) \in Nat /\ Cardinality(NotDismissed) \in Nat
  BY <1>1, ThreadsAreFinite DEF TypeOK, NotDismissed
<1>8. StepsInCall' = StepsInCall /\ NotDismissed' = NotDismissed /\ Returning' = Returning
  BY <1>3 DEF StepsInCall, NotDismissed, Returning
<1>9. Returning \in Nat
  BY DEF Returning
<1>10. StepsLeft' = U' + 4 * CallsLeft' - StepsInCall
  BY <1>8 DEF StepsLeft
<1>11. CASE UNCHANGED list /\ U = 1 + U'
  <2>1. CallsLeft' = CallsLeft
    BY <1>3, <1>8, <1>11 DEF CallsLeft
  <2> QED
    BY <1>2, <1>5, <1>6, <1>10, <1>11, <2>1
<1>12. ASSUME NEW f \in Files, ReadFile(f), U = 5 + U' PROVE StepsLeft' < StepsLeft
  <2>1. Len(list') \in Nat /\ Len(list') <= Len(list) + 1
    <3>1. CASE list' = list
      BY <1>7, <3>1
    <3>2. CASE \E k \in 1..(Len(list) + 1) : list' = InsertAt(list, k, f)
      <4>1. list \in Seq(Files)
        BY <1>1 DEF TypeOK
      <4>2. \A k \in 1..(Len(list) + 1) : Len(InsertAt(list, k, f)) = Len(list) + 1
        BY <4>1, InsertAtProperties
      <4> QED
        BY <1>7, <3>2, <4>2
    <3> QED
      BY <1>12, <3>1, <3>2 DEF ReadFile, AddDataFile, InsertFile
  <2>2. /\ CallsLeft = (Len(list) - Len(handed)) + Cardinality(NotDismissed) + Returning
        /\ CallsLeft' = (Len(list') - Len(handed)) + Cardinality(NotDismissed) + Returning
    BY <1>3, <1>8 DEF CallsLeft
  <2>3. CallsLeft' \in Int /\ CallsLeft' <= CallsLeft + 1
    BY <1>7, <1>9, <2>1, <2>2
  <2>4. /\ U \in Int /\ U' \in Int /\ U = 5 + U'
        /\ StepsInCall \in Int /\ CallsLeft \in Int
    BY <1>5, <1>6, <1>12
  <2> HIDE DEF U
  <2>5. \A u, v, c, d, s \in Int :
          u = 5 + v /\ d <= c + 1 => v + 4 * d - s < u + 4 * c - s
    OBVIOUS
  <2>6. U' + 4 * CallsLeft' - StepsInCall < U + 4 * CallsLeft - StepsInCall
    BY <2>3, <2>4, <2>5
  <2> QED
    BY <1>5, <1>10, <2>6
<1> QED
  BY <1>2, <1>6, <1>11, <1>12

\* Each step of a call does too.
LEMMA CallMovesOn ==
  ASSUME FiniteTree, IInv, FinitelyOpen, HolderGoesOn, Built,
         NEW t \in Threads, GetNextFileInfo(t)
  PROVE  FinitelyOpen' /\ StepsLeft' < StepsLeft
<1> DEFINE U == Unpaid(ScanToll, 1, 1)
           N == Cardinality(NotDismissed)
<1>1. UNCHANGED <<list, dirs, walk>>
  BY DEF GetNextFileInfo, Lock, Advance, Fetch, Unlock, listVars, walkVars
<1>2. FinitelyOpen'
  BY <1>1 DEF FinitelyOpen
<1>3. U' = U
  BY <1>1 DEF Unpaid, DirTolls, OpenTolls, OpenToll
<1>4. /\ U \in Nat /\ CallsLeft \in Nat /\ StepsInCall \in 0..3
      /\ Len(list) \in Nat /\ Len(handed) \in Nat /\ N \in Nat /\ Returning \in {0, 1}
      /\ StepsLeft = U + 4 * CallsLeft - StepsInCall
      /\ CallsLeft = (Len(list) - Len(handed)) + N + Returning
  <2>1. N \in Nat
    BY ThreadsAreFinite DEF NotDismissed
  <2> QED
    BY <2>1, StepsLeftType, NotMoreHanded DEF StepsLeft, CallsLeft, Returning
<1>5. /\ StepsLeft' = U + 4 * CallsLeft' - StepsInCall'
      /\ CallsLeft' = (Len(list) - Len(handed')) + N' + Returning'
  BY <1>1, <1>3 DEF StepsLeft, CallsLeft
<1> HIDE DEF U, N
<1>6. t # NULL /\ (pc[t] \in {"locked", "moved", "read"} => mutex = t)
  BY FileListAssumption DEF IInv, InsideHolds, Inside
<1>7. pc \in [Threads -> {"idle", "locked", "moved", "read", "done"}]
      /\ ret \in [Threads -> Files \cup {NULL}] /\ handed \in Seq(Threads \X (Nat \ {0}))
  BY DEF IInv, TypeOK
<1>8. CASE Lock(t)
  <2>1. /\ mutex = NULL /\ mutex' = t /\ pc[t] = "idle" /\ pc' = [pc EXCEPT ![t] = "locked"]
        /\ handed' = handed /\ pc'[t] = "locked"
    BY <1>7, <1>8 DEF Lock
  <2>2. NotDismissed' = NotDismissed
    BY <1>7, <2>1 DEF NotDismissed
  <2>3. Returning = 0 /\ Returning' = 0 /\ StepsInCall = 0 /\ StepsInCall' = 1
    BY <1>6, <2>1 DEF Returning, StepsInCall
  <2>5. N' = N /\ Len(handed') = Len(handed)
    BY <2>1, <2>2 DEF N
  <2>6. StepsLeft' < StepsLeft
    BY <1>4, <1>5, <2>3, <2>5
  <2> QED
    BY <1>2, <2>6
<1>9. CASE Advance(t)
  <2>1. /\ mutex = t /\ mutex' = t /\ pc[t] = "locked" /\ handed' = handed /\ ret' = ret
        /\ pc'[t] \in {"moved", "read"} /\ ret[t] = NULL
        /\ \A u \in Threads : pc[u] = "done" <=> pc'[u] = "done"
    BY <1>6, <1>7, <1>9 DEF Advance, IInv, InvThread
  <2>2. NotDismissed' = NotDismissed
    BY <2>1 DEF NotDismissed
  <2>3. Returning = 0 /\ Returning' = 0 /\ StepsInCall = 1 /\ StepsInCall' \in {2, 3}
    BY <1>6, <2>1 DEF Returning, StepsInCall
  <2>5. N' = N /\ Len(handed') = Len(handed)
    BY <2>1, <2>2 DEF N
  <2>6. StepsLeft' < StepsLeft
    BY <1>4, <1>5, <2>3, <2>5
  <2> QED
    BY <1>2, <2>6
<1>10. CASE Fetch(t)
  <2>1. /\ mutex = t /\ mutex' = t /\ pc[t] = "moved" /\ pc'[t] = "read" /\ ret[t] = NULL
        /\ \A u \in Threads : pc[u] = "done" <=> pc'[u] = "done"
    BY <1>6, <1>7, <1>10 DEF Fetch, listVars, IInv, InvThread
  <2>2. NotDismissed' = NotDismissed
    BY <2>1 DEF NotDismissed
  <2>3. Returning = 0 /\ StepsInCall = 2 /\ StepsInCall' = 3
    BY <1>6, <2>1 DEF Returning, StepsInCall
  <2>5. \/ handed' = handed /\ ret'[t] = NULL
        \/ Len(handed') = Len(handed) + 1
    <3>1. CASE iter # End
      <4>1. handed' = Append(handed, <<t, iter>>)
        BY <1>10, <3>1 DEF Fetch
      <4> QED
        BY <1>7, <4>1
    <3>2. CASE iter = End
      BY <1>10, <2>1, <3>2 DEF Fetch
    <3> QED
      BY <3>1, <3>2
  <2>6. Len(handed') + 0 = Len(handed) + Returning' \/ Len(handed') = Len(handed) + 1
    BY <1>4, <2>1, <2>5 DEF Returning
  <2>7. Returning' \in {0, 1}
    BY DEF Returning
  <2>8. N' = N /\ Len(handed') \in Nat
    BY <1>4, <2>2, <2>5 DEF N
  <2>9. CallsLeft' \in Int /\ CallsLeft' <= CallsLeft
    <3>1. CallsLeft = (Len(list) - Len(handed)) + N
      BY <1>4, <2>3
    <3>2. CallsLeft' = (Len(list) - Len(handed')) + N + Returning'
      BY <1>5, <2>8
    <3>3. CASE Len(handed') = Len(handed) + Returning'
      <4>1. PICK r \in Nat : r = Returning'
        BY <2>7
      <4>2. PICK l \in Nat, h \in Nat, n \in Nat : l = Len(list) /\ h = Len(handed) /\ n = N
        BY <1>4
      <4>3. CallsLeft = (l - h) + n /\ CallsLeft' = (l - (h + r)) + n + r
        BY <3>1, <3>2, <3>3, <4>1, <4>2
      <4> QED
        BY <4>3
    <3>4. CASE Len(handed') = Len(handed) + 1
      BY <1>4, <2>7, <2>8, <3>1, <3>2, <3>4
    <3> QED
      BY <1>4, <2>6, <2>8, <3>3, <3>4
  <2>10. U + 4 * CallsLeft' - 3 < U + 4 * CallsLeft - 2
    BY <1>4, <2>9
  <2>11. StepsLeft' < StepsLeft
    BY <1>4, <1>5, <2>3, <2>10
  <2> QED
    BY <1>2, <2>11
<1>11. CASE Unlock(t)
  <2>1. /\ mutex = t /\ mutex' = NULL /\ pc[t] = "read" /\ handed' = handed
        /\ pc' = [pc EXCEPT ![t] = IF ret[t] = NULL THEN "done" ELSE "idle"]
    BY <1>6, <1>11 DEF Unlock
  <2>2. Returning' = 0 /\ StepsInCall = 3 /\ StepsInCall' = 0
    BY <1>6, <2>1 DEF Returning, StepsInCall
  <2>4. ASSUME ret[t] = NULL PROVE StepsLeft' < StepsLeft
    <3>1. Returning = 0
      BY <2>1, <2>4 DEF Returning
    <3>2. t \in NotDismissed /\ NotDismissed' = NotDismissed \ {t}
      BY <1>7, <2>1, <2>4 DEF NotDismissed
    <3>3. IsFiniteSet(NotDismissed)
      BY ThreadsAreFinite DEF NotDismissed
    <3>4. N' = N - 1
      BY <3>2, <3>3, FS_RemoveElement DEF N
    <3>5. Len(handed') = Len(handed)
      BY <2>1
    <3> QED
      BY <1>4, <1>5, <2>2, <3>1, <3>4, <3>5
  <2>5. ASSUME ret[t] # NULL PROVE StepsLeft' < StepsLeft
    <3>1. Returning = 1
      BY <1>6, <2>1, <2>5 DEF Returning
    <3>2. NotDismissed' = NotDismissed
      BY <1>7, <2>1, <2>5 DEF NotDismissed
    <3>3. N' = N /\ Len(handed') = Len(handed)
      BY <2>1, <3>2 DEF N
    <3> QED
      BY <1>4, <1>5, <2>2, <3>1, <3>3
  <2> QED
    BY <1>2, <2>4, <2>5
<1> QED
  BY <1>8, <1>9, <1>10, <1>11 DEF GetNextFileInfo

LEMMA BeginsFree == Init => FinitelyOpen /\ HolderGoesOn
<1> SUFFICES ASSUME Init PROVE FinitelyOpen /\ HolderGoesOn
  OBVIOUS
<1>1. walk = <<>> /\ mutex = NULL
  BY DEF Init
<1>2. <<>> \in Seq(FiniteEntries)
  OBVIOUS
<1> QED
  BY <1>1, <1>2 DEF FinitelyOpen, HolderGoesOn

\* Every step but the last one, when all threads have been dismissed, moves on.
LEMMA StepMovesOn ==
  ASSUME FiniteTree, IInv, FinitelyOpen, HolderGoesOn, [Next]_vars
  PROVE  FinitelyOpen' /\ (UNCHANGED vars \/ StepsLeft' < StepsLeft)
<1>1. CASE Build
  BY <1>1, ScanMovesOn
<1>2. ASSUME Built, NEW t \in Threads, GetNextFileInfo(t)
      PROVE  FinitelyOpen' /\ StepsLeft' < StepsLeft
  BY <1>2, CallMovesOn
<1>3. CASE UNCHANGED vars
  BY <1>3 DEF vars, FinitelyOpen
<1> QED
  BY <1>1, <1>2, <1>3 DEF Next, Finished

\* What is left of a run of the list never grows and shrinks with each step, so that in
\* every finite tree the scan ends and the calls after it, however the threads
\* interleave.
THEOREM RunIsBounded ==
  ASSUME FiniteTree PROVE Spec => [](StepsLeft \in Nat) /\ [][StepsLeft' < StepsLeft]_vars
<1>1. Init => FinitelyOpen /\ HolderGoesOn
  BY BeginsFree
<1>2. IInv /\ FinitelyOpen /\ HolderGoesOn /\ [Next]_vars
        => FinitelyOpen' /\ HolderGoesOn' /\ (UNCHANGED vars \/ StepsLeft' < StepsLeft)
  BY HolderStep, StepMovesOn
<1>3. IInv /\ FinitelyOpen /\ HolderGoesOn => StepsLeft \in Nat
  BY StepsLeftType
<1>4. IInv /\ FinitelyOpen /\ HolderGoesOn /\ [Next]_vars => [StepsLeft' < StepsLeft]_vars
  BY <1>2
<1> QED
  BY <1>1, <1>2, <1>3, <1>4, Invariant, PTL DEF Spec

-----------------------------------------------------------------------------
(* The file list implements the work queue.                                *)

\* The queue's view of what was handed out and of who was dismissed.
HandedFiles == [i \in 1..Len(handed) |-> <<handed[i][1], list[handed[i][2]]>>]
Dismissed == {t \in Threads : pc[t] = "done"}

LEMMA HandedFilesUnchanged ==
  ASSUME UNCHANGED <<list, handed>> PROVE HandedFiles' = HandedFiles
  BY DEF HandedFiles

LEMMA BuildIsPut ==
  ASSUME IInv, Build
  PROVE  Queue!Next \/ UNCHANGED <<list, started, HandedFiles, Dismissed>>
<1>1. /\ ~started /\ handed = <<>>
      /\ UNCHANGED <<started, handed, pc>>
  BY DEF Build, ReadConfiguredDir, ReadSubdir, ReadFile, CloseDir, listVars,
         callVars, Built, IInv, InvIter
<1>2. HandedFiles' = HandedFiles
  <2>1. handed = <<>> /\ handed' = <<>>
    BY <1>1
  <2> QED
    BY <2>1 DEF HandedFiles
<1>3. Dismissed' = Dismissed
  BY <1>1 DEF Dismissed
<1>4. ASSUME NEW f \in Files, ReadFile(f)
      PROVE  Queue!Put(f) \/ UNCHANGED list
  BY <1>1, <1>2, <1>3, <1>4
  DEF ReadFile, AddDataFile, InsertFile, Place, Queue!Put, Queue!InsertAt, InsertAt, HandedFiles, Dismissed
<1>5. (\E f \in Files : ReadFile(f)) \/ UNCHANGED list
  BY DEF Build, ReadConfiguredDir, ReadSubdir, CloseDir, listVars
<1> QED
  BY <1>1, <1>2, <1>3, <1>4, <1>5 DEF Queue!Next

LEMMA CallIsTakeOrFinish ==
  ASSUME IInv, Built, NEW t \in Threads, GetNextFileInfo(t)
  PROVE  Queue!Next \/ UNCHANGED <<list, started, HandedFiles, Dismissed>>
<1>1. CASE Lock(t)
  <2>1. Dismissed' = Dismissed
    BY <1>1 DEF Lock, Dismissed, IInv, TypeOK
  <2> QED
    BY <1>1, <2>1, HandedFilesUnchanged DEF Lock
<1>2. CASE Advance(t)
  <2>1. Dismissed' = Dismissed /\ HandedFiles' = HandedFiles /\ list' = list
    BY <1>2, HandedFilesUnchanged DEF Advance, Dismissed, IInv, TypeOK
  <2>2. started' = started \/ (~started /\ started' = TRUE)
    BY <1>2 DEF Advance
  <2> QED
    BY <2>1, <2>2 DEF Queue!Next, Queue!Start, HandedFiles, Dismissed
<1>3. CASE Fetch(t)
  <2>1. Dismissed' = Dismissed /\ UNCHANGED <<list, started>> /\ started /\ t \notin Dismissed
    BY <1>3 DEF Fetch, listVars, Dismissed, IInv, TypeOK, InvThread
  <2>2. CASE iter = End
    BY <1>3, <2>1, <2>2, HandedFilesUnchanged DEF Fetch
  <2>3. CASE iter # End
    <3>1. /\ iter = Len(handed) + 1 /\ iter <= Len(list)
          /\ handed' = Append(handed, <<t, iter>>)
          /\ Len(handed) \in Nat
          /\ handed \in Seq(Threads \X (Nat \ {0}))
      BY <1>3, <2>3 DEF Fetch, IInv, InvThread, InvIter, TypeOK
    <3>2. /\ Len(handed') = Len(handed) + 1
          /\ \A i \in 1..Len(handed) : handed'[i] = handed[i]
          /\ handed'[Len(handed) + 1] = <<t, iter>>
      BY <3>1, <1>3 DEF TypeOK, Fetch
    <3>3. Len(HandedFiles) = Len(handed) /\ HandedFiles \in Seq(Threads \X Files)
      <4>1. \A i \in 1..Len(handed) :
              handed[i] \in Threads \X Nat /\ list[handed[i][2]] \in Files
        BY <3>1 DEF IInv, TypeOK, HandedInOrder
      <4> QED
        BY <3>1, <4>1 DEF HandedFiles
    <3>4. HandedFiles' = Append(HandedFiles, <<t, list[Len(HandedFiles) + 1]>>)
      <4> DEFINE A == Append(HandedFiles, <<t, list[Len(HandedFiles) + 1]>>)
      <4>1. A = [i \in 1..(Len(handed) + 1) |->
                   IF i <= Len(handed) THEN HandedFiles[i]
                   ELSE <<t, list[Len(handed) + 1]>>]
        BY <3>3
      <4>2. HandedFiles' = [i \in 1..(Len(handed) + 1) |->
                              <<handed'[i][1], list[handed'[i][2]]>>]
        BY <2>1, <3>2 DEF HandedFiles
      <4>3. ASSUME NEW i \in 1..(Len(handed) + 1)
            PROVE  <<handed'[i][1], list[handed'[i][2]]>>
                     = IF i <= Len(handed) THEN HandedFiles[i]
                       ELSE <<t, list[Len(handed) + 1]>>
        <5>1. CASE i <= Len(handed)
          BY <3>1, <3>2, <5>1 DEF HandedFiles
        <5>2. CASE i = Len(handed) + 1
          BY <3>1, <3>2, <5>2
        <5> QED
          BY <3>1, <5>1, <5>2
      <4> QED
        BY <4>1, <4>2, <4>3
    <3>5. Len(HandedFiles) < Len(list)
      BY <3>1, <3>3 DEF IInv, TypeOK
    <3>6. Queue!Take(t)
      BY <2>1, <3>4, <3>5 DEF Queue!Take, HandedFiles, Dismissed
    <3> QED
      BY <3>6 DEF Queue!Next
  <2> QED
    BY <2>2, <2>3
<1>4. CASE Unlock(t)
  <2>1. UNCHANGED <<list, started, handed>> /\ HandedFiles' = HandedFiles
    BY <1>4, HandedFilesUnchanged DEF Unlock
  <2>2. CASE ret[t] = NULL
    <3>1. started /\ Len(handed) = Len(list) /\ Len(handed) \in Nat
      BY <1>4, <2>2 DEF Unlock, IInv, InvThread, AtEnd, TypeOK
    <3>2. Len(HandedFiles) = Len(list)
      BY <3>1 DEF HandedFiles
    <3>3. t \notin Dismissed /\ Dismissed' = Dismissed \cup {t}
      BY <1>4, <2>2 DEF Unlock, Dismissed, IInv, TypeOK
    <3> QED
      BY <2>1, <3>1, <3>2, <3>3 DEF Queue!Next, Queue!Finish, HandedFiles, Dismissed
  <2>3. CASE ret[t] # NULL
    <3>1. Dismissed' = Dismissed
      BY <1>4, <2>3 DEF Unlock, Dismissed, IInv, TypeOK
    <3> QED
      BY <2>1, <3>1
  <2> QED
    BY <2>2, <2>3
<1> QED
  BY <1>1, <1>2, <1>3, <1>4 DEF GetNextFileInfo

\* For every number of threads, the threads see an atomic queue: each step of
\* the code is one step of the queue or is invisible to it.
THEOREM FileListImplementsWorkQueue == Spec => ImplementsWorkQueue
<1>1. Init => Queue!Init
  <2> SUFFICES ASSUME Init PROVE Queue!Init
    OBVIOUS
  <2>1. Len(handed) = 0 /\ HandedFiles = <<>>
    BY DEF Init, HandedFiles
  <2>2. Dismissed = {}
    BY DEF Init, Dismissed
  <2> QED
    BY <2>1, <2>2 DEF Init, Queue!Init, HandedFiles, Dismissed
<1>2. IInv /\ [Next]_vars => [Queue!Next]_(Queue!vars)
  <2> SUFFICES ASSUME IInv, [Next]_vars
               PROVE  Queue!Next \/ UNCHANGED <<list, started, HandedFiles, Dismissed>>
    BY DEF Queue!vars, HandedFiles, Dismissed
  <2>1. CASE UNCHANGED vars
    BY <2>1 DEF vars, HandedFiles, Dismissed
  <2> QED
    BY <2>1, BuildIsPut, CallIsTakeOrFinish DEF Next, Finished
<1> QED
  BY <1>1, <1>2, Invariant, PTL DEF Spec, ImplementsWorkQueue, Queue!Spec

-----------------------------------------------------------------------------
(* The position of the file that a thread drew last.                       *)

LEMMA MaxIs ==
  ASSUME NEW S, NEW m \in S, S \subseteq Int, \A i \in S : i <= m
  PROVE  Max(S) = m
<1> DEFINE P(x) == x \in S /\ \A y \in S : x >= y
<1>1. P(m)
  OBVIOUS
<1>2. \A x : P(x) => x = m
  OBVIOUS
<1>3. Max(S) = CHOOSE x : P(x)
  BY DEF Max
<1> QED
  BY <1>1, <1>2, <1>3

LEMMA DrawnKept ==
  ASSUME UNCHANGED handed, NEW t PROVE Drawn(t)' = Drawn(t)
  BY DEF Drawn

\* What a file that is handed to t makes of the positions drawn.
LEMMA DrawnAppended ==
  ASSUME handed \in Seq(Threads \X (Nat \ {0})), NEW t \in Threads, NEW p \in Nat \ {0},
         handed' = Append(handed, <<t, p>>)
  PROVE  /\ Drawn(t)' = Len(handed) + 1
         /\ \A u \in Threads : u # t => Drawn(u)' = Drawn(u)
<1> DEFINE n == Len(handed) + 1
           At(u) == {i \in DOMAIN handed : handed[i][1] = u}
<1>1. /\ Len(handed) \in Nat /\ DOMAIN handed = 1..Len(handed)
      /\ DOMAIN handed' = 1..n /\ handed'[n] = <<t, p>>
      /\ \A i \in DOMAIN handed : handed'[i] = handed[i]
  OBVIOUS
<1>2. ASSUME NEW S, S = At(t)' PROVE Max(S) = n
  <2>1. S \subseteq Int /\ n \in S /\ \A i \in S : i <= n
    BY <1>1, <1>2
  <2> QED
    BY <2>1, MaxIs
<1>3. Max(At(t)') = n
  BY <1>2
<1>4. ASSUME NEW u \in Threads, u # t PROVE At(u)' = At(u)
  BY <1>1, <1>4
<1> QED
  BY <1>3, <1>4 DEF Drawn

-----------------------------------------------------------------------------
(* The inductive invariant.                                                *)

Places == {"absent", "next", "open", "count", "store", "bz_init", "read", "convert",
           "endless", "close", "exit"}
Working == {"open", "count", "store", "bz_init", "read", "convert", "endless", "close"}

\* The thread has a file that it has not done with.
HasFile(t) == at[t] \in Working \/ (pc[t] = "read" /\ ret[t] # NULL)

\* A thread draws files as long as it is between two of them, and one that was
\* dismissed or does not exist is outside file_list_get_next_file_info for good.
InvCalls ==
  \A t \in Threads : /\ at[t] = "absent" => pc[t] = "idle"
                     /\ at[t] = "exit" <=> pc[t] = "done"
                     /\ at[t] \in Working => pc[t] = "idle"

\* What main has done so far.
InvMain ==
  /\ main = "init" => \A t \in Threads : at[t] = "absent"
  /\ main # "init" => Built
  /\ main = "create" => \A t \in Threads : t >= nth => at[t] = "absent"
  /\ main = "join" => \A t \in Threads : t < nth => at[t] \in {"exit", "absent"}

\* The files that were drawn are done with, or in the hands of one thread each.
InvFiles ==
  /\ \A t \in Threads : HasFile(t) =>
       Drawn(t) \in 1..Len(handed) /\ handed[Drawn(t)][1] = t
  /\ \A i \in 1..Len(handed) :
       i \in operated \/ \E t \in Threads : HasFile(t) /\ Drawn(t) = i

\* A file in hand is not praised, and has failed only if its thread knows it.
InvPraise ==
  \A t \in Threads : HasFile(t) =>
    /\ Drawn(t) \notin praised
    /\ Drawn(t) \in failed => at[t] = "close" /\ iFnRes[t] = -1

\* What a thread holds in its register is a number the counter had.
InvCount == /\ count <= mapped
            /\ \A t \in Threads : loaded[t] <= mapped

CInv == /\ IInv
        /\ ConverterTypeOK
        /\ InvCalls
        /\ InvMain
        /\ NoThreadAfterJoin
        /\ InvFiles
        /\ InvPraise
        /\ PraiseDeserved
        /\ InvCount

LEMMA InitCInv == ConverterInit => CInv
<1> SUFFICES ASSUME ConverterInit PROVE CInv
  OBVIOUS
<1>1. Init
  BY DEF ConverterInit
<1>2. IInv /\ TypeOK
  BY <1>1, InitIInv DEF IInv
<1>3. ConverterTypeOK
  <2>1. 1 \in 1..(ThreadCount + 1)
    BY ConverterAssumption
  <2>2. MaxPackets \in Nat
    BY ConverterAssumption
  <2> QED
    BY <1>2, <2>1, <2>2 DEF ConverterInit, ConverterTypeOK
<1>4. handed = <<>> /\ Len(handed) = 0 /\ \A t \in Threads : ~HasFile(t)
  BY <1>1 DEF Init, ConverterInit, HasFile, Working
<1>5. InvCalls /\ InvMain /\ NoThreadAfterJoin
  BY <1>1 DEF Init, ConverterInit, InvCalls, InvMain, NoThreadAfterJoin, Working
<1>6. InvFiles /\ InvPraise /\ PraiseDeserved /\ InvCount
  BY <1>4 DEF ConverterInit, InvFiles, InvPraise, PraiseDeserved, InvCount
<1> QED
  BY <1>2, <1>3, <1>5, <1>6 DEF CInv

-----------------------------------------------------------------------------
(* The steps of the program are steps of the file list.                    *)

\* A thread calls file_list_get_next_file_info only when the list is complete.
LEMMA DrawsFromBuiltList ==
  ASSUME CInv, NEW t \in Threads, DrawFile(t) PROVE Built
  BY DEF CInv, InvMain, DrawFile

LEMMA StepOfFileList ==
  ASSUME CInv, [ConverterNext]_allVars PROVE [Next]_vars
<1>1. CASE InitFileList
  BY <1>1 DEF InitFileList, Next
<1>2. ASSUME NEW t \in Threads, DrawFile(t) PROVE Next
  BY <1>2, DrawsFromBuiltList DEF DrawFile, Next
<1>3. InitFileList \/ (\E t \in Threads : DrawFile(t)) \/ UNCHANGED vars
  BY DEF ConverterNext, Main, FileListReady, CreateThread, JoinThread, JoinOfNoThread,
         ReportOpenedFiles, Fini, Work, Worker, OpenFile, LoadCount, StoreCount, InitBz2,
         ReadVersion, Convert, CloseFile, Loop, Exited, allVars, vars
<1> QED
  BY <1>1, <1>2, <1>3

-----------------------------------------------------------------------------
(* Every step keeps the invariant.                                         *)

\* Two threads have different files in hand.
LEMMA DifferentFiles ==
  ASSUME InvFiles, NEW t \in Threads, NEW u \in Threads, t # u, HasFile(t), HasFile(u)
  PROVE  Drawn(t) # Drawn(u)
  BY DEF InvFiles

\* Main's own steps touch nothing that is in the threads' hands.
LEMMA MainKeepsFiles ==
  ASSUME CInv, UNCHANGED <<pc, ret, handed, iFnRes, failed, praised, operated>>,
         \A t \in Threads : /\ at'[t] \in Working <=> at[t] \in Working
                            /\ at[t] = "close" => at'[t] = "close"
  PROVE  InvFiles' /\ InvPraise' /\ PraiseDeserved'
<1>1. \A t \in Threads : Drawn(t)' = Drawn(t) /\ (HasFile(t)' <=> HasFile(t))
  BY DrawnKept DEF HasFile
<1>2. InvFiles' /\ PraiseDeserved'
  BY <1>1 DEF CInv, InvFiles, PraiseDeserved
<1>3. InvPraise'
  BY <1>1 DEF CInv, InvPraise
<1> QED
  BY <1>2, <1>3

LEMMA BuildStep ==
  ASSUME CInv, IInv', InitFileList PROVE CInv'
<1>1. /\ UNCHANGED <<pc, ret, handed, mainVars, workVars, histVars>>
      /\ main = "init"
  BY DEF InitFileList, Build, ReadConfiguredDir, ReadSubdir, ReadFile, CloseDir, callVars
<1>2. ConverterTypeOK'
  BY <1>1 DEF CInv, ConverterTypeOK, IInv, mainVars, workVars, histVars
<1>3. InvCalls' /\ InvMain' /\ NoThreadAfterJoin' /\ InvCount'
  BY <1>1 DEF CInv, InvCalls, InvMain, NoThreadAfterJoin, InvCount, mainVars, workVars, histVars
<1>4. InvFiles' /\ InvPraise' /\ PraiseDeserved'
  BY <1>1, MainKeepsFiles DEF workVars, histVars
<1> QED
  BY <1>2, <1>3, <1>4 DEF CInv

LEMMA CreateStep ==
  ASSUME CInv, IInv', CreateThread PROVE CInv'
<1>1. /\ UNCHANGED <<vars, reported, count, loaded, left, iFnRes, histVars>>
      /\ main = "create" /\ Built
      /\ nth \in 1..(ThreadCount + 1) /\ Threads = 1..ThreadCount /\ ThreadCount \in Nat
      /\ \A t \in Threads : t >= nth => at[t] = "absent" /\ pc[t] = "idle"
  BY ConverterAssumption DEF CreateThread, CInv, InvMain, InvCalls, ConverterTypeOK
<1>2. Built'
  BY <1>1 DEF vars, Built
<1>3. \/ /\ nth \in Threads /\ nth' = nth + 1 /\ main' = "create"
         /\ at' \in {[at EXCEPT ![nth] = "next"], at}
      \/ main' = "join" /\ nth' = 1 /\ at' = at
  BY <1>1 DEF CreateThread
<1>4. \A t \in Threads :
        \/ at'[t] = at[t]
        \/ t = nth /\ at[t] = "absent" /\ at'[t] = "next" /\ pc[t] = "idle"
  <2>1. at \in [Threads -> Places]
    BY DEF CInv, ConverterTypeOK, Places
  <2>2. CASE at' = [at EXCEPT ![nth] = "next"] /\ nth \in Threads
    BY <1>1, <2>1, <2>2
  <2> QED
    BY <1>3, <2>2
<1>5. ConverterTypeOK'
  <2>1. nth' \in 1..(ThreadCount + 1)
    BY <1>1, <1>3
  <2>2. at \in [Threads -> Places]
    BY DEF CInv, ConverterTypeOK, Places
  <2>3. at' \in [Threads -> Places]
    BY <1>3, <2>2 DEF Places
  <2> QED
    BY <1>1, <1>3, <2>1, <2>3 DEF CInv, ConverterTypeOK, Places, IInv, vars, histVars
<1>6. InvCalls' /\ InvCount' /\ NoThreadAfterJoin'
  BY <1>1, <1>3, <1>4 DEF CInv, InvCalls, InvCount, NoThreadAfterJoin, vars, histVars, Working
<1>7. InvMain'
  BY <1>1, <1>2, <1>3, <1>4 DEF CInv, InvMain
<1>8. InvFiles' /\ InvPraise' /\ PraiseDeserved'
  BY <1>1, <1>4, MainKeepsFiles DEF vars, histVars, Working
<1> QED
  BY <1>5, <1>6, <1>7, <1>8 DEF CInv

\* The other steps of main: the list is ready, a thread is joined, the report.
LEMMA OtherMainStep ==
  ASSUME CInv, IInv',
         FileListReady \/ JoinThread \/ JoinOfNoThread \/ ReportOpenedFiles \/ Fini
  PROVE  CInv'
<1>1. UNCHANGED <<vars, workVars, histVars>>
  BY DEF FileListReady, JoinThread, JoinOfNoThread, ReportOpenedFiles, Fini
<1>2. ConverterTypeOK'
  <2>1. nth' \in 1..(ThreadCount + 1) /\ reported' \in Nat \cup {NULL}
    BY ConverterAssumption DEF FileListReady, JoinThread, JoinOfNoThread, ReportOpenedFiles,
      Fini, CInv, ConverterTypeOK
  <2>2. main' \in {"init", "create", "join", "report", "fini", "exit", "crashed"}
    BY DEF FileListReady, JoinThread, JoinOfNoThread, ReportOpenedFiles, Fini, CInv,
           ConverterTypeOK
  <2> QED
    BY <1>1, <2>1, <2>2 DEF CInv, ConverterTypeOK, IInv, vars, workVars, histVars
<1>3. InvMain' /\ NoThreadAfterJoin'
  <2>1. UNCHANGED at /\ Built' = Built
    BY <1>1 DEF vars, workVars, Built
  <2>2. CASE FileListReady
    BY <2>1, <2>2, ConverterAssumption DEF FileListReady, CInv, InvMain, NoThreadAfterJoin,
      ConverterTypeOK
  <2>3. CASE JoinThread
    BY <2>1, <2>3, ConverterAssumption, SMTT(30) DEF JoinThread, CInv, InvMain,
      NoThreadAfterJoin, ConverterTypeOK
  <2>4. CASE JoinOfNoThread \/ ReportOpenedFiles \/ Fini
    BY <2>1, <2>4 DEF JoinOfNoThread, ReportOpenedFiles, Fini, CInv, InvMain, NoThreadAfterJoin
  <2> QED
    BY <2>2, <2>3, <2>4
<1>4. InvCalls' /\ InvCount'
  BY <1>1 DEF CInv, InvCalls, InvCount, vars, workVars, histVars
<1>5. InvFiles' /\ InvPraise' /\ PraiseDeserved'
  BY <1>1, MainKeepsFiles DEF vars, workVars, histVars
<1> QED
  BY <1>2, <1>3, <1>4, <1>5 DEF CInv

\* A thread goes on with its file: it keeps it in hand, and nobody else is touched.
LEMMA GoOn ==
  ASSUME CInv, NEW t \in Threads, at[t] \in Working, NEW p \in Working,
         at' = [at EXCEPT ![t] = p],
         UNCHANGED <<vars, mainVars, operated>>
  PROVE  InvCalls' /\ InvMain' /\ NoThreadAfterJoin' /\ InvFiles'
<1>1. /\ at'[t] = p
      /\ \A u \in Threads : u # t => at'[u] = at[u]
      /\ p \notin {"absent", "next", "exit"} /\ at[t] \notin {"absent", "next", "exit"}
  BY DEF CInv, ConverterTypeOK, Working
<1>2. \A u \in Threads : HasFile(u)' <=> HasFile(u)
  BY <1>1 DEF HasFile, vars
<1>3. InvFiles'
  BY <1>2, DrawnKept DEF CInv, InvFiles, vars
<1>4. InvCalls'
  BY <1>1 DEF CInv, InvCalls, vars
<1>5. InvMain' /\ NoThreadAfterJoin'
  BY <1>1 DEF CInv, InvMain, NoThreadAfterJoin, vars, mainVars, Built
<1> QED
  BY <1>3, <1>4, <1>5

\* A thread has done with its file.
LEMMA DoneWith ==
  ASSUME CInv, NEW t \in Threads, at[t] \in Working,
         at' = [at EXCEPT ![t] = "next"],
         operated' = operated \cup {Drawn(t)},
         UNCHANGED <<vars, mainVars>>
  PROVE  InvCalls' /\ InvMain' /\ NoThreadAfterJoin' /\ InvFiles' /\ ~HasFile(t)'
<1>1. /\ at'[t] = "next"
      /\ \A u \in Threads : u # t => at'[u] = at[u]
      /\ at[t] \notin {"absent", "next", "exit"}
  BY DEF CInv, ConverterTypeOK, Working
<1>2. /\ \A u \in Threads : u # t => (HasFile(u)' <=> HasFile(u))
      /\ ~HasFile(t)'
  <2>1. pc'[t] = "idle"
    BY DEF CInv, InvCalls, vars
  <2> QED
    BY <1>1, <2>1 DEF HasFile, vars, Working
<1>3. InvFiles'
  <2>1. \A u \in Threads : Drawn(u)' = Drawn(u)
    BY DrawnKept DEF vars
  <2>2. ASSUME NEW i \in 1..Len(handed), i \notin operated'
        PROVE  \E u \in Threads : HasFile(u)' /\ Drawn(u)' = i
    <3>1. PICK u \in Threads : HasFile(u) /\ Drawn(u) = i
      BY <2>2 DEF CInv, InvFiles
    <3> QED
      BY <1>2, <2>1, <2>2, <3>1
  <2> QED
    BY <1>2, <2>1, <2>2 DEF CInv, InvFiles, vars
<1>4. InvCalls'
  BY <1>1 DEF CInv, InvCalls, vars, Working
<1>5. InvMain' /\ NoThreadAfterJoin'
  BY <1>1 DEF CInv, InvMain, NoThreadAfterJoin, vars, mainVars, Built
<1> QED
  BY <1>2, <1>3, <1>4, <1>5

\* What one file fails or is praised for is not held against another.
LEMMA PraiseKept ==
  ASSUME CInv, NEW t \in Threads,
         \A u \in Threads : u # t => at'[u] = at[u] /\ iFnRes'[u] = iFnRes[u],
         \A u \in Threads : u # t => (HasFile(u)' <=> HasFile(u)),
         HasFile(t),
         UNCHANGED handed,
         failed' \in {failed, failed \cup {Drawn(t)}},
         praised' \in {praised, praised \cup {Drawn(t)}},
         HasFile(t)' => Drawn(t) \notin praised' /\ (Drawn(t) \in failed' =>
                                                     at'[t] = "close" /\ iFnRes'[t] = -1)
  PROVE  InvPraise'
<1>1. \A u \in Threads : Drawn(u)' = Drawn(u)
  BY DrawnKept
<1>2. \A u \in Threads : u # t /\ HasFile(u) => Drawn(u) # Drawn(t)
  BY DifferentFiles DEF CInv
<1>3. ASSUME NEW u \in Threads, u # t, HasFile(u)
      PROVE  /\ Drawn(u) \notin praised'
             /\ Drawn(u) \in failed' => at'[u] = "close" /\ iFnRes'[u] = -1
  BY <1>2, <1>3 DEF CInv, InvPraise
<1> QED
  BY <1>1, <1>3 DEF InvPraise

\* A thread with a file, and the types it needs.
LEMMA InHand ==
  ASSUME CInv, NEW t \in Threads, at[t] \in Working
  PROVE  /\ HasFile(t) /\ Drawn(t) \in 1..Len(handed)
         /\ Drawn(t) \notin praised
         /\ Drawn(t) \in failed => at[t] = "close" /\ iFnRes[t] = -1
  BY DEF CInv, HasFile, InvFiles, InvPraise

\* The steps of a thread before the conversion: nothing has failed yet.
LEMMA OpenStep ==
  ASSUME CInv, IInv', NEW t \in Threads,
         OpenFile(t) \/ LoadCount(t) \/ StoreCount(t) \/ InitBz2(t) \/ ReadVersion(t)
  PROVE  CInv'
<1>1. /\ at[t] \in Working /\ at[t] # "close"
      /\ UNCHANGED <<vars, mainVars, iFnRes, failed, praised>>
  BY DEF OpenFile, LoadCount, StoreCount, InitBz2, ReadVersion, histVars, Working
<1>2. /\ at \in [Threads -> Places] /\ count \in Nat /\ mapped \in Nat
      /\ loaded \in [Threads -> Nat] /\ left \in [Threads -> 0..MaxPackets]
      /\ MaxPackets \in Nat
  BY ConverterAssumption DEF CInv, ConverterTypeOK, Places
<1>3. /\ HasFile(t) /\ Drawn(t) \in 1..Len(handed)
      /\ Drawn(t) \notin praised /\ Drawn(t) \notin failed
  BY <1>1, InHand
<1>4. \/ \E p \in Working : at' = [at EXCEPT ![t] = p] /\ operated' = operated
      \/ at' = [at EXCEPT ![t] = "next"] /\ operated' = operated \cup {Drawn(t)}
  <2>1. CASE OpenFile(t)
    BY <2>1 DEF OpenFile, Go, Working
  <2>2. CASE LoadCount(t)
    BY <2>2 DEF LoadCount, Go, Working, histVars
  <2>3. CASE StoreCount(t)
    BY <2>3 DEF StoreCount, Go, Working
  <2>4. CASE InitBz2(t)
    BY <2>4 DEF InitBz2, Go, Working
  <2>5. CASE ReadVersion(t)
    <3>1. at[t] = "read" /\ (Go(t, "close") \/ at' = at \/ Go(t, "convert"))
          /\ operated' = operated
      BY <2>5 DEF ReadVersion, histVars
    <3>2. at' = at => at' = [at EXCEPT ![t] = "read"]
      BY <1>2, <3>1
    <3> QED
      BY <3>1, <3>2 DEF Go, Working
  <2> QED
    BY <2>1, <2>2, <2>3, <2>4, <2>5
<1>5. InvCalls' /\ InvMain' /\ NoThreadAfterJoin' /\ InvFiles'
  <2>1. ASSUME NEW p \in Working, at' = [at EXCEPT ![t] = p], operated' = operated
        PROVE  InvCalls' /\ InvMain' /\ NoThreadAfterJoin' /\ InvFiles'
    BY <1>1, <2>1, GoOn
  <2>2. CASE at' = [at EXCEPT ![t] = "next"] /\ operated' = operated \cup {Drawn(t)}
    BY <1>1, <2>2, DoneWith
  <2> QED
    BY <1>4, <2>1, <2>2
<1>6. InvPraise' /\ PraiseDeserved'
  <2>1. \A u \in Threads : u # t => at'[u] = at[u] /\ (HasFile(u)' <=> HasFile(u))
    BY <1>1, <1>2, <1>4 DEF HasFile, vars
  <2>2. InvPraise'
    BY <1>1, <1>3, <2>1, PraiseKept DEF vars
  <2> QED
    BY <1>1, <2>2 DEF CInv, PraiseDeserved
<1>7. /\ count' \in Nat /\ mapped' \in Nat /\ loaded' \in [Threads -> Nat]
      /\ InvCount'
  <2>1. CASE LoadCount(t)
    BY <1>2, <2>1 DEF LoadCount, histVars, CInv, InvCount
  <2>2. CASE StoreCount(t)
    BY <1>2, <2>2 DEF StoreCount, CInv, InvCount
  <2>3. CASE UNCHANGED <<count, mapped, loaded>>
    BY <1>2, <2>3 DEF CInv, InvCount
  <2> QED
    BY <2>1, <2>2, <2>3 DEF OpenFile, InitBz2, ReadVersion, histVars
<1>8. left' \in [Threads -> 0..MaxPackets] /\ at' \in [Threads -> Places]
  <2>1. at' \in [Threads -> Places]
    BY <1>2, <1>4 DEF Working, Places
  <2>2. CASE OpenFile(t)
    BY <1>2, <2>1, <2>2 DEF OpenFile
  <2>3. CASE ReadVersion(t)
    BY <1>2, <2>1, <2>3 DEF ReadVersion
  <2>4. CASE UNCHANGED left
    BY <1>2, <2>1, <2>4
  <2> QED
    BY <2>1, <2>2, <2>3, <2>4 DEF LoadCount, StoreCount, InitBz2
<1>9. ConverterTypeOK'
  <2>1. failed' \cup praised' \cup operated' \subseteq 1..Len(handed')
    BY <1>1, <1>3, <1>4 DEF CInv, ConverterTypeOK, vars
  <2> QED
    BY <1>1, <1>7, <1>8, <2>1 DEF CInv, ConverterTypeOK, IInv, Places, mainVars
<1> QED
  BY <1>5, <1>6, <1>7, <1>9 DEF CInv

LEMMA ConvertStep ==
  ASSUME CInv, IInv', NEW t \in Threads, Convert(t) PROVE CInv'
<1>1. /\ at[t] = "convert" /\ at[t] \in Working
      /\ UNCHANGED <<vars, mainVars, count, loaded, left, mapped, praised, operated>>
  BY DEF Convert, Working
<1>2. at \in [Threads -> Places] /\ iFnRes \in [Threads -> {0, -1}]
  BY DEF CInv, ConverterTypeOK, Places
<1>3. /\ HasFile(t) /\ Drawn(t) \in 1..Len(handed)
      /\ Drawn(t) \notin praised /\ Drawn(t) \notin failed
  BY <1>1, InHand
<1>4. \/ /\ at' = [at EXCEPT ![t] = "read"] /\ failed' = failed
         /\ iFnRes' = [iFnRes EXCEPT ![t] = 0]
      \/ /\ at' = [at EXCEPT ![t] = "close"] /\ failed' = failed \cup {Drawn(t)}
         /\ iFnRes' = [iFnRes EXCEPT ![t] = -1]
      \/ at' = [at EXCEPT ![t] = "endless"] /\ failed' = failed /\ iFnRes' = iFnRes
  BY DEF Convert, Go
<1>5. InvCalls' /\ InvMain' /\ NoThreadAfterJoin' /\ InvFiles'
  BY <1>1, <1>4, GoOn DEF Working
<1>6. InvPraise' /\ PraiseDeserved'
  <2>1. \A u \in Threads : u # t => /\ at'[u] = at[u] /\ iFnRes'[u] = iFnRes[u]
                                    /\ HasFile(u)' <=> HasFile(u)
    BY <1>1, <1>2, <1>4 DEF HasFile, vars
  <2>2. Drawn(t) \in failed' => at'[t] = "close" /\ iFnRes'[t] = -1
    BY <1>2, <1>3, <1>4
  <2>3. failed' \in {failed, failed \cup {Drawn(t)}} /\ UNCHANGED <<handed, praised>>
    BY <1>1, <1>4 DEF vars
  <2>4. InvPraise'
    BY <1>3, <2>1, <2>2, <2>3, PraiseKept
  <2> QED
    BY <1>3, <2>3, <2>4 DEF CInv, PraiseDeserved
<1>7. ConverterTypeOK'
  <2>1. failed' \cup praised' \cup operated' \subseteq 1..Len(handed')
    BY <1>1, <1>3, <1>4 DEF CInv, ConverterTypeOK, vars
  <2>2. at' \in [Threads -> Places] /\ iFnRes' \in [Threads -> {0, -1}]
    BY <1>2, <1>4 DEF Places
  <2> QED
    BY <1>1, <2>1, <2>2 DEF CInv, ConverterTypeOK, IInv, Places, mainVars
<1>8. InvCount'
  BY <1>1 DEF CInv, InvCount
<1> QED
  BY <1>5, <1>6, <1>7, <1>8 DEF CInv

LEMMA CloseStep ==
  ASSUME CInv, IInv', NEW t \in Threads, CloseFile(t) PROVE CInv'
<1>1. /\ at[t] = "close" /\ at[t] \in Working
      /\ at' = [at EXCEPT ![t] = "next"] /\ operated' = operated \cup {Drawn(t)}
      /\ praised' = IF iFnRes[t] = 0 THEN praised \cup {Drawn(t)} ELSE praised
      /\ UNCHANGED <<vars, mainVars, count, loaded, left, iFnRes, mapped, failed>>
  BY DEF CloseFile, Go, Working
<1>2. at \in [Threads -> Places]
  BY DEF CInv, ConverterTypeOK, Places
<1>3. /\ HasFile(t) /\ Drawn(t) \in 1..Len(handed)
      /\ Drawn(t) \in failed => iFnRes[t] = -1
  BY <1>1, InHand
<1>4. InvCalls' /\ InvMain' /\ NoThreadAfterJoin' /\ InvFiles' /\ ~HasFile(t)'
  BY <1>1, DoneWith
<1>5. InvPraise' /\ PraiseDeserved'
  <2>1. \A u \in Threads : u # t => at'[u] = at[u] /\ (HasFile(u)' <=> HasFile(u))
    BY <1>1, <1>2 DEF HasFile, vars
  <2>2. InvPraise'
    BY <1>1, <1>3, <1>4, <2>1, PraiseKept DEF vars
  <2> QED
    BY <1>1, <1>3, <2>2 DEF CInv, PraiseDeserved
<1>6. ConverterTypeOK'
  <2>1. failed' \cup praised' \cup operated' \subseteq 1..Len(handed')
    BY <1>1, <1>3 DEF CInv, ConverterTypeOK, vars
  <2>2. at' \in [Threads -> Places]
    BY <1>1, <1>2 DEF Places
  <2> QED
    BY <1>1, <2>1, <2>2 DEF CInv, ConverterTypeOK, IInv, Places, mainVars
<1>7. InvCount'
  BY <1>1 DEF CInv, InvCount
<1> QED
  BY <1>4, <1>5, <1>6, <1>7 DEF CInv

\* A thread inside the function draws no file twice and leaves none: the file that
\* it fetches is in its hands from the moment it is handed out.
LEMMA DrawStep ==
  ASSUME CInv, IInv', NEW t \in Threads, DrawFile(t) PROVE CInv'
<1>1. /\ at[t] = "next" /\ GetNextFileInfo(t) /\ main # "init"
      /\ UNCHANGED <<mainVars, count, loaded, left, iFnRes, histVars>>
  BY DEF DrawFile, CInv, InvMain
<1>2. /\ at \in [Threads -> Places]
      /\ pc \in [Threads -> {"idle", "locked", "moved", "read", "done"}]
      /\ handed \in Seq(Threads \X (Nat \ {0})) /\ Len(handed) \in Nat
      /\ iter \in Nat /\ NULL \notin Files
      /\ failed \cup praised \cup operated \subseteq 1..Len(handed)
  <2>1. TypeOK /\ ConverterTypeOK
    BY DEF CInv, IInv
  <2>2. handed \in Seq(Threads \X (Nat \ {0})) /\ Len(handed) \in Nat
    BY <2>1 DEF TypeOK
  <2>3. NULL \notin Files
    BY FileListAssumption
  <2> QED
    BY <2>1, <2>2, <2>3 DEF TypeOK, ConverterTypeOK, Places
<1>3. /\ \A u \in Threads : u # t => at'[u] = at[u] /\ pc'[u] = pc[u] /\ ret'[u] = ret[u]
      /\ at'[t] = CASE pc'[t] = "done" -> "exit"
                     [] pc[t] = "read" /\ pc'[t] = "idle" -> "open"
                     [] OTHER -> "next"
      /\ at' \in [Threads -> Places]
  <2>1. \A u \in Threads : u # t => pc'[u] = pc[u] /\ ret'[u] = ret[u]
    BY <1>1 DEF GetNextFileInfo, Lock, Advance, Fetch, Unlock, CInv, IInv, TypeOK
  <2>2. at' = [at EXCEPT ![t] = CASE pc'[t] = "done" -> "exit"
                                  [] pc[t] = "read" /\ pc'[t] = "idle" -> "open"
                                  [] OTHER -> "next"]
    <3>1. CASE pc'[t] = "done"
      BY <3>1 DEF DrawFile, Go
    <3>2. CASE pc'[t] # "done" /\ pc[t] = "read" /\ pc'[t] = "idle"
      BY <3>2 DEF DrawFile, Go
    <3>3. CASE pc'[t] # "done" /\ ~(pc[t] = "read" /\ pc'[t] = "idle")
      <4>1. at' = at /\ at = [at EXCEPT ![t] = "next"]
        BY <1>1, <1>2, <3>3 DEF DrawFile
      <4> QED
        BY <3>3, <4>1
    <3> QED
      BY <3>1, <3>2, <3>3
  <2> QED
    BY <1>2, <2>1, <2>2 DEF Places
<1>4. \/ /\ UNCHANGED handed
         /\ HasFile(t)' <=> HasFile(t)
      \/ /\ handed' = Append(handed, <<t, iter>>) /\ iter \in Nat \ {0}
         /\ ~HasFile(t)
         /\ HasFile(t)'
  <2>1. CASE Lock(t)
    BY <1>1, <1>3, <2>1 DEF Lock, HasFile, Working, CInv, IInv, TypeOK
  <2>2. CASE Advance(t)
    <3>1. pc[t] = "locked" /\ ret[t] = NULL /\ pc'[t] \in {"moved", "read"}
          /\ UNCHANGED <<ret, handed>>
      BY <2>2 DEF Advance, CInv, IInv, TypeOK, InvThread
    <3> QED
      BY <1>1, <1>3, <3>1 DEF HasFile, Working
  <2>3. CASE Fetch(t)
    <3>1. pc[t] = "moved" /\ pc'[t] = "read" /\ ret[t] = NULL /\ at'[t] = "next"
      BY <1>3, <2>3 DEF Fetch, CInv, IInv, TypeOK, InvThread
    <3>2. CASE iter = End
      BY <1>1, <2>3, <3>1, <3>2 DEF Fetch, HasFile, Working
    <3>3. CASE iter # End
      <4>1. iter \in 1..Len(list)
        BY <1>2, <3>3 DEF End, CInv, IInv, InvIter, TypeOK
      <4>2. ret'[t] = list[iter] /\ list[iter] \in Files
        BY <2>3, <3>3, <4>1 DEF Fetch, CInv, IInv, TypeOK
      <4> QED
        BY <1>1, <1>2, <2>3, <3>1, <3>3, <4>2 DEF Fetch, HasFile, Working, End
    <3> QED
      BY <3>2, <3>3
  <2>4. CASE Unlock(t)
    <3>1. /\ pc[t] = "read" /\ UNCHANGED <<ret, handed>>
          /\ pc'[t] = IF ret[t] = NULL THEN "done" ELSE "idle"
      BY <2>4 DEF Unlock, CInv, IInv, TypeOK
    <3> QED
      BY <1>1, <1>3, <3>1 DEF HasFile, Working
  <2> QED
    BY <1>1, <2>1, <2>2, <2>3, <2>4 DEF GetNextFileInfo
<1>5. \A u \in Threads : u # t => (HasFile(u)' <=> HasFile(u))
  BY <1>3 DEF HasFile
<1>6. ConverterTypeOK'
  <2>1. Len(handed) <= Len(handed')
    BY <1>2, <1>4
  <2>2. failed' \cup praised' \cup operated' \subseteq 1..Len(handed')
    <3>1. Len(handed') \in Nat
      BY <1>2, <1>4
    <3> QED
      BY <1>1, <1>2, <2>1, <3>1 DEF histVars
  <2> QED
    BY <1>1, <1>3, <2>2 DEF CInv, ConverterTypeOK, IInv, Places, mainVars, histVars
<1>7. InvCalls' /\ InvMain' /\ NoThreadAfterJoin'
  <2>1. Built'
    BY <1>1 DEF GetNextFileInfo, Lock, Advance, Fetch, Unlock, walkVars, CInv, InvMain, Built
  <2>2. InvMain' /\ NoThreadAfterJoin'
    BY <1>1, <1>3, <2>1 DEF CInv, InvMain, NoThreadAfterJoin, mainVars
  <2>3. /\ pc'[t] = "done" => at'[t] = "exit"
        /\ at'[t] = "exit" => pc'[t] = "done"
        /\ at'[t] \in Working => pc'[t] = "idle"
        /\ at'[t] # "absent"
    BY <1>3 DEF Working
  <2>4. InvCalls'
    BY <1>3, <2>3 DEF CInv, InvCalls
  <2> QED
    BY <2>2, <2>4
<1>8. InvFiles' /\ InvPraise'
  <2>1. CASE UNCHANGED handed /\ (HasFile(t)' <=> HasFile(t))
    <3>1. \A u \in Threads : Drawn(u)' = Drawn(u) /\ (HasFile(u)' <=> HasFile(u))
      BY <1>5, <2>1, DrawnKept
    <3>2. InvFiles'
      BY <1>1, <2>1, <3>1 DEF CInv, InvFiles, histVars
    <3>3. ASSUME NEW u \in Threads, HasFile(u)
          PROVE  /\ Drawn(u) \notin praised
                 /\ Drawn(u) \in failed => at'[u] = "close" /\ iFnRes[u] = -1
      BY <1>1, <1>3, <3>3 DEF CInv, InvPraise
    <3> QED
      BY <1>1, <3>1, <3>2, <3>3 DEF InvPraise, histVars
  <2>2. CASE /\ handed' = Append(handed, <<t, iter>>) /\ iter \in Nat \ {0}
             /\ ~HasFile(t) /\ HasFile(t)'
    <3> DEFINE n == Len(handed) + 1
    <3>1. Drawn(t)' = n /\ \A u \in Threads : u # t => Drawn(u)' = Drawn(u)
      BY <1>2, <2>2, DrawnAppended
    <3>2. /\ Len(handed') = n /\ handed'[n] = <<t, iter>>
          /\ \A i \in 1..Len(handed) : handed'[i] = handed[i]
      BY <1>2, <2>2
    <3>3. ASSUME NEW u \in Threads, HasFile(u)'
          PROVE  Drawn(u)' \in 1..n /\ handed'[Drawn(u)'][1] = u
      BY <1>2, <1>5, <3>1, <3>2, <3>3 DEF CInv, InvFiles
    <3>4. ASSUME NEW i \in 1..n, i \notin operated
          PROVE  \E u \in Threads : HasFile(u)' /\ Drawn(u)' = i
      <4>1. CASE i = n
        BY <2>2, <3>1, <4>1
      <4>2. CASE i # n
        <5>1. PICK u \in Threads : HasFile(u) /\ Drawn(u) = i
          BY <1>2, <3>4, <4>2 DEF CInv, InvFiles
        <5> QED
          BY <1>5, <2>2, <3>1, <5>1
      <4> QED
        BY <4>1, <4>2
    <3>5. InvFiles'
      BY <1>1, <3>2, <3>3, <3>4 DEF InvFiles, histVars
    <3>6. n \notin praised /\ n \notin failed
      BY <1>2
    <3>7. ASSUME NEW u \in Threads, HasFile(u)'
          PROVE  /\ Drawn(u)' \notin praised
                 /\ Drawn(u)' \in failed => at'[u] = "close" /\ iFnRes[u] = -1
      BY <1>3, <1>5, <3>1, <3>6, <3>7 DEF CInv, InvPraise
    <3> QED
      BY <1>1, <3>5, <3>7 DEF InvPraise, histVars
  <2> QED
    BY <1>4, <2>1, <2>2
<1>9. InvCount' /\ PraiseDeserved'
  BY <1>1 DEF CInv, InvCount, PraiseDeserved, histVars
<1> QED
  BY <1>6, <1>7, <1>8, <1>9 DEF CInv

LEMMA NextCInv == CInv /\ [ConverterNext]_allVars => CInv'
<1> SUFFICES ASSUME CInv, [ConverterNext]_allVars PROVE CInv'
  OBVIOUS
<1>1. IInv'
  BY StepOfFileList, NextIInv DEF CInv
<1>2. CASE Main
  BY <1>1, <1>2, BuildStep, CreateStep, OtherMainStep DEF Main
<1>3. ASSUME NEW t \in Threads, Worker(t) PROVE CInv'
  BY <1>1, <1>3, DrawStep, OpenStep, ConvertStep, CloseStep DEF Worker
<1>4. CASE UNCHANGED allVars
  <2>1. UNCHANGED <<vars, mainVars, workVars, histVars>>
    BY <1>4 DEF allVars
  <2>2. InvFiles' /\ InvPraise' /\ PraiseDeserved'
    BY <2>1, MainKeepsFiles DEF vars, workVars, histVars
  <2>3. ConverterTypeOK'
    BY <1>1, <2>1 DEF CInv, ConverterTypeOK, IInv, vars, mainVars, workVars, histVars
  <2>4. InvCalls' /\ InvMain' /\ NoThreadAfterJoin' /\ InvCount'
    BY <2>1 DEF CInv, InvCalls, InvMain, NoThreadAfterJoin, InvCount, Built, vars, mainVars,
                workVars, histVars
  <2> QED
    BY <1>1, <2>2, <2>3, <2>4 DEF CInv
<1> QED
  BY <1>2, <1>3, <1>4 DEF ConverterNext, Work, Loop, Exited

-----------------------------------------------------------------------------
(* The theorems.                                                           *)

\* The invariant on which the theorems below rest.
THEOREM ConverterInvariant == ConverterSpec => []CInv
  BY InitCInv, NextCInv, PTL DEF ConverterSpec

\* The program is an instance of FileList: what is proved of the list holds of it,
\* whatever else main and the threads do in between.
THEOREM ConverterUsesFileList == ConverterSpec => Spec
<1>1. ConverterInit => Init
  BY DEF ConverterInit
<1>2. CInv /\ [ConverterNext]_allVars => [Next]_vars
  BY StepOfFileList
<1> QED
  BY <1>1, <1>2, ConverterInvariant, PTL DEF ConverterSpec, Spec

\* The variables of the program keep their types.
THEOREM ConverterTyping == ConverterSpec => []ConverterTypeOK
<1>1. CInv => ConverterTypeOK
  BY DEF CInv
<1> QED
  BY <1>1, ConverterInvariant, PTL

\* With any number of threads, of which some may not have been created, and
\* whichever files fail: when main reports, every file of the list is done with.
THEOREM EveryFileOperated == ConverterSpec => []AllFilesOperated
<1>1. CInv => AllFilesOperated
  <2> SUFFICES ASSUME CInv, main \in {"report", "fini", "exit"},
                      NEW t \in Threads, at[t] # "absent",
                      NEW i \in 1..Len(list)
               PROVE  i \in operated
    BY DEF AllFilesOperated
  <2>1. \A u \in Threads : ~HasFile(u)
    BY DEF CInv, NoThreadAfterJoin, InvCalls, HasFile, Working
  <2>2. pc[t] = "done"
    BY DEF CInv, NoThreadAfterJoin, InvCalls
  <2>3. Len(handed) = Len(list)
    BY <2>2 DEF CInv, IInv, InvThread, AtEnd
  <2> QED
    BY <2>1, <2>3 DEF CInv, InvFiles
<1> QED
  BY <1>1, ConverterInvariant, PTL

\* What main destroys after the joins, no thread uses any more.
THEOREM NoThreadLeft == ConverterSpec => []NoThreadAfterJoin
<1>1. CInv => NoThreadAfterJoin
  BY DEF CInv
<1> QED
  BY <1>1, ConverterInvariant, PTL

\* However the increments of the counter interleave, it is not too high.
THEOREM CountBounded == ConverterSpec => []CountNotOverstated
<1>1. CInv => CountNotOverstated
  BY DEF CInv, InvCount, CountNotOverstated
<1> QED
  BY <1>1, ConverterInvariant, PTL

\* No file of which a packet was not converted is logged as a success, even if
\* the list holds the same file twice.
THEOREM NoFalsePraise == ConverterSpec => []PraiseDeserved
<1>1. CInv => PraiseDeserved
  BY DEF CInv
<1> QED
  BY <1>1, ConverterInvariant, PTL

\* Of all that the configured directories lead to, no file that the filter admits is
\* left out of the list or by the threads.
EveryFileMetOperated ==
  main \in {"report", "fini", "exit"} /\ (\E t \in Threads : at[t] # "absent") =>
    \A f \in Met : Admitted(f) => \E i \in operated : list[i] = f

\* From the scan to the end of the program: when main reports, every admitted file that
\* the directories lead to was operated on, whatever directories, files and threads
\* failed, as long as there was a thread.
THEOREM EveryFileMetIsOperated == ConverterSpec => []EveryFileMetOperated
<1>1. CInv /\ AllFilesOperated /\ EveryFileListed => EveryFileMetOperated
  <2> SUFFICES ASSUME CInv, AllFilesOperated, EveryFileListed,
                      main \in {"report", "fini", "exit"},
                      NEW t \in Threads, at[t] # "absent",
                      NEW f \in Met, Admitted(f)
               PROVE  \E i \in operated : list[i] = f
    BY DEF EveryFileMetOperated
  <2>1. pc[t] = "done"
    BY DEF CInv, NoThreadAfterJoin, InvCalls
  <2>2. Built
    BY <2>1 DEF CInv, IInv, InvThread
  <2>3. PICK i \in 1..Len(list) : list[i] = f
    BY <2>2 DEF EveryFileListed, Members
  <2>4. i \in operated
    BY <2>3 DEF AllFilesOperated
  <2> QED
    BY <2>3, <2>4
<1>2. ConverterSpec => []EveryFileListed
  BY ConverterUsesFileList, EveryFileIsListed, PTL
<1> QED
  BY <1>1, <1>2, ConverterInvariant, EveryFileOperated, PTL

-----------------------------------------------------------------------------
(* The program comes to an end.                                            *)

\* Somebody can take a step: main, or a thread that works at its file, that is inside
\* file_list_get_next_file_info or that asks for a file while the mutex is free.  A
\* thread in a conversion that never returns is not counted as one that can.
MainReady == \/ main \in {"init", "create", "report", "fini"}
             \/ main = "join" /\ (nth \in Threads => at[nth] \in {"exit", "absent"})

ThreadReady(t) == \/ at[t] \in Working \ {"endless"}
                  \/ at[t] = "next" /\ Inside(t)
                  \/ at[t] = "next" /\ pc[t] = "idle" /\ mutex = NULL

SomebodyReady == \/ main \in {"exit", "crashed"} \/ MainReady
                 \/ \E t \in Threads : ThreadReady(t)
                 \/ \E t \in Threads : at[t] = "endless"

\* Main and the threads never all wait for each other, in the joins or at the mutex,
\* whichever threads were created: where nobody can go on, the program has ended or a
\* conversion never returns.
THEOREM NeverStuck == ConverterSpec => []SomebodyReady
<1>1. Init => HolderGoesOn
  BY DEF Init, HolderGoesOn
<1>2. IInv /\ HolderGoesOn /\ [Next]_vars => HolderGoesOn'
  BY HolderStep
<1>3. CInv => IInv
  BY DEF CInv
<1>4. CInv /\ HolderGoesOn => SomebodyReady
  <2> SUFFICES ASSUME CInv, HolderGoesOn, main = "join", nth \in Threads,
                      at[nth] \notin {"exit", "absent"},
                      \A t \in Threads : at[t] # "endless"
               PROVE  \E t \in Threads : ThreadReady(t)
    BY DEF SomebodyReady, MainReady, CInv, ConverterTypeOK
  <2>1. /\ at \in [Threads -> Places] /\ mutex \in Threads \cup {NULL}
        /\ pc \in [Threads -> {"idle", "locked", "moved", "read", "done"}]
    BY DEF CInv, ConverterTypeOK, TypeOK, Places
  <2>2. CASE at[nth] \in Working
    BY <2>2 DEF ThreadReady
  <2>3. CASE at[nth] \notin Working
    <3>1. at[nth] = "next"
      BY <2>1, <2>3 DEF Places, Working
    <3>2. CASE mutex = NULL
      <4>1. pc[nth] # "done"
        BY <3>1 DEF CInv, InvCalls
      <4> QED
        BY <2>1, <3>1, <3>2, <4>1 DEF ThreadReady, Inside
    <3>3. CASE mutex # NULL
      <4>1. mutex \in Threads /\ Inside(mutex)
        BY <3>3 DEF HolderGoesOn
      <4>2. at[mutex] = "next"
        BY <2>1, <4>1 DEF CInv, InvCalls, Inside, Places, Working
      <4> QED
        BY <4>1, <4>2 DEF ThreadReady
    <3> QED
      BY <3>2, <3>3
  <2> QED
    BY <2>2, <2>3
<1> QED
  BY <1>1, <1>2, <1>3, <1>4, ConverterInvariant, ConverterUsesFileList, PTL DEF Spec

\* The steps that a thread takes at most before it asks for another file.
WorkLeft ==
  [t \in Threads |->
     CASE at[t] = "open" -> 2 * MaxPackets + 6
       [] at[t] = "count" -> 2 * MaxPackets + 5
       [] at[t] = "store" -> 2 * MaxPackets + 4
       [] at[t] = "bz_init" -> 2 * MaxPackets + 3
       [] at[t] = "read" -> 2 * left[t] + 2
       [] at[t] = "convert" -> 2 * left[t] + 3
       [] at[t] = "close" -> 1
       [] OTHER -> 0]

\* The steps that main takes at most, those of the scan apart.
MainLeft == CASE main = "init" -> 2 * ThreadCount + 5
              [] main = "create" -> (ThreadCount + 4) + (ThreadCount + 1 - nth)
              [] main = "join" -> 3 + (ThreadCount + 1 - nth)
              [] main = "report" -> 2
              [] main = "fini" -> 1
              [] OTHER -> 0

\* Each step of the list may bring a thread the work of one file.
ProgramLeft == (2 * MaxPackets + 7) * StepsLeft + SumFunctionOnSet(WorkLeft, Threads) + MainLeft

WorkAndMainLeft == /\ WorkLeft \in [Threads -> 0..(2 * MaxPackets + 6)]
                   /\ SumFunctionOnSet(WorkLeft, Threads) \in Nat
                   /\ MainLeft \in Nat

LEMMA WorkLeftType == ConverterTypeOK => WorkAndMainLeft
<1> SUFFICES ASSUME ConverterTypeOK PROVE WorkAndMainLeft
  OBVIOUS
<1>1. WorkLeft \in [Threads -> 0..(2 * MaxPackets + 6)]
  <2> SUFFICES ASSUME NEW t \in Threads PROVE WorkLeft[t] \in 0..(2 * MaxPackets + 6)
    BY DEF WorkLeft
  <2>1. left[t] \in 0..MaxPackets /\ MaxPackets \in Nat
    BY ConverterAssumption DEF ConverterTypeOK
  <2> QED
    BY <2>1 DEF WorkLeft
<1>2. SumFunctionOnSet(WorkLeft, Threads) \in Nat
  <2>1. \A t \in Threads : WorkLeft[t] \in Nat
    BY <1>1
  <2> QED
    BY <2>1, ThreadsAreFinite, SumOverSet
<1>3. MainLeft \in Nat
  <2>1. nth \in Nat /\ nth <= ThreadCount + 1 /\ ThreadCount \in Nat
    BY ConverterAssumption DEF ConverterTypeOK
  <2>2. ThreadCount + 1 - nth \in Nat
    BY <2>1
  <2> QED
    BY <2>1, <2>2 DEF MainLeft
<1> QED
  BY <1>1, <1>2, <1>3 DEF WorkAndMainLeft

\* A sum changes as the number of the one thread that takes a step.
LEMMA OneThreadSteps ==
  ASSUME NEW v, NEW w, NEW t \in Threads, NEW b \in Nat,
         v \in [Threads -> 0..b], w \in [Threads -> 0..b],
         \A u \in Threads : u # t => w[u] = v[u]
  PROVE  SumFunctionOnSet(w, Threads) + v[t] = SumFunctionOnSet(v, Threads) + w[t]
<1> DEFINE R == Threads \ {t}
<1>1. IsFiniteSet(Threads) /\ IsFiniteSet(R)
  BY ThreadsAreFinite
<1>2. /\ \A u \in Threads : v[u] \in Nat /\ w[u] \in Nat
      /\ \A u \in R : w[u] \in Nat /\ v[u] \in Nat /\ w[u] = v[u]
  OBVIOUS
<1> HIDE DEF R
<1>3. SumFunctionOnSet(w, R) = SumFunctionOnSet(v, R) /\ SumFunctionOnSet(v, R) \in Nat
  BY <1>1, <1>2, SumOfSame, SumOverSet
<1>4. SumFunctionOnSet(v, Threads) = v[t] + SumFunctionOnSet(v, R)
  BY <1>1, <1>2, SumOverSet DEF R
<1>5. SumFunctionOnSet(w, Threads) = w[t] + SumFunctionOnSet(w, R)
  BY <1>1, <1>2, SumOverSet DEF R
<1> QED
  BY <1>2, <1>3, <1>4, <1>5

\* A thread that works at its file gets on with it.
LEMMA FileGetsOn ==
  ASSUME CInv, NEW t \in Threads, Worker(t), ~ DrawFile(t)
  PROVE  /\ UNCHANGED <<vars, mainVars>>
         /\ WorkLeft'[t] < WorkLeft[t]
         /\ \A u \in Threads : u # t => WorkLeft'[u] = WorkLeft[u]
<1>1. /\ at \in [Threads -> Places] /\ left \in [Threads -> 0..MaxPackets]
      /\ MaxPackets \in Nat
  BY ConverterAssumption DEF CInv, ConverterTypeOK, Places
<1>2. UNCHANGED <<vars, mainVars>>
  BY DEF Worker, OpenFile, LoadCount, StoreCount, InitBz2, ReadVersion, Convert, CloseFile
<1>3. \A u \in Threads : u # t => at'[u] = at[u] /\ left'[u] = left[u]
  BY <1>1 DEF Worker, OpenFile, LoadCount, StoreCount, InitBz2, ReadVersion, Convert, CloseFile, Go
<1>4. \A u \in Threads : u # t => WorkLeft'[u] = WorkLeft[u]
  BY <1>3 DEF WorkLeft
<1>5. WorkLeft'[t] < WorkLeft[t]
  <2>1. CASE OpenFile(t)
    BY <1>1, <2>1 DEF OpenFile, Go, WorkLeft
  <2>2. CASE LoadCount(t)
    BY <1>1, <2>2 DEF LoadCount, Go, WorkLeft
  <2>3. CASE StoreCount(t)
    BY <1>1, <2>3 DEF StoreCount, Go, WorkLeft
  <2>4. CASE InitBz2(t)
    BY <1>1, <2>4 DEF InitBz2, Go, WorkLeft
  <2>5. CASE ReadVersion(t)
    BY <1>1, <2>5 DEF ReadVersion, Go, WorkLeft
  <2>6. CASE Convert(t)
    BY <1>1, <2>6 DEF Convert, Go, WorkLeft
  <2>7. CASE CloseFile(t)
    BY <1>1, <2>7 DEF CloseFile, Go, WorkLeft
  <2> QED
    BY <2>1, <2>2, <2>3, <2>4, <2>5, <2>6, <2>7 DEF Worker
<1> QED
  BY <1>2, <1>4, <1>5

\* So does main when it does not scan.
LEMMA MainGetsOn ==
  ASSUME CInv, Main, ~ InitFileList
  PROVE  UNCHANGED vars /\ WorkLeft' = WorkLeft /\ MainLeft' < MainLeft
<1>1. nth \in 1..(ThreadCount + 1) /\ ThreadCount \in Nat \ {0} /\ Threads = 1..ThreadCount
      /\ at \in [Threads -> Places]
  BY ConverterAssumption DEF CInv, ConverterTypeOK, Places
<1>2. CASE CreateThread
  <2>1. UNCHANGED <<vars, left>>
    BY <1>2 DEF CreateThread
  <2>2. \A t \in Threads : at'[t] = at[t] \/ (at[t] = "absent" /\ at'[t] = "next")
    BY <1>1, <1>2 DEF CreateThread, CInv, InvMain
  <2>3. WorkLeft' = WorkLeft
    BY <2>1, <2>2 DEF WorkLeft
  <2>4. MainLeft' < MainLeft
    BY <1>1, <1>2 DEF CreateThread, MainLeft
  <2> QED
    BY <2>1, <2>3, <2>4
<1>3. ASSUME FileListReady \/ JoinThread \/ JoinOfNoThread \/ ReportOpenedFiles \/ Fini
      PROVE  UNCHANGED vars /\ WorkLeft' = WorkLeft /\ MainLeft' < MainLeft
  <2>1. UNCHANGED <<vars, at, left>>
    BY <1>3 DEF FileListReady, JoinThread, JoinOfNoThread, ReportOpenedFiles, Fini, workVars
  <2>2. WorkLeft' = WorkLeft
    BY <2>1 DEF WorkLeft
  <2>3. MainLeft' < MainLeft
    BY <1>1, <1>3 DEF FileListReady, JoinThread, JoinOfNoThread, ReportOpenedFiles, Fini, MainLeft
  <2> QED
    BY <2>1, <2>2, <2>3
<1> QED
  BY <1>2, <1>3 DEF Main

\* A step of the list outweighs the work of a file that it may bring, and the other steps
\* are counted.
LEMMA Outweighs ==
  ASSUME NEW b \in Nat, NEW x \in Nat, NEW y \in Nat,
         NEW v \in Nat, NEW w \in Nat, NEW m \in Nat, NEW n \in Nat,
         \/ y < x /\ w <= v + b /\ n = m
         \/ y = x /\ w < v /\ n = m
         \/ y = x /\ w = v /\ n < m
  PROVE  (b + 1) * y + w + n < (b + 1) * x + v + m
<1>1. CASE y < x /\ w <= v + b /\ n = m
  <2>1. PICK d \in Nat : x = y + 1 + d
    <3>1. x - y - 1 \in Nat /\ x = y + 1 + (x - y - 1)
      BY <1>1
    <3> QED
      BY <3>1
  <2>2. PICK p \in Nat, q \in Nat : p = (b + 1) * y /\ q = (b + 1) * d
    OBVIOUS
  <2>3. (b + 1) * x = p + (b + 1) + q
    BY <2>1, <2>2
  <2> QED
    BY <1>1, <2>2, <2>3
<1>2. CASE y = x /\ ((w < v /\ n = m) \/ (w = v /\ n < m))
  <2>1. PICK p \in Nat : p = (b + 1) * x
    OBVIOUS
  <2> QED
    BY <1>2, <2>1
<1> QED
  BY <1>1, <1>2

LEMMA ProgramGoesOn ==
  ASSUME FiniteTree, CInv, FinitelyOpen, HolderGoesOn, [ConverterNext]_allVars,
         WorkAndMainLeft', StepsLeft' \in Nat
  PROVE  UNCHANGED allVars \/ ProgramLeft' < ProgramLeft
<1> DEFINE b == 2 * MaxPackets + 6
           W == SumFunctionOnSet(WorkLeft, Threads)
<1>1. b \in Nat /\ 2 * MaxPackets + 7 = b + 1
  BY ConverterAssumption
<1>2. /\ WorkLeft \in [Threads -> 0..b] /\ W \in Nat /\ MainLeft \in Nat
      /\ WorkLeft' \in [Threads -> 0..b] /\ W' \in Nat /\ MainLeft' \in Nat
      /\ StepsLeft \in Nat
  BY WorkLeftType, StepsLeftType DEF CInv, WorkAndMainLeft
<1>3. /\ ProgramLeft = (b + 1) * StepsLeft + W + MainLeft
      /\ ProgramLeft' = (b + 1) * StepsLeft' + W' + MainLeft'
  BY <1>1 DEF ProgramLeft
<1> HIDE DEF b
<1>4. SUFFICES \/ UNCHANGED allVars
               \/ StepsLeft' < StepsLeft /\ W' <= W + b /\ MainLeft' = MainLeft
               \/ StepsLeft' = StepsLeft /\ W' < W /\ MainLeft' = MainLeft
               \/ StepsLeft' = StepsLeft /\ W' = W /\ MainLeft' < MainLeft
  BY <1>1, <1>2, <1>3, Outweighs
<1>5. UNCHANGED vars => StepsLeft' = StepsLeft
  BY DEF vars, StepsLeft, Unpaid, DirTolls, OpenTolls, OpenToll, CallsLeft, NotDismissed,
         Returning, StepsInCall
<1>6. CASE InitFileList
  <2>1. StepsLeft' < StepsLeft
    BY <1>6, ScanMovesOn DEF InitFileList, CInv
  <2>2. UNCHANGED <<main, nth, at, left>>
    BY <1>6 DEF InitFileList, mainVars, workVars
  <2>3. WorkLeft' = WorkLeft /\ MainLeft' = MainLeft
    BY <2>2 DEF WorkLeft, MainLeft
  <2> QED
    BY <1>1, <1>2, <2>1, <2>3
<1>7. CASE Main /\ ~ InitFileList
  BY <1>5, <1>7, MainGetsOn
<1>8. ASSUME NEW t \in Threads, Worker(t), ~ DrawFile(t)
      PROVE  StepsLeft' = StepsLeft /\ W' < W /\ MainLeft' = MainLeft
  <2>1. /\ UNCHANGED <<vars, mainVars>>
        /\ WorkLeft'[t] < WorkLeft[t]
        /\ \A u \in Threads : u # t => WorkLeft'[u] = WorkLeft[u]
    BY <1>8, FileGetsOn
  <2>2. MainLeft' = MainLeft
    BY <2>1 DEF mainVars, MainLeft
  <2>3. W' + WorkLeft[t] = W + WorkLeft'[t]
    BY <1>1, <1>2, <2>1, OneThreadSteps
  <2>4. WorkLeft[t] \in Nat /\ WorkLeft'[t] \in Nat
    BY <1>1, <1>2
  <2> QED
    BY <1>2, <1>5, <2>1, <2>2, <2>3, <2>4
<1>9. ASSUME NEW t \in Threads, DrawFile(t)
      PROVE  StepsLeft' < StepsLeft /\ W' <= W + b /\ MainLeft' = MainLeft
  <2>1. StepsLeft' < StepsLeft
    BY <1>9, DrawsFromBuiltList, CallMovesOn DEF DrawFile, CInv
  <2>2. UNCHANGED <<main, nth, left>>
    BY <1>9 DEF DrawFile, mainVars
  <2>3. MainLeft' = MainLeft
    BY <2>2 DEF MainLeft
  <2>4. \A u \in Threads : u # t => at'[u] = at[u]
    BY <1>9 DEF DrawFile, Go, CInv, ConverterTypeOK
  <2>5. \A u \in Threads : u # t => WorkLeft'[u] = WorkLeft[u]
    BY <2>2, <2>4 DEF WorkLeft
  <2>6. W' + WorkLeft[t] = W + WorkLeft'[t]
    BY <1>1, <1>2, <2>5, OneThreadSteps
  <2>7. WorkLeft[t] \in 0..b /\ WorkLeft'[t] \in 0..b
    BY <1>2
  <2> QED
    BY <1>1, <1>2, <2>1, <2>3, <2>6, <2>7
<1> QED
  BY <1>6, <1>7, <1>8, <1>9 DEF ConverterNext, Work, Loop, Exited

\* What is left of the program never grows and shrinks with each of its steps, but for
\* those in a conversion that never returns (Loop), which change nothing: in every finite
\* tree it has ended after as many steps as that, or there is such a conversion (NeverStuck),
\* whichever files and threads fail.
THEOREM ProgramIsBounded ==
  ASSUME FiniteTree
  PROVE  ConverterSpec => [](ProgramLeft \in Nat) /\ [][ProgramLeft' < ProgramLeft]_allVars
<1>1. Init => FinitelyOpen /\ HolderGoesOn
  BY BeginsFree
<1>2. IInv /\ FinitelyOpen /\ HolderGoesOn /\ [Next]_vars => FinitelyOpen' /\ HolderGoesOn'
  BY HolderStep, StepMovesOn
<1>3. CInv => IInv
  BY DEF CInv
<1>4. CInv /\ FinitelyOpen /\ HolderGoesOn => StepsLeft \in Nat /\ WorkAndMainLeft
  BY StepsLeftType, WorkLeftType DEF CInv
<1>5. StepsLeft \in Nat /\ WorkAndMainLeft => ProgramLeft \in Nat
  <2> SUFFICES ASSUME StepsLeft \in Nat, WorkAndMainLeft PROVE ProgramLeft \in Nat
    OBVIOUS
  <2>1. (2 * MaxPackets + 7) * StepsLeft \in Nat
    BY ConverterAssumption
  <2> QED
    BY <2>1 DEF ProgramLeft, WorkAndMainLeft
<1>6. CInv /\ FinitelyOpen /\ HolderGoesOn /\ [ConverterNext]_allVars
        /\ WorkAndMainLeft' /\ (StepsLeft \in Nat)' => [ProgramLeft' < ProgramLeft]_allVars
  BY ProgramGoesOn
<1> QED
  BY <1>1, <1>2, <1>3, <1>4, <1>5, <1>6, ConverterInvariant, ConverterUsesFileList, PTL
  DEF ConverterSpec, Spec
=============================================================================
