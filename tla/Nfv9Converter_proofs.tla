------------------------- MODULE Nfv9Converter_proofs -------------------------
(***************************************************************************)
(* What the NetFlow 9 converter keeps to for any files and any number of   *)
(* threads.  The inductive invariants: a thread's flowset is one of the    *)
(* file's; with the lock of glibc 2.25 and later the reader counter tells  *)
(* how many threads are in the cache and how many templates it holds; in a *)
(* file of plain packets a thread knows where the next packet begins.      *)
(***************************************************************************)
EXTENDS Nfv9Converter, NumberTheorems, FiniteSetTheorems

-----------------------------------------------------------------------------
(* Types, and the templates that are stored.                               *)

Places == {"idle", "version", "packet", "templates", "data", "create", "fields",
           "insert", "get", "crashed"}

Local == [content : Seq(Units), file : Seq(Units), packet : OfKind("packet") \cup {NoPacket},
          count : 0..(CountRange - 1), flowset : Units \cup {NoFlowset},
          operated : Nat, ret : Nat, result : {"OK", "error"}]

NTypes == /\ RwLockTypeOK
          /\ crew \subseteq Threads
          /\ at \in [Threads -> Places]
          /\ local \in [Threads -> Local]

\* A thread in the loop over template records has a template flowset; a template
\* that it is about to store lacks no field.
Record(t) ==
  /\ at[t] \in {"templates", "create", "fields", "insert"} =>
       local[t].flowset \in OfKind("templates")
  /\ at[t] \in {"create", "fields"} => local[t].operated < local[t].flowset.size
  /\ at[t] = "insert" =>
       local[t].flowset.size > FieldSize * local[t].flowset.declared

Recorded == /\ \A t \in Threads : Record(t)
            /\ \A t \in Threads : t \notin crew => at[t] = "idle"
            /\ NoFieldMissing

LEMMA UnitTyping ==
  /\ \A f \in FileContents : f \in Seq(Units)
  /\ \A u \in OfKind("packet") \cup {NoPacket} : u.count \in 0..(CountRange - 1)
  /\ \A u \in OfKind("templates") :
       u \in Units /\ u.declared \in Nat /\ u.size \in Nat
  /\ CountRange \in Nat \ {0}
<1>1. ASSUME NEW f \in FileContents PROVE f \in Seq(Units)
  <2>1. f \in Seq(UnitsOf(f))
    BY Nfv9Assumption
  <2>2. UnitsOf(f) \subseteq Units
    BY DEF Units
  <2> QED
    BY <2>1, <2>2
<1>2. \A u \in OfKind("packet") \cup {NoPacket} : u.count \in 0..(CountRange - 1)
  BY Nfv9Assumption DEF NoPacket
<1>3. \A u \in OfKind("templates") :
        u \in Units /\ u.declared \in Nat /\ u.size \in Nat
  BY Nfv9Assumption DEF OfKind
<1> QED
  BY <1>1, <1>2, <1>3, Nfv9Assumption

\* What is ahead in a file is a unit, and what is behind it a file.
LEMMA UnitAhead ==
  ASSUME NTypes, NEW t \in Threads, local[t].file # <<>>
  PROVE  Head(local[t].file) \in Units /\ Tail(local[t].file) \in Seq(Units)
<1>1. local[t].file \in Seq(Units)
  BY DEF NTypes, Local
<1> QED
  BY <1>1

LEMMA LockTyping ==
  ASSUME RwLockTypeOK
  PROVE  /\ RwUnlock => readers' \in 0..(CounterSize - 1)
         /\ RdLock => readers' \in 0..(CounterSize - 1)
BY CounterWraps, RwLockAssumption DEF RwLockTypeOK, RwUnlock, Unlocked, RdLock

LEMMA Nfv9TypeInit == Init => NTypes
<1> SUFFICES ASSUME Init PROVE NTypes
  OBVIOUS
<1>1. RwLockTypeOK
  BY RwLockAssumption DEF Init, RwLockInit, RwLockTypeOK
<1>2. 0 \in 0..(CountRange - 1) /\ <<>> \in Seq(Units)
  BY UnitTyping
<1>3. local \in [Threads -> Local]
  BY <1>2 DEF Init, Local
<1> QED
  BY <1>1, <1>3 DEF Init, NTypes, Places

\* The fields that are read, at most those that the record declares; all of them
\* when the flowset is long enough and only then.
LEMMA FieldsReadTyping ==
  ASSUME NEW t \in Threads, local[t].flowset \in OfKind("templates"), NEW offset \in Nat
  PROVE  LET s == local[t].flowset
             n == FieldsRead(t, offset)
         IN  /\ n \in 0..s.declared
             /\ n = s.declared /\ s.declared > 0 => s.size > offset + FieldSize * (s.declared - 1)
             /\ s.size = offset + FieldSize * s.declared => n = s.declared
<1>1. local[t].flowset.declared \in Nat /\ local[t].flowset.size \in Nat
  BY UnitTyping
<1> DEFINE s == local[t].flowset
           d == local[t].flowset.declared
           size == local[t].flowset.size
           room == IF offset < size THEN (size - offset + FieldSize - 1) \div FieldSize ELSE 0
<1>2. d \in Nat /\ size \in Nat
  BY <1>1
<1>3. FieldsRead(t, offset) = IF room < d THEN room ELSE d
  BY DEF FieldsRead
<1> HIDE DEF d, size
<1>4. /\ room \in Nat
      /\ room >= d /\ d > 0 => size > offset + FieldSize * (d - 1)
      /\ size = offset + FieldSize * d => room = d
  BY <1>2 DEF FieldSize
<1> HIDE DEF room
<1>5. /\ FieldsRead(t, offset) \in 0..d
      /\ FieldsRead(t, offset) = d /\ d > 0 => size > offset + FieldSize * (d - 1)
      /\ size = offset + FieldSize * d => FieldsRead(t, offset) = d
  BY <1>2, <1>3, <1>4
<1> QED
  BY <1>5 DEF d, size

\* A step of a thread moves that thread, uses the lock in one of its ways and
\* changes what that thread holds.
LEMMA StepShape ==
  ASSUME NEW t \in crew, NTypes, Open(t) \/ Convert(t)
  PROVE  /\ UNCHANGED <<library, crew>>
         /\ UNCHANGED at \/ \E p \in Places : Go(t, p)
         /\ UNCHANGED readers \/ RwUnlock \/ RdLock
<1>1. ASSUME Ahead(t, {"templates", "data"}) PROVE Head(local[t].file).kind \in Places
  BY <1>1 DEF Ahead, Places
<1> QED
  BY <1>1 DEF Open, Convert, Finish, FlowsetDone, shared, Places,
         OpenFile, EndOfFile, ReadPacketHeader, ReadCutHeader, RefuseVersion,
         EndPacket, RefuseFlowset, ReadFlowset, SkipRecord, LockToCreate,
         CreateTemplate, ReadFields, StoreTemplate, MeetKey, EndTemplates,
         LoseTemplate, LockToGet, NoTemplate

LEMMA LocalStep ==
  ASSUME NTypes, NEW t \in crew, \A u \in Threads : Record(u), Open(t) \/ Convert(t)
  PROVE  local' \in [Threads -> Local]
<1> USE DEF NTypes
<1>0. t \in Threads /\ local[t] \in Local
  OBVIOUS
<1>a. ASSUME NEW r \in Local, local' = [local EXCEPT ![t] = r]
      PROVE  local' \in [Threads -> Local]
  BY <1>0, <1>a
<1>b. ASSUME NEW r \in {"OK", "error"}, Finish(t, r) PROVE local' \in [Threads -> Local]
  <2>1. local' = [local EXCEPT ![t] = [local[t] EXCEPT !.result = r]]
    BY <1>b DEF Finish
  <2>2. [local[t] EXCEPT !.result = r] \in Local
    BY <1>0 DEF Local
  <2> QED
    BY <1>a, <2>1, <2>2
<1>c. ASSUME NEW n \in Nat, FlowsetDone(t, n) PROVE local' \in [Threads -> Local]
  <2>1. local' = [local EXCEPT ![t] = [local[t] EXCEPT !.count = (@ + n) % CountRange]]
    BY <1>c DEF FlowsetDone
  <2>2. (local[t].count + n) % CountRange \in 0..(CountRange - 1)
    BY <1>0, UnitTyping DEF Local
  <2>3. [local[t] EXCEPT !.count = (@ + n) % CountRange] \in Local
    BY <1>0, <2>2 DEF Local
  <2> QED
    BY <1>a, <2>1, <2>3
<1>1. CASE OpenFile(t)
  <2>1. PICK f \in FileContents :
         local' = [local EXCEPT ![t].content = f, ![t].file = f]
    BY <1>1 DEF OpenFile
  <2> DEFINE r == [local[t] EXCEPT !.content = f, !.file = f]
  <2>2. local' = [local EXCEPT ![t] = r]
    BY <1>0, <1>1, <2>1 DEF OpenFile, Local
  <2>3. r \in Local
    BY <1>0, <2>1, UnitTyping DEF Local
  <2> QED
    BY <1>a, <2>2, <2>3
<1>2. CASE EndOfFile(t)
  BY <1>b, <1>2 DEF EndOfFile
<1>3. CASE ReadPacketHeader(t)
  <2>1. local[t].file # <<>> /\ Head(local[t].file).kind \in {"packet"}
    BY <1>3 DEF ReadPacketHeader, Ahead
  <2>2. Head(local[t].file) \in Units /\ Tail(local[t].file) \in Seq(Units)
    BY <1>0, <2>1, UnitAhead
  <2> DEFINE r == [local[t] EXCEPT !.packet = Head(local[t].file), !.file = Tail(@),
                                !.count = 0]
  <2>3. local' = [local EXCEPT ![t] = r]
    BY <1>0, <1>3 DEF ReadPacketHeader, Local
  <2>4. Head(local[t].file) \in OfKind("packet") /\ 0 \in 0..(CountRange - 1)
    BY <2>1, <2>2, UnitTyping DEF OfKind
  <2>5. r \in Local
    BY <1>0, <2>2, <2>4 DEF Local
  <2> QED
    BY <1>a, <2>3, <2>5
<1>4. CASE ReadCutHeader(t)
  <2>1. PICK res \in {"OK", "error"} :
         local' = [local EXCEPT ![t].file = <<>>, ![t].result = res]
    BY <1>4 DEF ReadCutHeader
  <2> DEFINE r == [local[t] EXCEPT !.file = <<>>, !.result = res]
  <2>2. local' = [local EXCEPT ![t] = r]
    BY <1>0, <1>4, <2>1 DEF ReadCutHeader, Local
  <2>3. <<>> \in Seq(Units)
    OBVIOUS
  <2>4. r \in Local
    BY <1>0, <2>1, <2>3 DEF Local
  <2> QED
    BY <1>a, <2>2, <2>4
<1>5. CASE RefuseVersion(t)
  BY <1>b, <1>5 DEF RefuseVersion
<1>6. CASE EndPacket(t)
  BY <1>6 DEF EndPacket
<1>7. CASE RefuseFlowset(t)
  BY <1>b, <1>7 DEF RefuseFlowset
<1>8. CASE ReadFlowset(t)
  <2>1. local[t].file # <<>> /\ Head(local[t].file).kind \in {"templates", "data"}
    BY <1>8 DEF ReadFlowset, Ahead
  <2>2. Head(local[t].file) \in Units /\ Tail(local[t].file) \in Seq(Units)
    BY <1>0, <2>1, UnitAhead
  <2> DEFINE r == [local[t] EXCEPT !.flowset = Head(local[t].file), !.file = Tail(@),
                                !.operated = 0, !.ret = 0]
  <2>3. local' = [local EXCEPT ![t] = r]
    BY <1>0, <1>8 DEF ReadFlowset, Local
  <2>4. r \in Local
    BY <1>0, <2>1, <2>2, UnitTyping DEF Local
  <2> QED
    BY <1>a, <2>3, <2>4
<1>9. CASE SkipRecord(t)
  <2>1. local[t].flowset \in OfKind("templates")
    BY <1>0, <1>9 DEF SkipRecord, AtRecord, Record
  <2> DEFINE r == [local[t] EXCEPT
                     !.operated = @ + RecordHeaderSize + FieldSize * local[t].flowset.declared,
                     !.ret = @ + 1]
  <2>2. local' = [local EXCEPT ![t] = r]
    BY <1>0, <1>9 DEF SkipRecord, Local
  <2>3. local[t].flowset.declared \in Nat
    BY <2>1, UnitTyping
  <2>4. local[t].operated \in Nat /\ local[t].ret \in Nat
    BY <1>0 DEF Local
  <2>5. /\ local[t].operated + RecordHeaderSize + FieldSize * local[t].flowset.declared \in Nat
        /\ local[t].ret + 1 \in Nat
    BY <2>3, <2>4 DEF RecordHeaderSize, FieldSize
  <2>6. r \in Local
    BY <1>0, <2>5 DEF Local
  <2> QED
    BY <1>a, <2>2, <2>6
<1>10. CASE LockToCreate(t)
  BY <1>10 DEF LockToCreate
<1>11. CASE CreateTemplate(t)
  BY <1>11 DEF CreateTemplate
<1>12. CASE ReadFields(t)
  <2>1. local[t].flowset \in OfKind("templates")
    BY <1>0, <1>12 DEF ReadFields, Record
  <2> DEFINE n == FieldsRead(t, local[t].operated + RecordHeaderSize)
             complete == n = local[t].flowset.declared
             r == [local[t] EXCEPT !.operated = @ + RecordHeaderSize + FieldSize * n,
                                   !.ret = IF complete THEN @ + 1 ELSE @]
  <2>2. local' = [local EXCEPT ![t] = r]
    BY <1>0, <1>12 DEF ReadFields, Local
  <2>3. /\ local[t].operated \in Nat /\ local[t].ret \in Nat
        /\ local[t].operated + RecordHeaderSize \in Nat
        /\ local[t].flowset.declared \in Nat
    BY <1>0, <2>1, UnitTyping DEF Local, RecordHeaderSize
  <2>4. n \in 0..local[t].flowset.declared
    BY <1>0, <2>1, <2>3, FieldsReadTyping
  <2> HIDE DEF n
  <2>5. /\ local[t].operated + RecordHeaderSize + FieldSize * n \in Nat
        /\ (IF complete THEN local[t].ret + 1 ELSE local[t].ret) \in Nat
    BY <2>3, <2>4 DEF RecordHeaderSize, FieldSize
  <2>6. r \in Local
    BY <1>0, <2>5 DEF Local
  <2> QED
    BY <1>a, <2>2, <2>6
<1>13. CASE StoreTemplate(t)
  BY <1>13 DEF StoreTemplate
<1>14. CASE MeetKey(t)
  BY <1>14 DEF MeetKey
<1>15. CASE EndTemplates(t)
  BY <1>0, <1>c, <1>15 DEF EndTemplates, Local
<1>16. CASE LoseTemplate(t)
  BY <1>0, <1>c, <1>16 DEF LoseTemplate, Local
<1>17. CASE LockToGet(t)
  BY <1>17 DEF LockToGet
<1>18. CASE NoTemplate(t)
  BY <1>0, <1>c, <1>18 DEF NoTemplate, Local
<1> QED
  BY <1>1, <1>2, <1>3, <1>4, <1>5, <1>6, <1>7, <1>8, <1>9, <1>10, <1>11, <1>12,
     <1>13, <1>14, <1>15, <1>16, <1>17, <1>18
     DEF Open, Convert

LEMMA Nfv9TypeStep ==
  ASSUME NTypes, NEW t \in crew, \A u \in Threads : Record(u), Open(t) \/ Convert(t)
  PROVE  NTypes'
<1>1. /\ UNCHANGED <<library, crew>>
      /\ UNCHANGED at \/ \E p \in Places : Go(t, p)
      /\ UNCHANGED readers \/ RwUnlock \/ RdLock
  BY StepShape
<1>2. RwLockTypeOK'
  BY <1>1, LockTyping DEF NTypes, RwLockTypeOK
<1>3. at' \in [Threads -> Places]
  BY <1>1 DEF NTypes, Go
<1> QED
  BY <1>1, <1>2, <1>3, LocalStep DEF NTypes

LEMMA OthersStay ==
  ASSUME NTypes, NEW t \in crew, Open(t) \/ Convert(t), NEW u \in Threads, u # t
  PROVE  at'[u] = at[u] /\ local'[u] = local[u]
BY DEF NTypes, Open, Convert, Finish, FlowsetDone, Go, shared,
         OpenFile, EndOfFile, ReadPacketHeader, ReadCutHeader, RefuseVersion,
         EndPacket, RefuseFlowset, ReadFlowset, SkipRecord, LockToCreate,
         CreateTemplate, ReadFields, StoreTemplate, MeetKey, EndTemplates,
         LoseTemplate, LockToGet, NoTemplate

\* A thread's next record is one of the file's.
LEMMA RecordStep ==
  ASSUME NTypes, NEW t \in crew, \A u \in Threads : Record(u), Open(t) \/ Convert(t)
  PROVE  Record(t)'
<1>0. t \in Threads /\ Record(t)
  BY DEF NTypes
<1>1. CASE OpenFile(t)
  BY <1>0, <1>1 DEF OpenFile, Finish, FlowsetDone, Go, Record, NTypes
<1>2. CASE EndOfFile(t)
  BY <1>0, <1>2 DEF EndOfFile, Finish, FlowsetDone, Go, Record, NTypes
<1>3. CASE ReadPacketHeader(t)
  BY <1>0, <1>3 DEF ReadPacketHeader, Finish, FlowsetDone, Go, Record, NTypes
<1>4. CASE ReadCutHeader(t)
  BY <1>0, <1>4 DEF ReadCutHeader, Finish, FlowsetDone, Go, Record, NTypes
<1>5. CASE RefuseVersion(t)
  BY <1>0, <1>5 DEF RefuseVersion, Finish, FlowsetDone, Go, Record, NTypes
<1>6. CASE EndPacket(t)
  BY <1>0, <1>6 DEF EndPacket, Finish, FlowsetDone, Go, Record, NTypes
<1>7. CASE RefuseFlowset(t)
  BY <1>0, <1>7 DEF RefuseFlowset, Finish, FlowsetDone, Go, Record, NTypes
<1>8. CASE ReadFlowset(t)
  <2>1. local[t].file # <<>> /\ Head(local[t].file).kind \in {"templates", "data"}
    BY <1>8 DEF ReadFlowset, Ahead
  <2>2. Head(local[t].file) \in Units
    BY <1>0, <2>1, UnitAhead
  <2>3. /\ at'[t] = Head(local[t].file).kind
        /\ local'[t].flowset = Head(local[t].file)
    BY <1>0, <1>8 DEF ReadFlowset, Go, NTypes, Local
  <2> QED
    BY <2>1, <2>2, <2>3 DEF Record, OfKind
<1>9. CASE SkipRecord(t)
  BY <1>0, <1>9 DEF SkipRecord, AtRecord, Go, Record, NTypes, Local
<1>10. CASE LockToCreate(t)
  BY <1>0, <1>10 DEF LockToCreate, AtRecord, Go, Record, NTypes, Local
<1>11. CASE CreateTemplate(t)
  BY <1>0, <1>11 DEF CreateTemplate, AtRecord, Go, Record, NTypes, Local
<1>12. CASE ReadFields(t)
  <2> DEFINE n == FieldsRead(t, local[t].operated + RecordHeaderSize)
             d == local[t].flowset.declared
  <2>1. /\ at[t] = "fields" /\ local[t].flowset \in OfKind("templates")
        /\ local[t].operated < local[t].flowset.size
    BY <1>0, <1>12 DEF ReadFields, Record
  <2>2. /\ local[t].operated \in Nat /\ local[t].operated + RecordHeaderSize \in Nat
        /\ d \in Nat /\ local[t].flowset.size \in Nat
    BY <1>0, <2>1, UnitTyping DEF NTypes, Local, RecordHeaderSize
  <2>3. n = d /\ d > 0 =>
          local[t].flowset.size > local[t].operated + RecordHeaderSize + FieldSize * (d - 1)
    BY <1>0, <2>1, <2>2, FieldsReadTyping
  <2>4. n = d => local[t].flowset.size > FieldSize * d
    BY <2>1, <2>2, <2>3 DEF RecordHeaderSize, FieldSize
  <2>5. /\ local'[t].flowset = local[t].flowset
        /\ at'[t] = IF n = d THEN "insert" ELSE "templates"
    BY <1>0, <1>12 DEF ReadFields, Go, NTypes, Local
  <2> HIDE DEF n
  <2> QED
    BY <2>1, <2>4, <2>5 DEF Record
<1>13. CASE StoreTemplate(t)
  BY <1>0, <1>13 DEF StoreTemplate, AtRecord, Go, Record, NTypes, Local
<1>14. CASE MeetKey(t)
  BY <1>0, <1>14 DEF MeetKey, Finish, FlowsetDone, Go, Record, NTypes
<1>15. CASE EndTemplates(t)
  BY <1>0, <1>15 DEF EndTemplates, Finish, FlowsetDone, Go, Record, NTypes
<1>16. CASE LoseTemplate(t)
  BY <1>0, <1>16 DEF LoseTemplate, Finish, FlowsetDone, Go, Record, NTypes
<1>17. CASE LockToGet(t)
  BY <1>0, <1>17 DEF LockToGet, Finish, FlowsetDone, Go, Record, NTypes
<1>18. CASE NoTemplate(t)
  BY <1>0, <1>18 DEF NoTemplate, Finish, FlowsetDone, Go, Record, NTypes
<1> QED
  BY <1>1, <1>2, <1>3, <1>4, <1>5, <1>6, <1>7, <1>8, <1>9, <1>10, <1>11, <1>12,
     <1>13, <1>14, <1>15, <1>16, <1>17, <1>18
     DEF Open, Convert

LEMMA CacheGrows ==
  ASSUME NEW t \in crew, Open(t) \/ Convert(t)
  PROVE  UNCHANGED cache \/ (StoreTemplate(t) /\ cache' = cache \cup {Key(t)})
BY DEF Open, Convert, shared,
         OpenFile, EndOfFile, ReadPacketHeader, ReadCutHeader, RefuseVersion,
         EndPacket, RefuseFlowset, ReadFlowset, SkipRecord, LockToCreate,
         CreateTemplate, ReadFields, StoreTemplate, MeetKey, EndTemplates,
         LoseTemplate, LockToGet, NoTemplate, Finish, FlowsetDone

LEMMA RecordedStep ==
  ASSUME NTypes, Recorded, NEW t \in crew, Open(t) \/ Convert(t)
  PROVE  Recorded'
<1>1. \A u \in Threads : Record(u)'
  BY OthersStay, RecordStep DEF Recorded, Record
<1>2. \A u \in Threads : u \notin crew' => at'[u] = "idle"
  BY OthersStay, StepShape DEF Recorded
<1>3. NoFieldMissing'
  <2>1. CASE UNCHANGED cache
    BY <2>1 DEF Recorded, NoFieldMissing
  <2>2. CASE StoreTemplate(t) /\ cache' = cache \cup {Key(t)}
    <3>1. /\ at[t] = "insert" /\ local[t].flowset \in OfKind("templates")
          /\ local[t].flowset.size > FieldSize * local[t].flowset.declared
      BY <2>2 DEF StoreTemplate, Recorded, Record, NTypes
    <3>3. Missing(local[t].flowset) < FieldSize
      BY <3>1, UnitTyping DEF Missing, RecordHeaderSize, FieldSize
    <3>2. Key(t)[2] = local[t].flowset.id
      BY DEF Key
    <3> QED
      BY <2>2, <3>1, <3>2, <3>3 DEF Recorded, NoFieldMissing
  <2> QED
    BY <2>1, <2>2, CacheGrows
<1> QED
  BY <1>1, <1>2, <1>3 DEF Recorded

LEMMA RecordedInvariant == Spec => [](NTypes /\ Recorded)
<1>1. Init => NTypes /\ Recorded
  <2> SUFFICES ASSUME Init PROVE Recorded
    BY Nfv9TypeInit
  <2> QED
    BY DEF Init, Recorded, Record, NoFieldMissing
<1>2. NTypes /\ Recorded /\ [Next]_vars => (NTypes /\ Recorded)'
  <2> SUFFICES ASSUME NTypes, Recorded, [Next]_vars PROVE (NTypes /\ Recorded)'
    OBVIOUS
  <2>1. CASE UNCHANGED vars
    BY <2>1 DEF vars, NTypes, RwLockTypeOK, Recorded, Record, NoFieldMissing
  <2>2. ASSUME NEW t \in crew, Open(t) \/ Convert(t) PROVE (NTypes /\ Recorded)'
    BY <2>2, Nfv9TypeStep, RecordedStep DEF Recorded
  <2> QED
    BY <2>1, <2>2 DEF Next, Halted
<1> QED
  BY <1>1, <1>2, PTL DEF Spec

\* No template is in the cache of which a whole field was missing, whatever the sizes
\* of the flowsets are.
THEOREM NoFieldIsMissing == Spec => []NoFieldMissing
<1> QED
  BY RecordedInvariant, PTL DEF Recorded

-----------------------------------------------------------------------------
(* The lock of glibc 2.25 and later: the reader counter is the number of    *)
(* threads between lock and unlock less what the templates that were stored *)
(* have taken from it.                                                      *)

NumThreads == Cardinality(Threads)

Num(S) == Cardinality({t \in Threads : at[t] \in S})

Inside == {"create", "get"}
Storing == {"insert"}
Underway == {"create", "fields", "insert"}

Balance == Num(Inside) - Num(Storing) - 2 * Cardinality(cache)

Counts(b) == readers = IF b >= 0 THEN b ELSE b + CounterSize

\* There are at most twice as many templates as threads.
Counted == library = "new" /\ ~Crashed =>
             /\ IsFiniteSet(cache)
             /\ Cardinality(cache) + Num(Underway) <= 2 * NumThreads
             /\ Counts(Balance)

\* A thread alone gets into the cache only as long as it is empty.
LonelyFirst == library = "new" /\ Alone =>
                 /\ ~Crashed
                 /\ \A t \in crew : at[t] \in Inside \cup Underway => cache = {}

LEMMA Part ==
  ASSUME NEW f, NEW S
  PROVE  /\ IsFiniteSet({t \in Threads : f[t] \in S})
         /\ Cardinality({t \in Threads : f[t] \in S}) \in 0..NumThreads
         /\ NumThreads \in Nat
<1>1. IsFiniteSet(Threads)
  BY Nfv9Assumption
<1>2. {t \in Threads : f[t] \in S} \in SUBSET Threads
  OBVIOUS
<1>3. /\ IsFiniteSet({t \in Threads : f[t] \in S})
      /\ Cardinality({t \in Threads : f[t] \in S}) <= Cardinality(Threads)
  BY <1>1, <1>2, FS_Subset
<1> QED
  BY <1>1, <1>3, FS_CardinalityType DEF NumThreads

LEMMA NumTyping ==
  ASSUME NEW S
  PROVE  Num(S) \in 0..NumThreads /\ Num(S)' \in 0..NumThreads /\ NumThreads \in Nat
BY Part DEF Num

\* A thread that moves leaves one set and enters another.
LEMMA NumMoves ==
  ASSUME at \in [Threads -> Places], NEW t \in Threads, NEW p,
         at' = [at EXCEPT ![t] = p], NEW S
  PROVE  Num(S)' = Num(S) + (IF p \in S THEN 1 ELSE 0) - (IF at[t] \in S THEN 1 ELSE 0)
<1> DEFINE A == {u \in Threads : at[u] \in S}
           B == {u \in Threads : at'[u] \in S}
<1>1. at'[t] = p /\ \A u \in Threads : u # t => at'[u] = at[u]
  OBVIOUS
<1>2. IsFiniteSet(A) /\ Cardinality(A) \in Nat
  <2>1. IsFiniteSet(A)
    BY Part
  <2> QED
    BY <2>1, FS_CardinalityType
<1>3. Num(S) = Cardinality(A) /\ Num(S)' = Cardinality(B)
  BY DEF Num
<1>4. CASE at[t] \in S /\ p \in S
  <2>1. A = B
    BY <1>1, <1>4
  <2> HIDE DEF A, B
  <2> QED
    BY <1>2, <1>3, <1>4, <2>1
<1>5. CASE at[t] \notin S /\ p \notin S
  <2>1. A = B
    BY <1>1, <1>5
  <2> HIDE DEF A, B
  <2> QED
    BY <1>2, <1>3, <1>5, <2>1
<1>6. CASE at[t] \in S /\ p \notin S
  <2>1. B = A \ {t} /\ t \in A
    BY <1>1, <1>6
  <2> HIDE DEF A, B
  <2>2. Cardinality(B) = Cardinality(A) - 1
    BY <1>2, <2>1, FS_RemoveElement
  <2> QED
    BY <1>2, <1>3, <1>6, <2>2
<1>7. CASE at[t] \notin S /\ p \in S
  <2>1. B = A \cup {t} /\ t \notin A
    BY <1>1, <1>7
  <2> HIDE DEF A, B
  <2>2. Cardinality(B) = Cardinality(A) + 1
    BY <1>2, <2>1, FS_AddElement
  <2> QED
    BY <1>2, <1>3, <1>7, <2>2
<1> QED
  BY <1>4, <1>5, <1>6, <1>7

\* The counter follows the balance while it is far from half its range; a reader
\* is refused as soon as the balance is below minus one.
LEMMA CounterFollows ==
  ASSUME RwLockTypeOK, NEW b \in Int, Threads # {},
         -5 * NumThreads <= b, b <= NumThreads, Counts(b)
  PROVE  /\ RwUnlock => Counts(b - 1)'
         /\ RdLock /\ ~RdLockFails => Counts(b + 1)'
         /\ library = "new" /\ b <= -2 => RdLockFails
<1>1. NumThreads \in Nat /\ NumThreads > 0 /\ 10 * NumThreads <= CounterSize
  BY Nfv9Assumption, FS_CardinalityType, FS_EmptySet DEF NumThreads
<1>2. CounterSize \in Nat /\ CounterSize > 1 /\ readers \in 0..(CounterSize - 1)
  BY RwLockAssumption DEF RwLockTypeOK
<1>3. /\ (readers + 1) % CounterSize = IF readers = CounterSize - 1 THEN 0 ELSE readers + 1
      /\ (readers - 1) % CounterSize = IF readers = 0 THEN CounterSize - 1 ELSE readers - 1
  BY <1>2, CounterWraps
<1>4. RwUnlock => Counts(b - 1)'
  BY <1>1, <1>2, <1>3 DEF RwUnlock, Unlocked, Counts
<1>5. RdLock /\ ~RdLockFails => Counts(b + 1)'
  BY <1>1, <1>2, <1>3 DEF RdLock, Counts
<1>6. ASSUME library = "new", b <= -2 PROVE RdLockFails
  <2>1. readers = b + CounterSize /\ readers # CounterSize - 1
    BY <1>2, <1>6 DEF Counts
  <2>2. readers + 1 >= CounterSize \div 2
    BY <1>1, <1>2, <2>1
  <2> QED
    BY <1>3, <1>6, <2>1, <2>2 DEF RdLockFails
<1> QED
  BY <1>4, <1>5, <1>6

LEMMA BalanceBounds ==
  ASSUME IsFiniteSet(cache), Cardinality(cache) + Num(Underway) <= 2 * NumThreads
  PROVE  /\ Cardinality(cache) \in Nat /\ Balance \in Int
         /\ -5 * NumThreads <= Balance /\ Balance <= NumThreads
<1>1. Cardinality(cache) \in Nat
  BY FS_CardinalityType
<1>2. /\ Num(Inside) \in 0..NumThreads /\ Num(Storing) \in 0..NumThreads
      /\ Num(Underway) \in 0..NumThreads /\ NumThreads \in Nat
  BY NumTyping
<1> QED
  BY <1>1, <1>2 DEF Balance

\* What a step does to the lock, to the cache and to the threads in it.
Unmoved == /\ UNCHANGED <<Num(Inside), Num(Storing)>>
           /\ Num(Underway)' \in {Num(Underway), Num(Underway) - 1}

LEMMA LockStep ==
  ASSUME NTypes, NEW t \in crew, Open(t) \/ Convert(t)
  PROVE  \/ Crashed'
         \/ UNCHANGED <<readers, cache>> /\ Unmoved
         \/ /\ RdLock /\ ~RdLockFails /\ UNCHANGED cache
            /\ Num(Inside)' = Num(Inside) + 1 /\ UNCHANGED Num(Storing)
            /\ Num(Underway)' \in {Num(Underway), Num(Underway) + 1}
         \/ /\ RwUnlock /\ UNCHANGED cache
            /\ Num(Inside)' - Num(Storing)' = Num(Inside) - Num(Storing) - 1
            /\ UNCHANGED Num(Underway)
         \/ /\ RwUnlock /\ Key(t) \notin cache /\ cache' = cache \cup {Key(t)}
            /\ UNCHANGED Num(Inside) /\ Num(Storing)' = Num(Storing) - 1
            /\ Num(Underway)' = Num(Underway) - 1
<1>0. /\ t \in Threads /\ at \in [Threads -> Places]
      /\ Num(Inside) \in Nat /\ Num(Storing) \in Nat /\ Num(Underway) \in Nat
  <2>1. \A S : Num(S) \in Nat
    BY NumTyping
  <2> QED
    BY <2>1 DEF NTypes
<1>1. ASSUME NEW p, Go(t, p), NEW S
      PROVE  Num(S)' = Num(S) + (IF p \in S THEN 1 ELSE 0) - (IF at[t] \in S THEN 1 ELSE 0)
  BY <1>0, <1>1, NumMoves DEF Go
<1>2. ASSUME UNCHANGED at, NEW S PROVE Num(S)' = Num(S)
  BY <1>2 DEF Num
<1>3. ASSUME NEW p \in {"idle", "version", "packet", "templates", "data"}, Go(t, p),
             at[t] \notin Inside \cup Storing, UNCHANGED <<readers, cache>>
      PROVE  UNCHANGED <<readers, cache>> /\ Unmoved
  <2>1. /\ p \notin Inside /\ p \notin Storing /\ p \notin Underway
        /\ at[t] \notin Inside /\ at[t] \notin Storing
    BY <1>3 DEF Inside, Storing, Underway
  <2>2. /\ Num(Inside)' = Num(Inside) + 0 - 0 /\ Num(Storing)' = Num(Storing) + 0 - 0
        /\ Num(Underway)' = Num(Underway) + 0 - (IF at[t] \in Underway THEN 1 ELSE 0)
    BY <1>1, <1>3, <2>1
  <2> QED
    BY <1>0, <1>3, <2>2 DEF Unmoved
<1>4. CASE \/ OpenFile(t) \/ EndOfFile(t) \/ ReadPacketHeader(t) \/ ReadCutHeader(t)
           \/ RefuseVersion(t) \/ EndPacket(t) \/ RefuseFlowset(t) \/ ReadFlowset(t)
           \/ EndTemplates(t) \/ LoseTemplate(t)
  BY <1>3, <1>4 DEF OpenFile, EndOfFile, ReadPacketHeader, ReadCutHeader, RefuseVersion,
           EndPacket, RefuseFlowset, ReadFlowset, EndTemplates, LoseTemplate, Ahead, Finish,
           FlowsetDone, shared, Inside, Storing
<1>5. CASE SkipRecord(t)
  BY <1>2, <1>5 DEF SkipRecord, shared, Unmoved
<1>6. CASE MeetKey(t)
  BY <1>0, <1>6 DEF MeetKey, Go, Crashed
<1>7. CASE LockToCreate(t)
  <2>1. Go(t, "create") /\ at[t] = "templates"
    BY <1>7 DEF LockToCreate, AtRecord
  <2>2. /\ Num(Inside)' = Num(Inside) + 1 - 0 /\ Num(Storing)' = Num(Storing) + 0 - 0
        /\ Num(Underway)' = Num(Underway) + 1 - 0
    BY <1>1, <2>1 DEF Inside, Storing, Underway
  <2> QED
    BY <1>0, <1>7, <2>2 DEF LockToCreate
<1>8. CASE LockToGet(t)
  <2>1. Go(t, "get") /\ at[t] = "data"
    BY <1>8 DEF LockToGet
  <2>2. /\ Num(Inside)' = Num(Inside) + 1 - 0 /\ Num(Storing)' = Num(Storing) + 0 - 0
        /\ Num(Underway)' = Num(Underway) + 0 - 0
    BY <1>1, <2>1 DEF Inside, Storing, Underway
  <2> QED
    BY <1>0, <1>8, <2>2 DEF LockToGet
<1>9. CASE CreateTemplate(t)
  <2>1. Go(t, "fields") /\ at[t] = "create"
    BY <1>9 DEF CreateTemplate
  <2>2. /\ Num(Inside)' = Num(Inside) + 0 - 1 /\ Num(Storing)' = Num(Storing) + 0 - 0
        /\ Num(Underway)' = Num(Underway) + 1 - 1
    BY <1>1, <2>1 DEF Inside, Storing, Underway
  <2> QED
    BY <1>0, <1>9, <2>2 DEF CreateTemplate
<1>10. CASE ReadFields(t)
  <2>1. at[t] = "fields" /\ UNCHANGED cache
        /\ \/ RwUnlock /\ Go(t, "insert")
           \/ UNCHANGED readers /\ Go(t, "templates")
    BY <1>10 DEF ReadFields
  <2>2. CASE RwUnlock /\ Go(t, "insert")
    <3>1. /\ Num(Inside)' = Num(Inside) + 0 - 0 /\ Num(Storing)' = Num(Storing) + 1 - 0
          /\ Num(Underway)' = Num(Underway) + 1 - 1
      BY <1>1, <2>1, <2>2 DEF Inside, Storing, Underway
    <3> QED
      BY <1>0, <2>1, <2>2, <3>1
  <2>3. CASE UNCHANGED readers /\ Go(t, "templates")
    BY <1>3, <2>1, <2>3 DEF Inside, Storing
  <2> QED
    BY <2>1, <2>2, <2>3
<1>11. CASE StoreTemplate(t)
  <2>1. Go(t, "templates") /\ at[t] = "insert"
    BY <1>11 DEF StoreTemplate
  <2>2. /\ Num(Inside)' = Num(Inside) + 0 - 0 /\ Num(Storing)' = Num(Storing) + 0 - 1
        /\ Num(Underway)' = Num(Underway) + 0 - 1
    BY <1>1, <2>1 DEF Inside, Storing, Underway
  <2> QED
    BY <1>0, <1>11, <2>2 DEF StoreTemplate
<1>12. CASE NoTemplate(t)
  <2>1. Go(t, "version") /\ at[t] = "get"
    BY <1>12 DEF NoTemplate, FlowsetDone
  <2>2. /\ Num(Inside)' = Num(Inside) + 0 - 1 /\ Num(Storing)' = Num(Storing) + 0 - 0
        /\ Num(Underway)' = Num(Underway) + 0 - 0
    BY <1>1, <2>1 DEF Inside, Storing, Underway
  <2> QED
    BY <1>0, <1>12, <2>2 DEF NoTemplate
<1> QED
  BY <1>4, <1>5, <1>6, <1>7, <1>8, <1>9, <1>10, <1>11, <1>12 DEF Open, Convert

LEMMA CountedStep ==
  ASSUME NTypes, Counted, NEW t \in crew, Open(t) \/ Convert(t)
  PROVE  Counted'
<1> SUFFICES ASSUME library = "new", ~Crashed'
             PROVE  /\ IsFiniteSet(cache')
                    /\ Cardinality(cache') + Num(Underway)' <= 2 * NumThreads
                    /\ Counts(Balance)'
  BY StepShape DEF Counted
<1>1. ~Crashed
  BY DEF Open, Convert
<1>2. /\ IsFiniteSet(cache) /\ Cardinality(cache) + Num(Underway) <= 2 * NumThreads
      /\ Counts(Balance)
  BY <1>1 DEF Counted
<1>3. /\ Cardinality(cache) \in Nat /\ Balance \in Int
      /\ -5 * NumThreads <= Balance /\ Balance <= NumThreads
  BY <1>2, BalanceBounds
<1>4. PICK b \in Int : b = Balance
  BY <1>3
<1>5. /\ RwUnlock => Counts(b - 1)'
      /\ RdLock /\ ~RdLockFails => Counts(b + 1)'
      /\ b <= -2 => RdLockFails
  BY <1>2, <1>3, <1>4, CounterFollows DEF NTypes
<1>6. /\ Num(Inside) \in 0..NumThreads /\ Num(Storing) \in 0..NumThreads
      /\ Num(Underway) \in 0..NumThreads
      /\ Num(Inside)' \in 0..NumThreads /\ Num(Storing)' \in 0..NumThreads
      /\ Num(Underway)' \in 0..NumThreads /\ NumThreads \in Nat /\ NumThreads > 0
  <2>1. Threads # {} /\ IsFiniteSet(Threads)
    BY Nfv9Assumption DEF NTypes
  <2>2. NumThreads \in Nat /\ NumThreads # 0
    BY <2>1, FS_CardinalityType, FS_EmptySet DEF NumThreads
  <2> QED
    BY <2>2, NumTyping
<1>7. CASE UNCHANGED <<readers, cache>> /\ Unmoved
  <2>1. Balance' = Balance
    BY <1>7 DEF Balance, Unmoved
  <2> QED
    BY <1>2, <1>3, <1>6, <1>7, <2>1 DEF Counts, Unmoved
<1>8. CASE /\ RdLock /\ ~RdLockFails /\ UNCHANGED cache
           /\ Num(Inside)' = Num(Inside) + 1 /\ UNCHANGED Num(Storing)
           /\ Num(Underway)' \in {Num(Underway), Num(Underway) + 1}
  <2>1. Balance' = b + 1
    BY <1>3, <1>4, <1>6, <1>8 DEF Balance
  <2>2. Counts(b + 1)'
    BY <1>5, <1>8
  <2>3. b >= -1
    BY <1>5, <1>8
  <2>4. Cardinality(cache) <= NumThreads
    BY <1>3, <1>4, <1>6, <1>8, <2>3 DEF Balance
  <2> QED
    BY <1>2, <1>3, <1>6, <1>8, <2>1, <2>2, <2>4 DEF Counts
<1>9. CASE /\ RwUnlock /\ UNCHANGED cache
           /\ Num(Inside)' - Num(Storing)' = Num(Inside) - Num(Storing) - 1
           /\ UNCHANGED Num(Underway)
  <2>1. Balance' = b - 1
    BY <1>3, <1>4, <1>6, <1>9 DEF Balance
  <2>2. Counts(b - 1)'
    BY <1>5, <1>9
  <2> QED
    BY <1>2, <1>9, <2>1, <2>2 DEF Counts
<1>10. CASE /\ RwUnlock /\ Key(t) \notin cache /\ cache' = cache \cup {Key(t)}
            /\ UNCHANGED Num(Inside) /\ Num(Storing)' = Num(Storing) - 1
            /\ Num(Underway)' = Num(Underway) - 1
  <2>1. IsFiniteSet(cache') /\ Cardinality(cache') = Cardinality(cache) + 1
    BY <1>2, <1>10, FS_AddElement
  <2>2. Balance' = b - 1
    BY <1>3, <1>4, <1>6, <1>10, <2>1 DEF Balance
  <2>3. Counts(b - 1)'
    BY <1>5, <1>10
  <2> QED
    BY <1>2, <1>3, <1>6, <1>10, <2>1, <2>2, <2>3 DEF Counts
<1> QED
  BY <1>7, <1>8, <1>9, <1>10, LockStep

LEMMA LonelyStep ==
  ASSUME NTypes, Recorded, Counted, LonelyFirst, NEW t \in crew, Open(t) \/ Convert(t)
  PROVE  LonelyFirst'
<1> SUFFICES ASSUME library = "new", Alone
             PROVE  /\ ~Crashed'
                    /\ \A u \in crew : at'[u] \in Inside \cup Underway => cache' = {}
  BY StepShape DEF LonelyFirst, Alone
<1>0. crew = {t} /\ t \in Threads /\ ~Crashed
  BY DEF Alone, NTypes, LonelyFirst
<1>1. at[t] \in Inside \cup Underway => cache = {}
  BY DEF LonelyFirst
<1>2. \A u \in Threads : u # t => at[u] = "idle" /\ at'[u] = "idle"
  BY <1>0, OthersStay DEF Recorded
<1>3. ASSUME ~RdLockFails, at[t] \notin Inside \cup Underway PROVE cache = {}
  <2>1. \A S : "idle" \notin S /\ at[t] \notin S => Num(S) = 0
    <3>1. ASSUME NEW S, "idle" \notin S, at[t] \notin S PROVE Num(S) = 0
      <4>1. {u \in Threads : at[u] \in S} = {}
        BY <1>2, <3>1
      <4> QED
        BY <4>1, FS_EmptySet DEF Num
    <3> QED
      BY <3>1
  <2>2. Num(Inside) = 0 /\ Num(Storing) = 0
    BY <1>3, <2>1 DEF Inside, Storing, Underway
  <2>3. /\ IsFiniteSet(cache) /\ Counts(Balance)
        /\ Cardinality(cache) + Num(Underway) <= 2 * NumThreads
    BY <1>0 DEF Counted
  <2>4. /\ Cardinality(cache) \in Nat /\ Balance \in Int
        /\ -5 * NumThreads <= Balance /\ Balance <= NumThreads
    BY <2>3, BalanceBounds
  <2>5. PICK b \in Int : b = Balance
    BY <2>4
  <2>6. ~(b <= -2)
    BY <1>0, <1>3, <2>3, <2>4, <2>5, CounterFollows DEF NTypes
  <2>7. Cardinality(cache) = 0
    BY <2>2, <2>4, <2>5, <2>6 DEF Balance
  <2> QED
    BY <2>3, <2>7, FS_EmptySet
<1>4. at'[t] # "crashed"
  <2>1. ~MeetKey(t)
    BY <1>1 DEF MeetKey, Inside, Underway
  <2>2. CASE UNCHANGED at
    BY <1>0, <2>2 DEF Crashed
  <2>3. CASE \E p \in Places \ {"crashed"} : Go(t, p)
    BY <1>0, <2>3 DEF Go, NTypes
  <2>4. Ahead(t, {"templates", "data"}) => Head(local[t].file).kind \in Places \ {"crashed"}
    BY DEF Ahead, Places
  <2> QED
    BY <2>1, <2>2, <2>3, <2>4
       DEF Places, Open, Convert, OpenFile, EndOfFile, ReadPacketHeader, ReadCutHeader,
           RefuseVersion, EndPacket, RefuseFlowset, ReadFlowset, SkipRecord, LockToCreate,
           CreateTemplate, ReadFields, StoreTemplate, EndTemplates, LoseTemplate, LockToGet,
           NoTemplate, Finish, FlowsetDone
<1>5. ~Crashed'
  BY <1>2, <1>4 DEF Crashed
<1>6. at'[t] \in Inside \cup Underway => cache' = {}
  <2>1. CASE LockToCreate(t) \/ LockToGet(t)
    <3>1. ~RdLockFails /\ at[t] \notin Inside \cup Underway /\ UNCHANGED cache
      BY <2>1 DEF LockToCreate, LockToGet, AtRecord, Inside, Underway
    <3> QED
      BY <1>3, <3>1
  <2>2. CASE CreateTemplate(t) \/ ReadFields(t)
    <3>1. at[t] \in Underway /\ UNCHANGED cache
      BY <2>2 DEF CreateTemplate, ReadFields, Underway
    <3> QED
      BY <1>1, <3>1
  <2>3. CASE \E p \in Places \ (Inside \cup Underway) : Go(t, p)
    BY <1>0, <2>3 DEF Go, NTypes
  <2>4. CASE SkipRecord(t)
    BY <1>1, <2>4 DEF SkipRecord, shared
  <2>5. Ahead(t, {"templates", "data"}) =>
          Head(local[t].file).kind \in Places \ (Inside \cup Underway)
    BY DEF Ahead, Places, Inside, Underway
  <2>6. /\ "idle" \in Places \ (Inside \cup Underway)
        /\ "version" \in Places \ (Inside \cup Underway)
        /\ "packet" \in Places \ (Inside \cup Underway)
        /\ "templates" \in Places \ (Inside \cup Underway)
        /\ "crashed" \in Places \ (Inside \cup Underway)
    BY DEF Places, Inside, Underway
  <2> QED
    BY <2>1, <2>2, <2>3, <2>4, <2>5, <2>6
       DEF Open, Convert, OpenFile, EndOfFile, ReadPacketHeader, ReadCutHeader,
           RefuseVersion, EndPacket, RefuseFlowset, ReadFlowset, MeetKey,
           StoreTemplate, EndTemplates, LoseTemplate, NoTemplate, Finish, FlowsetDone
<1> QED
  BY <1>0, <1>5, <1>6

NInv == NTypes /\ Recorded /\ Counted /\ LonelyFirst

\* The converter threads keep NInv, whatever their files hold.
THEOREM Nfv9Invariant == Spec => []NInv
<1>1. Init => NInv
  <2> SUFFICES ASSUME Init PROVE NInv
    OBVIOUS
  <2>1. NTypes
    BY Nfv9TypeInit
  <2>2. Recorded
    BY DEF Init, Recorded, Record, NoFieldMissing
  <2>3. Num(Inside) = 0 /\ Num(Storing) = 0 /\ Num(Underway) = 0
    <3>1. ASSUME NEW S, "idle" \notin S PROVE Num(S) = 0
      <4>1. {u \in Threads : at[u] \in S} = {}
        BY <3>1 DEF Init
      <4> QED
        BY <4>1, FS_EmptySet DEF Num
    <3> QED
      BY <3>1 DEF Inside, Storing, Underway
  <2>4. IsFiniteSet(cache) /\ Cardinality(cache) = 0
    BY FS_EmptySet DEF Init
  <2>5. Counted
    BY <2>3, <2>4, NumTyping DEF Counted, Counts, Balance, Init, RwLockInit
  <2>6. LonelyFirst
    BY <2>1 DEF LonelyFirst, Init, Crashed
  <2> QED
    BY <2>1, <2>2, <2>5, <2>6 DEF NInv
<1>2. NInv /\ [Next]_vars => NInv'
  <2> SUFFICES ASSUME NInv, [Next]_vars PROVE NInv'
    OBVIOUS
  <2> USE DEF NInv
  <2>1. CASE UNCHANGED vars
    <3>1. UNCHANGED <<readers, library, crew, cache, at, local>>
      BY <2>1 DEF vars
    <3>2. Counted'
      BY <3>1 DEF Counted, Crashed, Counts, Balance, Num
    <3>3. NTypes' /\ Recorded' /\ LonelyFirst'
      BY <3>1 DEF NTypes, RwLockTypeOK, Recorded, Record, NoFieldMissing, LonelyFirst,
           Alone, Crashed
    <3> QED
      BY <3>2, <3>3
  <2>2. ASSUME NEW t \in crew, Open(t) \/ Convert(t) PROVE NInv'
    BY <2>2, Nfv9TypeStep, RecordedStep, CountedStep, LonelyStep DEF Recorded
  <2> QED
    BY <2>1, <2>2 DEF Next, Halted
<1> QED
  BY <1>1, <1>2, PTL DEF Spec

\* One thread with the lock of glibc 2.25 and later never looks for a key that the
\* cache holds.
THEOREM LoneThreadSafe == Spec => []NoNullKeyCompared
<1>1. NInv => NoNullKeyCompared
  BY DEF NInv, LonelyFirst, NoNullKeyCompared
<1> QED
  BY <1>1, Nfv9Invariant, PTL

\* With any number of threads this lock refuses every reader as soon as a template
\* is stored and no thread is inside the cache.
THEOREM CacheIsShut == Spec => []ReadersRefused
<1>1. NInv => ReadersRefused
  <2> SUFFICES ASSUME NInv, library = "new", cache # {}, ~Crashed,
                      \A t \in crew : at[t] \notin {"create", "insert", "get"}
               PROVE  RdLockFails
    BY DEF ReadersRefused
  <2>1. \A t \in Threads : at[t] \notin {"create", "insert", "get"}
    BY DEF NInv, Recorded
  <2>2. Num(Inside) = 0 /\ Num(Storing) = 0
    <3>1. /\ {u \in Threads : at[u] \in Inside} = {}
          /\ {u \in Threads : at[u] \in Storing} = {}
      BY <2>1 DEF Inside, Storing
    <3> QED
      BY <3>1, FS_EmptySet DEF Num
  <2>3. /\ IsFiniteSet(cache) /\ Counts(Balance)
        /\ Cardinality(cache) + Num(Underway) <= 2 * NumThreads
    BY DEF NInv, Counted
  <2>4. /\ Cardinality(cache) \in Nat /\ Balance \in Int
        /\ -5 * NumThreads <= Balance /\ Balance <= NumThreads
    BY <2>3, BalanceBounds
  <2>5. Cardinality(cache) # 0
    BY <2>3, FS_EmptySet
  <2>6. PICK b \in Int : b = Balance
    BY <2>4
  <2>7. b <= -2
    BY <2>2, <2>4, <2>5, <2>6 DEF Balance
  <2>8. Threads # {}
    <3>1. CASE Threads = {}
      <4>1. NumThreads = 0
        BY <3>1, FS_EmptySet DEF NumThreads
      <4> QED
        BY <2>4, <2>6, <2>7, <4>1
    <3> QED
      BY <3>1
  <2> QED
    BY <2>3, <2>4, <2>6, <2>7, <2>8, CounterFollows DEF NInv, NTypes
<1> QED
  BY <1>1, Nfv9Invariant, PTL

-----------------------------------------------------------------------------
(* Plain files: a thread always knows where the next packet begins.         *)

\* What follows the template record of a packet that announces n records.
AfterOne(f, i, n) == \/ n = 1 /\ PacketEnds(f, i)
                     \/ n > 1 /\ DataLast(f, i)

\* A thread that has come to the i-th unit of the file f.
Reads(t, f, i) ==
  LET l == local[t] IN
  /\ l.file = SubSeq(f, i, Len(f))
  /\ at[t] \in {"version", "data", "get"} => PacketEnds(f, i)
  /\ at[t] = "packet" =>
       \/ l.count = 0 /\ i > 1 /\ l.packet = f[i - 1] /\ PlainFrom(f, i - 1)
       \/ l.count = 1 /\ AfterOne(f, i, l.packet.count)
  /\ at[t] \in {"templates", "create", "fields", "insert"} =>
       /\ l.count = 0 /\ AfterOne(f, i, l.packet.count)
       /\ l.flowset.size = RecordHeaderSize + FieldSize * l.flowset.declared
       /\ \/ l.operated = 0 /\ l.ret = 0 /\ at[t] # "insert"
          \/ /\ l.operated = l.flowset.size /\ l.ret = 1
             /\ at[t] \in {"templates", "insert"}

Keeping(t) ==
  at[t] \notin {"idle", "crashed"} /\ Plain(local[t].content) =>
    \E i \in 1..(Len(local[t].content) + 1) : Reads(t, local[t].content, i)

LEMMA Suffix ==
  ASSUME NEW f \in Seq(Units), NEW i \in 1..(Len(f) + 1)
  PROVE  /\ SubSeq(f, 1, Len(f)) = f
         /\ i = Len(f) + 1 => SubSeq(f, i, Len(f)) = <<>>
         /\ i <= Len(f) => /\ SubSeq(f, i, Len(f)) # <<>>
                           /\ Head(SubSeq(f, i, Len(f))) = f[i] /\ f[i] \in Units
                           /\ Tail(SubSeq(f, i, Len(f))) = SubSeq(f, i + 1, Len(f))
                           /\ i + 1 \in 1..(Len(f) + 1)
OBVIOUS

LEMMA OpenKeeps ==
  ASSUME NTypes, NEW t \in crew, OpenFile(t)
  PROVE  Keeping(t)'
<1>0. t \in Threads /\ local[t] \in Local
  BY DEF NTypes
<1>1. PICK f \in FileContents :
        local' = [local EXCEPT ![t].content = f, ![t].file = f]
  BY DEF OpenFile
<1>2. f \in Seq(Units)
  BY UnitTyping
<1>3. local'[t].content = f /\ local'[t].file = f /\ at'[t] = "version"
  BY <1>0, <1>1 DEF OpenFile, Go, NTypes, Local
<1>4. ASSUME Plain(f) PROVE PacketEnds(f, 1)
  <2>1. CASE f = <<>>
    BY <2>1 DEF PacketEnds
  <2>2. CASE f # <<>>
    BY <1>4, <2>2 DEF PacketEnds, Plain
  <2> QED
    BY <2>1, <2>2
<1>5. 1 \in 1..(Len(f) + 1) /\ SubSeq(f, 1, Len(f)) = f
  <2>1. Len(f) \in Nat
    BY <1>2
  <2>2. 1 \in 1..(Len(f) + 1)
    BY <2>1
  <2> QED
    BY <1>2, <2>2, Suffix
<1>6. Plain(f) => Reads(t, f, 1)'
  BY <1>3, <1>4, <1>5 DEF Reads
<1> QED
  BY <1>3, <1>5, <1>6 DEF Keeping

LEMMA ContentStays ==
  ASSUME NTypes, NEW t \in crew, Convert(t)
  PROVE  local'[t].content = local[t].content
<1>1. t \in Threads /\ local \in [Threads -> Local]
  BY DEF NTypes
<1> QED
  BY <1>1 DEF Local, Convert, Finish, FlowsetDone, shared, EndOfFile,
     ReadPacketHeader, ReadCutHeader, RefuseVersion, EndPacket, RefuseFlowset, ReadFlowset,
     SkipRecord, LockToCreate, CreateTemplate, ReadFields, StoreTemplate, MeetKey,
     EndTemplates, LoseTemplate, LockToGet, NoTemplate

LEMMA ConvertKeeps ==
  ASSUME NTypes, Recorded, NEW t \in crew, Convert(t),
         NEW f \in Seq(Units), f = local[t].content, Plain(f),
         NEW i \in 1..(Len(f) + 1), Reads(t, f, i)
  PROVE  /\ local'[t].content = f
         /\ at'[t] \notin {"idle", "crashed"} =>
              \E j \in 1..(Len(f) + 1) : Reads(t, f, j)'
<1>0. /\ t \in Threads /\ local[t] \in Local /\ Record(t)
      /\ local[t].count \in 0..(CountRange - 1) /\ local[t].packet.count \in 0..(CountRange - 1)
  <2>1. t \in Threads /\ local[t] \in Local /\ Record(t)
    BY DEF NTypes, Recorded
  <2>2. local[t].packet \in OfKind("packet") \cup {NoPacket}
    BY <2>1 DEF Local
  <2> QED
    BY <2>1, <2>2, UnitTyping DEF Local
<1>1. local'[t].content = f
  BY ContentStays
<1>2. ASSUME at'[t] \notin {"idle", "crashed"}
      PROVE  \E j \in 1..(Len(f) + 1) : Reads(t, f, j)'
  <2>4. Len(f) \in Nat /\ i \in Nat /\ local[t].file = SubSeq(f, i, Len(f))
    BY DEF Reads
  <2>5. ASSUME local[t].file # <<>>
        PROVE  /\ i <= Len(f) /\ Head(local[t].file) = f[i] /\ f[i] \in Units
               /\ Tail(local[t].file) = SubSeq(f, i + 1, Len(f))
               /\ i + 1 \in 1..(Len(f) + 1)
    <3>1. i <= Len(f)
      <4>1. i # Len(f) + 1
        BY <2>4, <2>5, Suffix
      <4> QED
        BY <2>4, <4>1
    <3> QED
      BY <2>4, <3>1, Suffix, ZenonT(40)
  <2>6. CASE ReadPacketHeader(t)
    <3>1. at[t] = "version" /\ local[t].file # <<>> /\ Head(local[t].file).kind = "packet"
      BY <2>6 DEF ReadPacketHeader, Ahead
    <3>2. /\ at'[t] = "packet" /\ local'[t].count = 0
          /\ local'[t].packet = f[i] /\ local'[t].file = SubSeq(f, i + 1, Len(f))
      BY <1>0, <2>5, <2>6, <3>1 DEF ReadPacketHeader, Go, NTypes, Local
    <3>3. PlainFrom(f, i)
      <4>1. i <= Len(f) /\ f[i].kind = "packet"
        BY <2>5, <3>1
      <4>2. DOMAIN f = 1..Len(f)
        OBVIOUS
      <4>3. i \in DOMAIN f
        BY <2>4, <4>1, <4>2
      <4> QED
        BY <4>1, <4>3 DEF Plain
    <3>4. (i + 1) - 1 = i /\ i + 1 > 1
      BY <2>4
    <3>5. Reads(t, f, i + 1)'
      BY <3>2, <3>3, <3>4 DEF Reads
    <3> QED
      BY <2>5, <3>1, <3>5
  <2>7. CASE EndPacket(t)
    <3>1. /\ at[t] = "packet" /\ at'[t] = "version" /\ local' = local
          /\ ~(local[t].count < local[t].packet.count)
      BY <1>0, <2>7 DEF EndPacket, Go, MoreFlowsets, NTypes
    <3>2. PacketEnds(f, i)
      <4>1. CASE local[t].count = 0 /\ i > 1 /\ local[t].packet = f[i - 1] /\ PlainFrom(f, i - 1)
        <5>1. (i - 1) + 1 = i
          BY <2>4
        <5>2. local[t].packet.count = 0
          BY <1>0, <3>1, <4>1
        <5>3. f[i - 1].count = 0
          BY <4>1, <5>2
        <5> QED
          BY <4>1, <5>1, <5>3 DEF PlainFrom
      <4>2. CASE local[t].count = 1 /\ AfterOne(f, i, local[t].packet.count)
        BY <1>0, <3>1, <4>2 DEF AfterOne
      <4> QED
        BY <3>1, <4>1, <4>2 DEF Reads
    <3>3. Reads(t, f, i)'
      BY <2>4, <3>1, <3>2 DEF Reads
    <3> QED
      BY <3>3
  <2>8. CASE ReadFlowset(t)
    <3>1. /\ at[t] = "packet" /\ local[t].count < local[t].packet.count
          /\ local[t].file # <<>> /\ Head(local[t].file).kind \in {"templates", "data"}
      BY <2>8 DEF ReadFlowset, Ahead, MoreFlowsets
    <3>2. /\ at'[t] = f[i].kind /\ local'[t].file = SubSeq(f, i + 1, Len(f))
          /\ local'[t].flowset = f[i] /\ local'[t].operated = 0 /\ local'[t].ret = 0
          /\ local'[t].count = local[t].count /\ local'[t].packet = local[t].packet
      BY <1>0, <2>5, <2>8, <3>1 DEF ReadFlowset, Go, NTypes, Local
    <3>3. \/ at'[t] = "data" /\ PacketEnds(f, i + 1)
          \/ /\ at'[t] = "templates" /\ local[t].count = 0
             /\ AfterOne(f, i + 1, local[t].packet.count)
             /\ f[i].size = RecordHeaderSize + FieldSize * f[i].declared
      <4>1. CASE local[t].count = 0 /\ i > 1 /\ local[t].packet = f[i - 1] /\ PlainFrom(f, i - 1)
        <5>0. f[i - 1].count = local[t].packet.count
          BY <4>1
        <5>1. (i - 1) + 1 = i /\ (i - 1) + 2 = i + 1 /\ f[i - 1].count # 0
              /\ f[i].kind \in {"templates", "data"} /\ i <= Len(f)
          BY <1>0, <2>4, <2>5, <3>1, <4>1, <5>0
        <5>2. \/ f[i - 1].count = 1 /\ OneTemplate(f, i) /\ PacketEnds(f, i + 1)
              \/ DataLast(f, i)
              \/ f[i - 1].count > 1 /\ OneTemplate(f, i) /\ DataLast(f, i + 1)
          BY <4>1, <5>1 DEF PlainFrom
        <5>3. CASE DataLast(f, i)
          BY <3>2, <5>3 DEF DataLast
        <5>4. CASE OneTemplate(f, i) /\ AfterOne(f, i + 1, f[i - 1].count)
          BY <3>2, <4>1, <5>1, <5>4 DEF OneTemplate
        <5> QED
          BY <5>2, <5>3, <5>4 DEF AfterOne
      <4>2. CASE local[t].count = 1 /\ AfterOne(f, i, local[t].packet.count)
        <5>1. DataLast(f, i)
          BY <1>0, <3>1, <4>2 DEF AfterOne
        <5> QED
          BY <3>2, <5>1 DEF DataLast
      <4> QED
        BY <3>1, <4>1, <4>2 DEF Reads
    <3>4. Reads(t, f, i + 1)'
      BY <3>2, <3>3 DEF Reads
    <3> QED
      BY <2>5, <3>1, <3>4
  <2>9. ASSUME at[t] \in {"templates", "create", "fields", "insert"}
        PROVE  /\ local[t].count = 0 /\ AfterOne(f, i, local[t].packet.count)
               /\ local[t].flowset.size = RecordHeaderSize
                                          + FieldSize * local[t].flowset.declared
               /\ \/ local[t].operated = 0 /\ local[t].ret = 0 /\ at[t] # "insert"
                  \/ /\ local[t].operated = local[t].flowset.size /\ local[t].ret = 1
                     /\ at[t] \in {"templates", "insert"}
               /\ local[t].flowset \in OfKind("templates")
               /\ local[t].flowset.declared \in Nat /\ local[t].flowset.size \in Nat
    BY <1>0, <2>9, UnitTyping DEF Reads, Record
  <2>10. CASE SkipRecord(t)
    <3>1. at[t] = "templates" /\ local[t].operated < local[t].flowset.size
      BY <2>10 DEF SkipRecord, AtRecord
    <3>2. local[t].operated = 0 /\ local[t].ret = 0
      BY <2>9, <3>1
    <3>3. /\ at'[t] = "templates" /\ local'[t].file = local[t].file
          /\ local'[t].flowset = local[t].flowset /\ local'[t].packet = local[t].packet
          /\ local'[t].operated = 0 + RecordHeaderSize + FieldSize * local[t].flowset.declared
          /\ local'[t].ret = 0 + 1 /\ local'[t].count = local[t].count
      BY <1>0, <2>10, <3>1, <3>2 DEF SkipRecord, NTypes, Local
    <3>4. local'[t].operated = local'[t].flowset.size /\ local'[t].ret = 1
      BY <2>9, <3>1, <3>3 DEF RecordHeaderSize, FieldSize
    <3>5. Reads(t, f, i)'
      BY <2>4, <2>9, <3>1, <3>3, <3>4 DEF Reads
    <3> QED
      BY <3>5
  <2>11. CASE LockToCreate(t) \/ CreateTemplate(t)
    <3>1. /\ local' = local /\ at[t] \in {"templates", "create"}
          /\ at[t] = "templates" => local[t].operated < local[t].flowset.size
          /\ at'[t] \in {"create", "fields"}
      BY <1>0, <2>11 DEF LockToCreate, CreateTemplate, AtRecord, Go, NTypes
    <3>2. local[t].operated = 0 /\ local[t].ret = 0
      BY <2>9, <3>1
    <3>3. Reads(t, f, i)'
      BY <2>4, <2>9, <3>1, <3>2 DEF Reads
    <3> QED
      BY <3>3
  <2>12. CASE ReadFields(t)
    <3> DEFINE n == FieldsRead(t, local[t].operated + RecordHeaderSize)
    <3>1. at[t] = "fields" /\ local[t].operated = 0 /\ local[t].ret = 0
      BY <2>9, <2>12 DEF ReadFields
    <3>2. n = local[t].flowset.declared
      <4>1. 0 + RecordHeaderSize \in Nat
        BY DEF RecordHeaderSize
      <4>2. FieldsRead(t, 0 + RecordHeaderSize) = local[t].flowset.declared
        BY <1>0, <2>9, <3>1, <4>1, FieldsReadTyping DEF RecordHeaderSize
      <4> QED
        BY <3>1, <4>2
    <3>3. /\ at'[t] = "insert" /\ local'[t].file = local[t].file
          /\ local'[t].flowset = local[t].flowset /\ local'[t].packet = local[t].packet
          /\ local'[t].operated = 0 + RecordHeaderSize + FieldSize * local[t].flowset.declared
          /\ local'[t].ret = 0 + 1 /\ local'[t].count = local[t].count
      <4> HIDE DEF n
      <4>1. /\ local' = [local EXCEPT
                   ![t].operated = @ + RecordHeaderSize + FieldSize * n, ![t].ret = @ + 1]
            /\ Go(t, "insert")
        BY <2>12, <3>2 DEF ReadFields, n
      <4> QED
        BY <1>0, <3>1, <3>2, <4>1 DEF Go, NTypes, Local
    <3>4. local'[t].operated = local'[t].flowset.size /\ local'[t].ret = 1
      BY <2>9, <3>1, <3>3 DEF RecordHeaderSize, FieldSize
    <3>5. Reads(t, f, i)'
      BY <2>4, <2>9, <3>1, <3>3, <3>4 DEF Reads
    <3> QED
      BY <3>5
  <2>13. CASE StoreTemplate(t)
    <3>1. at[t] = "insert" /\ at'[t] = "templates" /\ local' = local
      BY <1>0, <2>13 DEF StoreTemplate, Go, NTypes
    <3>2. Reads(t, f, i)'
      BY <2>4, <2>9, <3>1 DEF Reads
    <3> QED
      BY <3>2
  <2>14. CASE EndTemplates(t)
    <3>1. /\ at[t] = "templates" /\ local[t].operated >= local[t].flowset.size
          /\ FlowsetDone(t, local[t].ret)
      BY <2>14 DEF EndTemplates
    <3>2. local[t].ret = 1
      BY <2>9, <3>1 DEF RecordHeaderSize, FieldSize
    <3>3. (0 + 1) % CountRange = 1
      <4>1. CountRange > 1 /\ CountRange \in Nat
        BY <1>0, <2>9, <3>1, UnitTyping DEF AfterOne
      <4> QED
        BY <4>1
    <3>4. /\ at'[t] = "packet" /\ local'[t].file = local[t].file
          /\ local'[t].packet = local[t].packet /\ local'[t].count = 1
      BY <1>0, <2>9, <3>1, <3>2, <3>3 DEF FlowsetDone, Go, NTypes, Local
    <3>5. Reads(t, f, i)'
      BY <2>4, <2>9, <3>1, <3>4 DEF Reads
    <3> QED
      BY <3>5
  <2>15. CASE LoseTemplate(t) \/ NoTemplate(t) \/ LockToGet(t)
    <3>1. /\ at[t] \in {"data", "get"} /\ at'[t] \in {"version", "get"}
          /\ local'[t].file = local[t].file
      BY <1>0, <2>15 DEF LoseTemplate, NoTemplate, LockToGet, FlowsetDone, Go, NTypes, Local
    <3>2. PacketEnds(f, i)
      BY <3>1 DEF Reads
    <3>3. Reads(t, f, i)'
      BY <2>4, <3>1, <3>2 DEF Reads
    <3> QED
      BY <3>3
  <2>16. ~(EndOfFile(t) \/ ReadCutHeader(t) \/ RefuseVersion(t) \/ RefuseFlowset(t)
            \/ MeetKey(t))
    BY <1>0, <1>2 DEF EndOfFile, ReadCutHeader, RefuseVersion, RefuseFlowset, MeetKey, Finish,
       Go, NTypes
  <2> QED
    BY <2>6, <2>7, <2>8, <2>10, <2>11, <2>12, <2>13, <2>14, <2>15, <2>16 DEF Convert
<1> QED
  BY <1>1, <1>2

LEMMA KeepStep ==
  ASSUME NTypes, Recorded, NEW t \in crew, Keeping(t), Open(t) \/ Convert(t)
  PROVE  Keeping(t)'
<1>1. CASE Open(t)
  BY <1>1, OpenKeeps DEF Open
<1>2. CASE Convert(t)
  <2>1. PICK f \in Seq(Units) : f = local[t].content
    <3>1. t \in Threads /\ local[t] \in Local
      BY DEF NTypes
    <3> QED
      BY <3>1 DEF Local
  <2>2. at[t] \notin {"idle", "crashed"}
    BY <1>2 DEF Convert, EndOfFile, ReadPacketHeader, ReadCutHeader, RefuseVersion,
       EndPacket, RefuseFlowset, ReadFlowset, SkipRecord, AtRecord, LockToCreate,
       CreateTemplate, ReadFields, StoreTemplate, MeetKey, EndTemplates, LoseTemplate,
       LockToGet, NoTemplate
  <2>3. CASE Plain(f)
    <3>1. PICK i \in 1..(Len(f) + 1) : Reads(t, f, i)
      BY <2>1, <2>2, <2>3 DEF Keeping
    <3>2. /\ local'[t].content = f
          /\ at'[t] \notin {"idle", "crashed"} =>
               \E j \in 1..(Len(f) + 1) : Reads(t, f, j)'
      BY <1>2, <2>1, <2>3, <3>1, ConvertKeeps
    <3> QED
      BY <3>2 DEF Keeping
  <2>4. CASE ~Plain(f)
    <3>1. local'[t].content = f
      BY <1>2, <2>1, ContentStays
    <3> QED
      BY <2>4, <3>1 DEF Keeping
  <2> QED
    BY <2>3, <2>4
<1> QED
  BY <1>1, <1>2

\* A thread that comes to the end of a plain file comes there in "version", with
\* nothing left; every other way out of a file is closed to it.
LEMMA LeavesAtTheEnd ==
  ASSUME NTypes, Recorded, NEW t \in crew, Keeping(t), Open(t) \/ Convert(t),
         at[t] # "idle", at'[t] = "idle", Plain(local[t].content)
  PROVE  local'[t].result = "OK" /\ local'[t].file = <<>>
<1>0. t \in Threads /\ local[t] \in Local
  BY DEF NTypes
<1>1. PICK f \in Seq(Units) : f = local[t].content
  BY <1>0 DEF Local
<1>2. at[t] \in {"version", "packet"} /\ Convert(t)
  BY <1>0 DEF NTypes, Open, OpenFile, Convert, Finish, FlowsetDone, Go, EndOfFile,
     ReadPacketHeader, ReadCutHeader, RefuseVersion, EndPacket, RefuseFlowset, ReadFlowset,
     SkipRecord, AtRecord, Ahead, LockToCreate, CreateTemplate, ReadFields, StoreTemplate,
     MeetKey, EndTemplates, LoseTemplate, LockToGet, NoTemplate
<1>3. PICK i \in 1..(Len(f) + 1) : Reads(t, f, i)
  BY <1>1, <1>2 DEF Keeping
<1>4. Len(f) \in Nat /\ i \in Nat /\ local[t].file = SubSeq(f, i, Len(f))
  BY <1>3 DEF Reads
<1>5. /\ local[t].file = <<>> => i > Len(f)
      /\ local[t].file # <<>> => i <= Len(f) /\ Head(local[t].file) = f[i]
  <2>1. CASE i = Len(f) + 1
    BY <1>4, <2>1, Suffix
  <2>2. CASE i <= Len(f)
    BY <1>4, <2>2, Suffix
  <2> QED
    BY <1>4, <2>1, <2>2
<1>6. CASE at[t] = "version"
  <2>1. PacketEnds(f, i)
    BY <1>3, <1>6 DEF Reads
  <2>2. ~Ahead(t, {"cut"}) /\ ~Ahead(t, {"templates", "data", "reserved"})
    BY <1>4, <1>5, <2>1 DEF PacketEnds, Ahead
  <2>3. EndOfFile(t)
    BY <1>0, <1>2, <1>6, <2>2
       DEF NTypes, Convert, Finish, FlowsetDone, Go, ReadPacketHeader, ReadCutHeader,
           RefuseVersion, EndPacket, RefuseFlowset, ReadFlowset, SkipRecord, AtRecord,
           LockToCreate, CreateTemplate, ReadFields, StoreTemplate, MeetKey, EndTemplates,
           LoseTemplate, LockToGet, NoTemplate
  <2> QED
    BY <1>0, <2>3 DEF EndOfFile, Finish, NTypes, Local
<1>7. CASE at[t] = "packet"
  <2>1. RefuseFlowset(t)
    BY <1>0, <1>2, <1>7
       DEF NTypes, Convert, Finish, FlowsetDone, Go, EndOfFile, ReadPacketHeader,
           ReadCutHeader, RefuseVersion, EndPacket, ReadFlowset, Ahead, SkipRecord, AtRecord,
           LockToCreate, CreateTemplate, ReadFields, StoreTemplate, MeetKey, EndTemplates,
           LoseTemplate, LockToGet, NoTemplate
  <2>2. i <= Len(f) => f[i].kind \notin {"templates", "data"}
    <3>1. /\ local[t].file = <<>> \/ Ahead(t, {"packet", "reserved", "cut"})
      BY <2>1 DEF RefuseFlowset
    <3> QED
      BY <1>4, <1>5, <3>1 DEF Ahead
  <2>3. local[t].count < local[t].packet.count
    BY <2>1 DEF RefuseFlowset, MoreFlowsets
  <2>4. ~DataLast(f, i) /\ ~OneTemplate(f, i)
    BY <2>2 DEF DataLast, OneTemplate
  <2>5. local[t].packet.count \in Nat
    <3>1. local[t].packet \in OfKind("packet") \cup {NoPacket}
      BY <1>0 DEF Local
    <3> QED
      BY <3>1, UnitTyping
  <2>6. CASE local[t].count = 0 /\ i > 1 /\ local[t].packet = f[i - 1] /\ PlainFrom(f, i - 1)
    <3>1. (i - 1) + 1 = i /\ local[t].packet.count # 0
      BY <1>4, <2>3, <2>5, <2>6
    <3>2. f[i - 1].count # 0
      BY <2>6, <3>1
    <3> QED
      BY <2>4, <2>6, <3>1, <3>2 DEF PlainFrom
  <2>7. CASE local[t].count = 1 /\ AfterOne(f, i, local[t].packet.count)
    BY <2>3, <2>4, <2>5, <2>7 DEF AfterOne
  <2> QED
    BY <1>3, <1>7, <2>6, <2>7 DEF Reads
<1> QED
  BY <1>2, <1>6, <1>7

KeepsPlace == \A t \in Threads : Keeping(t)

\* A file of plain packets is gone through to its end, without an error.
THEOREM PlainFilesFinish == Spec => PlainFileFinished
<1>1. Init => KeepsPlace
  BY DEF Init, KeepsPlace, Keeping
<1>2. NInv /\ KeepsPlace /\ [Next]_vars => KeepsPlace'
  <2> SUFFICES ASSUME NInv, KeepsPlace, [Next]_vars, NEW u \in Threads
               PROVE  Keeping(u)'
    BY DEF KeepsPlace
  <2>1. CASE UNCHANGED vars
    BY <2>1 DEF vars, KeepsPlace, Keeping, Reads
  <2>2. ASSUME NEW t \in crew, Open(t) \/ Convert(t) PROVE Keeping(u)'
    <3>1. CASE u = t
      BY <2>2, <3>1, KeepStep DEF NInv, KeepsPlace
    <3>2. CASE u # t
      <4>1. at'[u] = at[u] /\ local'[u] = local[u]
        BY <2>2, <3>2, OthersStay DEF NInv
      <4> QED
        BY <4>1 DEF KeepsPlace, Keeping, Reads
    <3> QED
      BY <3>1, <3>2
  <2> QED
    BY <2>1, <2>2 DEF Next, Halted
<1>3. NInv /\ KeepsPlace /\ [Next]_vars =>
        [\A t \in crew :
           at[t] # "idle" /\ at'[t] = "idle" /\ Plain(local[t].content) =>
             local'[t].result = "OK" /\ local'[t].file = <<>>]_vars
  <2> SUFFICES ASSUME NInv, KeepsPlace, Next, NEW t \in crew,
                      at[t] # "idle", at'[t] = "idle", Plain(local[t].content)
               PROVE  local'[t].result = "OK" /\ local'[t].file = <<>>
    BY DEF NInv
  <2>1. t \in Threads
    BY DEF NInv, NTypes
  <2>2. PICK u \in crew : Open(u) \/ Convert(u)
    BY DEF Next, Halted, vars
  <2>3. u = t
    BY <2>1, <2>2, OthersStay DEF NInv
  <2> QED
    BY <2>1, <2>2, <2>3, LeavesAtTheEnd DEF NInv, KeepsPlace
<1> QED
  BY <1>1, <1>2, <1>3, Nfv9Invariant, PTL DEF Spec, PlainFileFinished
-----------------------------------------------------------------------------
(* The loops.  That a file ends follows from the two theorems by           *)
(* induction, which is TLC's part.                                          *)

\* Where a thread is with a unit of its file: before the next record of a flowset it
\* reads one, and behind the flowset there are the packet and the next version number.
Stage(t) == CASE at[t] = "insert" -> 0
              [] at[t] \in {"templates", "data"} -> 1
              [] at[t] \in {"create", "get"} -> 2
              [] at[t] = "fields" -> 3
              [] at[t] = "packet" -> 4
              [] OTHER -> 5

\* Less of the file is left; or more of the flowset is behind the thread, or, there, it
\* is further on.
Gains(t) ==
  \/ Len(local'[t].file) < Len(local[t].file)
  \/ /\ local'[t].file = local[t].file
     /\ \/ local'[t].operated > local[t].operated
        \/ local'[t].operated = local[t].operated /\ Stage(t)' > Stage(t)

\* A thread's step gets further in its file, or out of it, whatever the lock answers, and
\* takes no other thread back.
FilesMoveOn ==
  [][\A t \in crew : Convert(t) =>
       /\ at'[t] \in {"idle", "crashed"} \/ Gains(t)
       /\ \A u \in crew \ {t} : at'[u] = at[u] /\ local'[u] = local[u]]_vars

\* A flowset is left behind by less than the record that crosses its end.
FlowsetsBounded ==
  \A t \in crew : at[t] \in {"templates", "create", "fields", "insert"} =>
    LET s == local[t].flowset
    IN  local[t].operated < s.size + RecordHeaderSize + FieldSize * s.declared

LEMMA ConvertGains ==
  ASSUME NTypes, Recorded, NEW t \in crew, Convert(t)
  PROVE  at'[t] \in {"idle", "crashed"} \/ Gains(t)
<1>0. t \in Threads /\ local[t] \in Local /\ at \in [Threads -> Places]
      /\ local \in [Threads -> Local] /\ Record(t)
  BY DEF NTypes, Recorded
<1>1. /\ local[t].file \in Seq(Units) /\ local[t].operated \in Nat
      /\ Len(local[t].file) \in Nat
      /\ local[t].file # <<>> => Len(Tail(local[t].file)) < Len(local[t].file)
  BY <1>0 DEF Local
<1>2. CASE EndOfFile(t) \/ ReadCutHeader(t) \/ RefuseVersion(t) \/ RefuseFlowset(t) \/ MeetKey(t)
  BY <1>0, <1>2 DEF EndOfFile, ReadCutHeader, RefuseVersion, RefuseFlowset, MeetKey, Finish, Go
<1>3. CASE ReadPacketHeader(t) \/ ReadFlowset(t)
  <2>1. local[t].file # <<>> /\ local'[t].file = Tail(local[t].file)
    BY <1>0, <1>3 DEF ReadPacketHeader, ReadFlowset, Ahead, Local
  <2> QED
    BY <1>1, <2>1 DEF Gains
<1>4. CASE EndPacket(t) \/ LockToCreate(t) \/ CreateTemplate(t) \/ StoreTemplate(t) \/ LockToGet(t)
  <2>1. /\ local' = local
        /\ <<at[t], at'[t]>> \in {<<"packet", "version">>, <<"templates", "create">>,
             <<"create", "fields">>, <<"insert", "templates">>, <<"data", "get">>}
    BY <1>0, <1>4 DEF EndPacket, LockToCreate, AtRecord, CreateTemplate, StoreTemplate,
       LockToGet, Go
  <2> QED
    BY <2>1 DEF Gains, Stage
<1>5. CASE SkipRecord(t)
  <2>1. local[t].flowset \in OfKind("templates")
    BY <1>0, <1>5 DEF SkipRecord, AtRecord, Record
  <2>2. /\ local'[t].file = local[t].file
        /\ local'[t].operated = local[t].operated + RecordHeaderSize
                                + FieldSize * local[t].flowset.declared
    BY <1>0, <1>5 DEF SkipRecord, Local
  <2>3. local[t].flowset.declared \in Nat
    BY <2>1, UnitTyping
  <2> QED
    BY <1>1, <2>2, <2>3 DEF Gains, RecordHeaderSize, FieldSize
<1>6. CASE ReadFields(t)
  <2> DEFINE n == FieldsRead(t, local[t].operated + RecordHeaderSize)
  <2>1. local[t].flowset \in OfKind("templates")
    BY <1>0, <1>6 DEF ReadFields, Record
  <2>2. local[t].operated + RecordHeaderSize \in Nat /\ local[t].flowset.declared \in Nat
    BY <1>1, <2>1, UnitTyping DEF RecordHeaderSize
  <2>3. n \in Nat
    BY <1>0, <2>1, <2>2, FieldsReadTyping
  <2>4. /\ local'[t].file = local[t].file
        /\ local'[t].operated = local[t].operated + RecordHeaderSize + FieldSize * n
    <3> HIDE DEF n
    <3>1. \E r : local' = [local EXCEPT
            ![t].operated = @ + RecordHeaderSize + FieldSize * n, ![t].ret = r]
      BY <1>6 DEF ReadFields, n
    <3> QED
      BY <1>0, <3>1 DEF Local
  <2> HIDE DEF n
  <2> QED
    BY <1>1, <2>3, <2>4 DEF Gains, RecordHeaderSize, FieldSize
<1>7. CASE EndTemplates(t) \/ LoseTemplate(t) \/ NoTemplate(t)
  <2>1. /\ local'[t].file = local[t].file /\ local'[t].operated = local[t].operated
        /\ at[t] \in {"templates", "data", "get"} /\ at'[t] \in {"packet", "version"}
    BY <1>0, <1>7 DEF EndTemplates, LoseTemplate, NoTemplate, FlowsetDone, Go, Local
  <2> QED
    BY <2>1 DEF Gains, Stage
<1> QED
  BY <1>2, <1>3, <1>4, <1>5, <1>6, <1>7 DEF Convert

\* No thread goes round in a file.
THEOREM ThreadsMoveOn == Spec => FilesMoveOn
<1>1. NTypes /\ Recorded /\ [Next]_vars =>
        [\A t \in crew : Convert(t) =>
           /\ at'[t] \in {"idle", "crashed"} \/ Gains(t)
           /\ \A u \in crew \ {t} : at'[u] = at[u] /\ local'[u] = local[u]]_vars
  <2> SUFFICES ASSUME NTypes, Recorded, NEW t \in crew, Convert(t)
               PROVE  /\ at'[t] \in {"idle", "crashed"} \/ Gains(t)
                      /\ \A u \in crew \ {t} : at'[u] = at[u] /\ local'[u] = local[u]
    OBVIOUS
  <2>1. \A u \in crew \ {t} : at'[u] = at[u] /\ local'[u] = local[u]
    BY OthersStay DEF NTypes
  <2> QED
    BY <2>1, ConvertGains
<1> QED
  BY <1>1, RecordedInvariant, PTL DEF Spec, FilesMoveOn

LEMMA FlowsetsBoundedStep ==
  ASSUME NTypes, Recorded, FlowsetsBounded, NEW t \in crew, Open(t) \/ Convert(t),
         at'[t] \in {"templates", "create", "fields", "insert"}
  PROVE  local'[t].operated < local'[t].flowset.size + RecordHeaderSize
                              + FieldSize * local'[t].flowset.declared
<1> DEFINE In == {"templates", "create", "fields", "insert"}
           Within == local[t].operated < local[t].flowset.size + RecordHeaderSize
                                         + FieldSize * local[t].flowset.declared
<1>0. t \in Threads /\ local[t] \in Local /\ at \in [Threads -> Places]
      /\ local \in [Threads -> Local] /\ Record(t) /\ local[t].operated \in Nat
  BY DEF NTypes, Recorded, Local
<1>1. at[t] \in In => Within
  BY DEF FlowsetsBounded
<1>2. CASE ReadFlowset(t)
  <2>1. local[t].file # <<>> /\ Head(local[t].file).kind \in {"templates", "data"}
    BY <1>2 DEF ReadFlowset, Ahead
  <2>2. /\ at'[t] = Head(local[t].file).kind /\ local'[t].operated = 0
        /\ local'[t].flowset = Head(local[t].file) /\ Head(local[t].file) \in Units
    BY <1>0, <1>2, <2>1, UnitAhead DEF ReadFlowset, Go, Local
  <2>3. local'[t].flowset \in OfKind("templates")
    BY <2>1, <2>2 DEF OfKind
  <2>4. local'[t].flowset.size \in Nat /\ local'[t].flowset.declared \in Nat
    BY <2>3, UnitTyping
  <2> QED
    BY <2>2, <2>4 DEF RecordHeaderSize, FieldSize
<1>3. CASE SkipRecord(t)
  <2>1. local[t].flowset \in OfKind("templates") /\ local[t].operated < local[t].flowset.size
    BY <1>0, <1>3 DEF SkipRecord, AtRecord, Record
  <2>2. /\ local'[t].flowset = local[t].flowset
        /\ local'[t].operated = local[t].operated + RecordHeaderSize
                                + FieldSize * local[t].flowset.declared
    BY <1>0, <1>3 DEF SkipRecord, Local
  <2>3. local[t].flowset.size \in Nat /\ local[t].flowset.declared \in Nat
    BY <2>1, UnitTyping
  <2> QED
    BY <1>0, <2>1, <2>2, <2>3 DEF RecordHeaderSize, FieldSize
<1>4. CASE ReadFields(t)
  <2> DEFINE n == FieldsRead(t, local[t].operated + RecordHeaderSize)
  <2>1. local[t].flowset \in OfKind("templates") /\ local[t].operated < local[t].flowset.size
    BY <1>0, <1>4 DEF ReadFields, Record
  <2>2. local[t].flowset.size \in Nat /\ local[t].flowset.declared \in Nat
        /\ local[t].operated + RecordHeaderSize \in Nat
    BY <1>0, <2>1, UnitTyping DEF RecordHeaderSize
  <2>3. n \in 0..local[t].flowset.declared
    BY <1>0, <2>1, <2>2, FieldsReadTyping
  <2>4. /\ local'[t].flowset = local[t].flowset
        /\ local'[t].operated = local[t].operated + RecordHeaderSize + FieldSize * n
    <3> HIDE DEF n
    <3>1. \E r : local' = [local EXCEPT
            ![t].operated = @ + RecordHeaderSize + FieldSize * n, ![t].ret = r]
      BY <1>4 DEF ReadFields, n
    <3> QED
      BY <1>0, <3>1 DEF Local
  <2> HIDE DEF n
  <2> QED
    BY <1>0, <2>1, <2>2, <2>3, <2>4 DEF RecordHeaderSize, FieldSize
<1>5. CASE LockToCreate(t) \/ CreateTemplate(t) \/ StoreTemplate(t)
  <2>1. local' = local /\ at[t] \in In
    BY <1>5 DEF LockToCreate, AtRecord, CreateTemplate, StoreTemplate
  <2> QED
    BY <1>1, <2>1
<1> QED
  BY <1>0, <1>2, <1>3, <1>4, <1>5
     DEF Open, Convert, Finish, FlowsetDone, Go, OpenFile, EndOfFile, ReadPacketHeader,
         ReadCutHeader, RefuseVersion, EndPacket, RefuseFlowset, MeetKey, EndTemplates,
         LoseTemplate, LockToGet, NoTemplate

\* What a thread gets through in a flowset is bounded.
THEOREM FlowsetsAreBounded == Spec => []FlowsetsBounded
<1>1. Init => FlowsetsBounded
  BY DEF Init, FlowsetsBounded
<1>2. NTypes /\ Recorded /\ FlowsetsBounded /\ [Next]_vars => FlowsetsBounded'
  <2> SUFFICES ASSUME NTypes, Recorded, FlowsetsBounded, [Next]_vars, NEW u \in crew',
                      at'[u] \in {"templates", "create", "fields", "insert"}
               PROVE  local'[u].operated < local'[u].flowset.size + RecordHeaderSize
                                           + FieldSize * local'[u].flowset.declared
    BY DEF FlowsetsBounded
  <2>1. CASE UNCHANGED vars
    BY <2>1 DEF vars, FlowsetsBounded
  <2>2. ASSUME NEW t \in crew, Open(t) \/ Convert(t)
        PROVE  local'[u].operated < local'[u].flowset.size + RecordHeaderSize
                                    + FieldSize * local'[u].flowset.declared
    <3>1. CASE u = t
      BY <2>2, <3>1, FlowsetsBoundedStep
    <3>2. CASE u # t
      <4>1. crew' = crew /\ u \in Threads
        BY <2>2, StepShape DEF NTypes
      <4>2. at'[u] = at[u] /\ local'[u] = local[u]
        BY <2>2, <3>2, <4>1, OthersStay
      <4> QED
        BY <4>1, <4>2 DEF FlowsetsBounded
    <3> QED
      BY <3>1, <3>2
  <2> QED
    BY <2>1, <2>2 DEF Next, Halted
<1> QED
  BY <1>1, <1>2, RecordedInvariant, PTL DEF Spec
=============================================================================
