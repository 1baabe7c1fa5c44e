-------------------------- MODULE IpfixCache_proofs --------------------------
(***************************************************************************)
(* What the template cache of IPFIX keeps to for any number of threads,    *)
(* templates and field lists.  The inductive invariant has three parts:    *)
(* what holds always, what holds while all templates that were read define *)
(* the same, and what holds for a thread that is alone.                    *)
(***************************************************************************)
EXTENDS IpfixCache, NumberTheorems

-----------------------------------------------------------------------------
(* The lock.                                                               *)

Even(n) == n % 2 = 0

LEMMA CounterTyping ==
  ASSUME readers \in 0..(CounterSize - 1)
  PROVE  /\ RwUnlock => readers' \in 0..(CounterSize - 1)
         /\ RdLock => readers' \in 0..(CounterSize - 1)
BY CounterWraps, RwLockAssumption DEF RwUnlock, Unlocked, RdLock

\* Every step of the counter changes its parity, also the one that wraps; the
\* lock of glibc before 2.25 refuses a reader at an odd value only.
LEMMA CounterParity ==
  ASSUME readers \in 0..(CounterSize - 1)
  PROVE  /\ RwUnlock => (Even(readers') <=> ~Even(readers))
         /\ RdLock /\ ~RdLockFails => (Even(readers') <=> ~Even(readers))
         /\ library = "old" /\ Even(readers) => ~RdLockFails
<1>1. CounterSize % 2 = 0 /\ CounterSize \in Nat /\ CounterSize > 1
  BY RwLockAssumption
<1>2. \A n \in Int : (n + 1) % 2 = 0 <=> n % 2 # 0
  OBVIOUS
<1>3. \A n \in Int : (n - 1) % 2 = 0 <=> n % 2 # 0
  OBVIOUS
<1>4. ~Even(CounterSize - 1) /\ Even(0)
  BY <1>1 DEF Even
<1>5. RwUnlock => (Even(readers') <=> ~Even(readers))
  <2>1. (readers - 1) % CounterSize = IF readers = 0 THEN CounterSize - 1 ELSE readers - 1
    BY <1>1, CounterWraps
  <2> QED
    BY <1>3, <1>4, <2>1 DEF RwUnlock, Unlocked, Even
<1>6. (readers + 1) % CounterSize = IF readers = CounterSize - 1 THEN 0 ELSE readers + 1
  BY <1>1, CounterWraps
<1>7. RdLock /\ ~RdLockFails => (Even(readers') <=> ~Even(readers))
  BY <1>2, <1>4, <1>6 DEF RdLock, Even
<1>8. library = "old" /\ Even(readers) => ~RdLockFails
  BY <1>4, <1>6 DEF RdLockFails, Even
<1> QED
  BY <1>5, <1>7, <1>8

-----------------------------------------------------------------------------
(* The types.                                                              *)

\* A record that was read is on the heap, where nothing was, for the thread to add
\* or for nobody.
Keeps(t, k, d, c) == /\ heap' = [heap EXCEPT ![c] = [state |-> "live", def |-> d]]
                     /\ list' = [list EXCEPT ![t] = c]
                     /\ key' = [key EXCEPT ![t] = k]
                     /\ learned' = [learned EXCEPT ![k] = d]
                     /\ at' = [at EXCEPT ![t] = "wr_lock"]
Loses(d, c) == /\ heap' = [heap EXCEPT ![c] = [state |-> "lost", def |-> d]]
               /\ UNCHANGED <<list, key, learned, at>>

LEMMA RecordRead ==
  ASSUME NEW t, NEW k, NEW d, ReadTemplate(t, k, d)
  PROVE  /\ at[t] = "idle" /\ UNCHANGED <<readers, cache, answer>>
         /\ \E c \in Cells :
              heap[c].state = "unborn" /\ (Keeps(t, k, d, c) \/ Loses(d, c))
BY DEF ReadTemplate, Go, Keeps, Loses

LEMMA TypeInit == Init => TypeOK
<1> SUFFICES ASSUME Init PROVE TypeOK
  OBVIOUS
<1>1. RwLockTypeOK
  BY RwLockAssumption DEF Init, RwLockInit, RwLockTypeOK
<1> QED
  BY <1>1 DEF Init, TypeOK

LEMMA TypeNext == TypeOK /\ [Next]_vars => TypeOK'
<1> SUFFICES ASSUME TypeOK, [Next]_vars PROVE TypeOK'
  OBVIOUS
<1> USE DEF TypeOK, RwLockTypeOK, Go, Free
<1>1. CASE UNCHANGED vars
  BY <1>1 DEF vars
<1>2. ASSUME NEW t \in crew, ThreadStep(t), UNCHANGED <<library, crew>> PROVE TypeOK'
  <2>0. t \in Threads
    OBVIOUS
  <2>1. ASSUME NEW k \in Keys, NEW d \in Definitions, ReadTemplate(t, k, d)
        PROVE  TypeOK'
    <3>1. PICK c \in Cells : Keeps(t, k, d, c) \/ Loses(d, c)
      BY <2>1, RecordRead
    <3>2. heap' \in [Cells -> [state : {"unborn", "live", "freed", "lost"},
                               def : Definitions \cup {NULL}]]
      BY <3>1 DEF Keeps, Loses
    <3>3. UNCHANGED <<readers, library, crew, cache, answer>>
      BY <1>2, <2>1, RecordRead
    <3>4. CASE Keeps(t, k, d, c)
      BY <2>0, <3>2, <3>3, <3>4 DEF Keeps
    <3>5. CASE Loses(d, c)
      BY <3>2, <3>3, <3>5 DEF Loses
    <3> QED
      BY <3>1, <3>4, <3>5
  <2>2. CASE LockToAdd(t)
    BY <1>2, <2>0, <2>2, CounterTyping DEF LockToAdd, WrLock
  <2>3. CASE FindTemplate(t)
    BY <1>2, <2>0, <2>3 DEF FindTemplate
  <2>4. CASE InsertTemplate(t)
    BY <1>2, <2>0, <2>4 DEF InsertTemplate
  <2>5. CASE CompareTemplate(t)
    BY <1>2, <2>0, <2>5 DEF CompareTemplate
  <2>6. CASE DeleteOldList(t)
    BY <1>2, <2>0, <2>6 DEF DeleteOldList
  <2>7. CASE AssignNewList(t)
    BY <1>2, <2>0, <2>7 DEF AssignNewList
  <2>8. CASE UnlockAfterAdd(t)
    BY <1>2, <2>0, <2>8, CounterTyping DEF UnlockAfterAdd
  <2>9. ASSUME NEW k \in Keys, ReadDataSet(t, k) PROVE TypeOK'
    BY <1>2, <2>0, <2>9 DEF ReadDataSet
  <2>10. CASE LockToGet(t)
    <3>1. readers' \in 0..(CounterSize - 1)
      BY <2>10, CounterTyping DEF LockToGet
    <3>2. answer' \in [Threads -> {<<>>} \cup (Keys \X (Definitions \cup {NULL}))]
      BY <2>0, <2>10 DEF LockToGet
    <3> QED
      BY <1>2, <2>0, <2>10, <3>1, <3>2 DEF LockToGet
  <2>11. CASE GetFieldList(t)
    <3>1. answer' \in [Threads -> {<<>>} \cup (Keys \X (Definitions \cup {NULL}))]
      BY <2>0, <2>11 DEF GetFieldList
    <3> QED
      BY <1>2, <2>0, <2>11, <3>1 DEF GetFieldList
  <2>12. CASE UnlockAfterGet(t)
    BY <1>2, <2>0, <2>12, CounterTyping DEF UnlockAfterGet
  <2>13. CASE GetDataSetLength(t)
    BY <1>2, <2>0, <2>13 DEF GetDataSetLength
  <2>14. CASE LockToCount(t)
    BY <1>2, <2>0, <2>14, CounterTyping DEF LockToCount
  <2>15. CASE CountFields(t)
    BY <1>2, <2>0, <2>15 DEF CountFields
  <2>16. CASE UnlockAfterCount(t)
    BY <1>2, <2>0, <2>16, CounterTyping DEF UnlockAfterCount
  <2>17. CASE DecodeRecords(t)
    BY <1>2, <2>0, <2>17 DEF DecodeRecords
  <2> QED
    BY <1>2, <2>1, <2>2, <2>3, <2>4, <2>5, <2>6, <2>7, <2>8, <2>9, <2>10, <2>11, <2>12,
       <2>13, <2>14, <2>15, <2>16, <2>17 DEF ThreadStep, AddTemplate, DecodeDataSet
<1> QED
  BY <1>1, <1>2 DEF Next

\* Every variable of the cache and of its lock keeps to its type.
THEOREM CacheTyping == Spec => []TypeOK
<1> QED
  BY TypeInit, TypeNext, PTL DEF Spec

-----------------------------------------------------------------------------
(* The inductive invariant.                                                *)

Adding == {"wr_lock", "find", "insert", "compare", "delete", "assign"}
Using == {"unlock_get", "length", "count_lock", "count", "count_unlock", "decode"}

Cached(c) == \E k \in Keys : cache[k] = c

\* A list that was never read has no definition, all others keep theirs; a thread
\* that adds a template has its list, and one that main did not create does nothing.
Always == /\ \A c \in Cells : heap[c].state = "unborn" => heap[c].def = NULL
          /\ \A k \in Keys : cache[k] # NULL => heap[cache[k]].def # NULL
          /\ \A t \in Threads : at[t] \in Adding =>
               list[t] # NULL /\ heap[list[t]].def # NULL
          /\ \A t \in Threads : t \notin crew => at[t] = "idle"

\* While all templates define the same no list in the cache is replaced: the lists
\* that are freed are those of threads that came too late with theirs.
WhileOneDefinition ==
  /\ \A t \in Threads : at[t] \notin {"delete", "assign"}
  /\ \A t \in Threads : at[t] = "compare" => cache[key[t]] # NULL
  /\ \A k \in Keys : cache[k] # NULL => heap[cache[k]].state = "live"
  /\ \A t \in Threads : at[t] \in Adding =>
       /\ heap[list[t]].state = "live" /\ ~Cached(list[t])
       /\ \A u \in Threads : u # t /\ at[u] \in Adding => list[u] # list[t]
  /\ \A t \in Threads : at[t] \in Using /\ list[t] # NULL => Cached(list[t])

\* A thread alone: each list in the cache is there once, and lives but while its
\* replacement waits; a list that lives is in the cache or in the thread's hands;
\* what was learned is in the cache or about to get there; the counter is even
\* whenever the lock is asked for.
WhileAlone(t) ==
  /\ \A j, k \in Keys : cache[j] = cache[k] /\ cache[j] # NULL => j = k
  /\ \A k \in Keys : cache[k] # NULL /\ ~(at[t] = "assign" /\ k = key[t])
                       => heap[cache[k]].state = "live"
  /\ at[t] \in Adding => heap[list[t]].state = "live" /\ ~Cached(list[t])
  /\ at[t] = "insert" => cache[key[t]] = NULL
  /\ at[t] \in {"compare", "delete", "assign"} => cache[key[t]] # NULL
  /\ at[t] = "assign" => heap[cache[key[t]]].state = "freed"
  /\ at[t] \in Using /\ list[t] # NULL => Cached(list[t])
  /\ at[t] \in {"idle", "rd_lock", "get"} => list[t] = NULL
  /\ \A c \in Cells : heap[c].state = "live" =>
       Cached(c) \/ (list[t] = c /\ at[t] \in Adding)
  /\ \A k \in Keys : ~(at[t] \in Adding /\ k = key[t]) =>
       learned[k] = IF cache[k] = NULL THEN NULL ELSE heap[cache[k]].def
  /\ at[t] \in Adding => learned[key[t]] = heap[list[t]].def
  /\ library = "old" =>
       (Even(readers) <=> at[t] \in {"idle", "wr_lock", "rd_lock", "length",
                                     "count_lock", "decode"})

HInv == /\ TypeOK /\ Always
        /\ OneDefinition => WhileOneDefinition
        /\ \A t \in crew : crew = {t} => WhileAlone(t)

LEMMA FreeEffect ==
  ASSUME TypeOK, NEW c, Free(c)
  PROVE  \A x \in Cells : /\ heap'[x].def = heap[x].def
                          /\ heap'[x].state = IF x = c THEN "freed" ELSE heap[x].state
BY DEF Free, TypeOK

LEMMA KeepsEffect ==
  ASSUME TypeOK, NEW t \in Threads, NEW k \in Keys, NEW d, NEW c \in Cells,
         Keeps(t, k, d, c)
  PROVE  /\ heap'[c].state = "live" /\ heap'[c].def = d
         /\ \A x \in Cells : x # c => heap'[x] = heap[x]
         /\ list'[t] = c /\ key'[t] = k /\ at'[t] = "wr_lock" /\ learned'[k] = d
         /\ \A u \in Threads : u # t => /\ list'[u] = list[u] /\ key'[u] = key[u]
                                       /\ at'[u] = at[u]
         /\ \A j \in Keys : j # k => learned'[j] = learned[j]
BY DEF Keeps, TypeOK

LEMMA CacheInit == Init => HInv
<1> SUFFICES ASSUME Init PROVE HInv
  OBVIOUS
<1>1. TypeOK
  BY TypeInit
<1>2. Always
  BY DEF Init, Always, Adding
<1>3. WhileOneDefinition
  BY DEF Init, WhileOneDefinition, Adding, Using
<1>4. ASSUME NEW t \in crew PROVE WhileAlone(t)
  BY DEF Init, RwLockInit, WhileAlone, Adding, Using, Even
<1> QED
  BY <1>1, <1>2, <1>3, <1>4 DEF HInv

\* What holds always.
LEMMA AlwaysStep ==
  ASSUME TypeOK, Always, NEW t \in crew, ThreadStep(t), crew' = crew
  PROVE  Always'
<1> USE DEF Always, Adding, TypeOK, Go, Free
<1>0. t \in Threads
  BY DEF TypeOK
<1>1. ASSUME NEW k \in Keys, NEW d \in Definitions, ReadTemplate(t, k, d)
      PROVE  Always'
  <2>1. PICK c \in Cells : heap[c].state = "unborn" /\ (Keeps(t, k, d, c) \/ Loses(d, c))
    BY <1>1, RecordRead
  <2>2. UNCHANGED cache /\ at[t] = "idle" /\ d # NULL /\ UNCHANGED readers
    BY <1>1, RecordRead, CacheAssumption
  <2>3. CASE Keeps(t, k, d, c)
    <3>1. /\ heap'[c].state = "live" /\ heap'[c].def = d
          /\ \A x \in Cells : x # c => heap'[x] = heap[x]
          /\ list'[t] = c /\ key'[t] = k /\ at'[t] = "wr_lock" /\ learned'[k] = d
          /\ \A u \in Threads : u # t => /\ list'[u] = list[u] /\ key'[u] = key[u]
                                        /\ at'[u] = at[u]
          /\ \A j \in Keys : j # k => learned'[j] = learned[j]
      BY <1>0, <2>3, KeepsEffect
    <3>2. c # NULL /\ \A j \in Keys : cache[j] # NULL => cache[j] # c /\ cache[j] \in Cells
      BY <2>1, CacheAssumption
    <3>3. \A u \in Threads : at[u] \in Adding => list[u] # c /\ list[u] \in Cells
      BY <2>1
    <3>4. \A j \in Keys : cache'[j] # NULL => heap'[cache'[j]].def # NULL
      BY <2>2, <3>1, <3>2
    <3>5. \A u \in Threads : at'[u] \in Adding => list'[u] # NULL /\ heap'[list'[u]].def # NULL
      BY <2>2, <3>1, <3>2, <3>3
    <3>6. \A x \in Cells : heap'[x].state = "unborn" => heap'[x].def = NULL
      BY <3>1
    <3> QED
      BY <2>2, <3>1, <3>4, <3>5, <3>6
  <2>4. CASE Loses(d, c)
    BY <1>0, <2>1, <2>2, <2>4 DEF Loses
  <2> QED
    BY <2>1, <2>3, <2>4
<1>2. ASSUME NEW k \in Keys, ReadDataSet(t, k) PROVE Always'
  BY <1>0, <1>2 DEF ReadDataSet
<1>3. CASE LockToAdd(t)
  BY <1>0, <1>3 DEF LockToAdd
<1>4. CASE FindTemplate(t)
  BY <1>0, <1>4 DEF FindTemplate
<1>5. CASE InsertTemplate(t)
  BY <1>0, <1>5 DEF InsertTemplate
<1>6. CASE CompareTemplate(t)
  BY <1>0, <1>6, FreeEffect DEF CompareTemplate
<1>7. CASE DeleteOldList(t)
  BY <1>0, <1>7 DEF DeleteOldList
<1>8. CASE AssignNewList(t)
  BY <1>0, <1>8 DEF AssignNewList
<1>9. CASE UnlockAfterAdd(t)
  BY <1>0, <1>9 DEF UnlockAfterAdd
<1>10. CASE LockToGet(t)
  BY <1>0, <1>10 DEF LockToGet
<1>11. CASE GetFieldList(t)
  BY <1>0, <1>11 DEF GetFieldList
<1>12. CASE UnlockAfterGet(t)
  BY <1>0, <1>12 DEF UnlockAfterGet
<1>13. CASE GetDataSetLength(t)
  BY <1>0, <1>13 DEF GetDataSetLength
<1>14. CASE LockToCount(t)
  BY <1>0, <1>14 DEF LockToCount
<1>15. CASE CountFields(t)
  BY <1>0, <1>15 DEF CountFields
<1>16. CASE UnlockAfterCount(t)
  BY <1>0, <1>16 DEF UnlockAfterCount
<1>17. CASE DecodeRecords(t)
  BY <1>0, <1>17 DEF DecodeRecords
<1> QED
  BY <1>1, <1>2, <1>3, <1>4, <1>5, <1>6, <1>7, <1>8, <1>9, <1>10, <1>11, <1>12,
     <1>13, <1>14, <1>15, <1>16, <1>17
     DEF ThreadStep, AddTemplate, DecodeDataSet

\* What holds while all templates define the same.
LEMMA OneDefinitionStep ==
  ASSUME TypeOK, TypeOK', Always, OneDefinition, WhileOneDefinition,
         NEW t \in crew, ThreadStep(t), crew' = crew, OneDefinition'
  PROVE  WhileOneDefinition'
<1> USE DEF Always, WhileOneDefinition, Cached, Adding, Using, TypeOK, Go, Free
<1>0. t \in Threads
  BY DEF TypeOK
<1>1. ASSUME NEW k \in Keys, NEW d \in Definitions, ReadTemplate(t, k, d)
      PROVE  WhileOneDefinition'
  <2>1. PICK c \in Cells : heap[c].state = "unborn" /\ (Keeps(t, k, d, c) \/ Loses(d, c))
    BY <1>1, RecordRead
  <2>2. UNCHANGED cache /\ at[t] = "idle" /\ d # NULL /\ UNCHANGED readers
    BY <1>1, RecordRead, CacheAssumption
  <2>3. CASE Keeps(t, k, d, c)
    <3>1. /\ heap'[c].state = "live" /\ heap'[c].def = d
          /\ \A x \in Cells : x # c => heap'[x] = heap[x]
          /\ list'[t] = c /\ key'[t] = k /\ at'[t] = "wr_lock" /\ learned'[k] = d
          /\ \A u \in Threads : u # t => /\ list'[u] = list[u] /\ key'[u] = key[u]
                                        /\ at'[u] = at[u]
          /\ \A j \in Keys : j # k => learned'[j] = learned[j]
      BY <1>0, <2>3, KeepsEffect
    <3>2. c # NULL /\ \A j \in Keys : cache[j] # NULL => cache[j] # c /\ cache[j] \in Cells
      BY <2>1, CacheAssumption
    <3>3. \A u \in Threads : at[u] \in Adding => list[u] # c /\ list[u] \in Cells
      BY <2>1
    <3>4. \A j \in Keys : cache'[j] # NULL => heap'[cache'[j]].state = "live"
      BY <2>2, <3>1, <3>2
    <3>5. ASSUME NEW u \in Threads, at'[u] \in Adding
          PROVE  /\ heap'[list'[u]].state = "live" /\ ~Cached(list[u])'
                 /\ \A w \in Threads : w # u /\ at'[w] \in Adding => list'[w] # list'[u]
      BY <2>2, <3>1, <3>2, <3>3, <3>5
    <3>6. ASSUME NEW u \in Threads, at'[u] \in Using, list'[u] # NULL
          PROVE  Cached(list[u])'
      BY <2>2, <3>1, <3>6
    <3> QED
      BY <2>2, <3>1, <3>4, <3>5, <3>6
  <2>4. CASE Loses(d, c)
    BY <1>0, <2>1, <2>2, <2>4 DEF Loses
  <2> QED
    BY <2>1, <2>3, <2>4
<1>2. ASSUME NEW k \in Keys, ReadDataSet(t, k) PROVE WhileOneDefinition'
  BY <1>0, <1>2 DEF ReadDataSet
<1>3. CASE LockToAdd(t)
  BY <1>0, <1>3 DEF LockToAdd
<1>4. CASE FindTemplate(t)
  BY <1>0, <1>4 DEF FindTemplate
<1>5. CASE InsertTemplate(t)
  BY <1>0, <1>5 DEF InsertTemplate
<1>6. CASE CompareTemplate(t)
  <2>1. /\ at[t] = "compare" /\ list[t] \in Cells /\ cache[key[t]] \in Cells
        /\ heap[list[t]].def # NULL /\ heap[cache[key[t]]].def # NULL
    BY <1>0, <1>6 DEF CompareTemplate
  <2>2. heap[cache[key[t]]].def = heap[list[t]].def
    BY <2>1 DEF OneDefinition
  <2>3. /\ heap' = [heap EXCEPT ![list[t]].state = "freed"]
        /\ at' = [at EXCEPT ![t] = "unlock_add"]
        /\ UNCHANGED <<cache, key, list>>
    BY <1>6, <2>2 DEF CompareTemplate
  <2>4. \A x \in Cells : x # list[t] => heap'[x].state = heap[x].state
    BY <2>1, <2>3, FreeEffect
  <2>5. at'[t] = "unlock_add" /\ \A u \in Threads : u # t => at'[u] = at[u]
    BY <1>0, <2>3
  <2>6. \A j \in Keys : cache'[j] # NULL => heap'[cache'[j]].state = "live"
    BY <1>0, <2>1, <2>3, <2>4
  <2>7. ASSUME NEW u \in Threads, at'[u] \in Adding
        PROVE  /\ heap'[list'[u]].state = "live" /\ ~Cached(list[u])'
               /\ \A w \in Threads : w # u /\ at'[w] \in Adding => list'[w] # list'[u]
    <3>1. u # t /\ at[u] \in Adding /\ list[u] \in Cells /\ list[u] # list[t]
      BY <1>0, <2>1, <2>5, <2>7
    <3> QED
      BY <1>0, <2>3, <2>4, <2>5, <3>1
  <2>8. ASSUME NEW u \in Threads, at'[u] \in Using, list'[u] # NULL
        PROVE  Cached(list[u])'
    BY <2>3, <2>5, <2>8
  <2> QED
    BY <2>3, <2>5, <2>6, <2>7, <2>8
<1>7. CASE DeleteOldList(t)
  BY <1>0, <1>7 DEF DeleteOldList
<1>8. CASE AssignNewList(t)
  BY <1>0, <1>8 DEF AssignNewList
<1>9. CASE UnlockAfterAdd(t)
  BY <1>0, <1>9 DEF UnlockAfterAdd
<1>10. CASE LockToGet(t)
  BY <1>0, <1>10 DEF LockToGet
<1>11. CASE GetFieldList(t)
  BY <1>0, <1>11 DEF GetFieldList
<1>12. CASE UnlockAfterGet(t)
  BY <1>0, <1>12 DEF UnlockAfterGet
<1>13. CASE GetDataSetLength(t)
  BY <1>0, <1>13 DEF GetDataSetLength
<1>14. CASE LockToCount(t)
  BY <1>0, <1>14 DEF LockToCount
<1>15. CASE CountFields(t)
  BY <1>0, <1>15 DEF CountFields
<1>16. CASE UnlockAfterCount(t)
  BY <1>0, <1>16 DEF UnlockAfterCount
<1>17. CASE DecodeRecords(t)
  BY <1>0, <1>17 DEF DecodeRecords
<1> QED
  BY <1>1, <1>2, <1>3, <1>4, <1>5, <1>6, <1>7, <1>8, <1>9, <1>10, <1>11, <1>12,
     <1>13, <1>14, <1>15, <1>16, <1>17
     DEF ThreadStep, AddTemplate, DecodeDataSet

\* What holds for a thread alone.
LEMMA AloneStep ==
  ASSUME TypeOK, Always, NEW t \in crew, WhileAlone(t), ThreadStep(t), UNCHANGED <<library, crew>>
  PROVE  WhileAlone(t)'
<1> USE DEF Always, WhileAlone, Cached, Adding, Using, TypeOK, Go, Free
<1>0. t \in Threads
  BY DEF TypeOK
<1>a. /\ RwUnlock => (Even(readers') <=> ~Even(readers))
      /\ RdLock /\ ~RdLockFails => (Even(readers') <=> ~Even(readers))
      /\ library = "old" /\ Even(readers) => ~RdLockFails
  BY CounterParity DEF RwLockTypeOK
<1>1. ASSUME NEW k \in Keys, NEW d \in Definitions, ReadTemplate(t, k, d)
      PROVE  WhileAlone(t)'
  <2>1. PICK c \in Cells : heap[c].state = "unborn" /\ (Keeps(t, k, d, c) \/ Loses(d, c))
    BY <1>1, RecordRead
  <2>2. UNCHANGED cache /\ at[t] = "idle" /\ d # NULL /\ UNCHANGED readers
    BY <1>1, RecordRead, CacheAssumption
  <2>3. CASE Keeps(t, k, d, c)
    <3>1. /\ heap'[c].state = "live" /\ heap'[c].def = d
          /\ \A x \in Cells : x # c => heap'[x] = heap[x]
          /\ list'[t] = c /\ key'[t] = k /\ at'[t] = "wr_lock" /\ learned'[k] = d
          /\ \A u \in Threads : u # t => /\ list'[u] = list[u] /\ key'[u] = key[u]
                                        /\ at'[u] = at[u]
          /\ \A j \in Keys : j # k => learned'[j] = learned[j]
      BY <1>0, <2>3, KeepsEffect
    <3>2. c # NULL /\ \A j \in Keys : cache[j] # NULL => cache[j] # c /\ cache[j] \in Cells
      BY <2>1, CacheAssumption
    <3>3. \A j \in Keys : cache'[j] # NULL => heap'[cache'[j]] = heap[cache[j]]
      BY <2>2, <3>1, <3>2
    <3>4. \A j \in Keys : cache'[j] # NULL => heap'[cache'[j]].state = "live"
      BY <2>2, <3>1, <3>2
    <3>5. ASSUME NEW x \in Cells, heap'[x].state = "live" PROVE Cached(x)' \/ list'[t] = x
      BY <2>2, <3>1, <3>5
    <3>6. \A j \in Keys : j # k =>
            learned'[j] = IF cache'[j] = NULL THEN NULL ELSE heap'[cache'[j]].def
      BY <2>2, <3>1, <3>3
    <3> QED
      BY <2>2, <3>1, <3>2, <3>4, <3>5, <3>6
  <2>4. CASE Loses(d, c)
    BY <1>0, <2>1, <2>2, <2>4 DEF Loses
  <2> QED
    BY <2>1, <2>3, <2>4
<1>2. ASSUME NEW k \in Keys, ReadDataSet(t, k) PROVE WhileAlone(t)'
  BY <1>0, <1>2 DEF ReadDataSet
<1>3. CASE LockToAdd(t)
  BY <1>0, <1>a, <1>3 DEF LockToAdd, WrLock
<1>4. CASE FindTemplate(t)
  BY <1>0, <1>4 DEF FindTemplate
<1>5. CASE InsertTemplate(t)
  <2>1. /\ at[t] \in Adding /\ list[t] \in Cells /\ list[t] # NULL /\ key[t] \in Keys
        /\ heap[list[t]].state = "live" /\ ~Cached(list[t])
    BY <1>0, <1>5 DEF InsertTemplate
  <2>2. /\ at'[t] = "unlock_add" /\ UNCHANGED <<readers, heap, key, list, learned>>
        /\ cache'[key[t]] = list[t] /\ \A j \in Keys : j # key[t] => cache'[j] = cache[j]
    BY <1>0, <1>5 DEF InsertTemplate
  <2>3. \A j \in Keys : cache[j] # list[t]
    BY <2>1
  <2>4. \A j, k \in Keys : cache'[j] = cache'[k] /\ cache'[j] # NULL => j = k
    BY <2>1, <2>2, <2>3
  <2>5. \A j \in Keys : cache'[j] # NULL => heap'[cache'[j]].state = "live"
    BY <1>5, <2>1, <2>2 DEF InsertTemplate
  <2>6. ASSUME NEW x \in Cells, heap'[x].state = "live" PROVE Cached(x)'
    <3>1. x = list[t] \/ \E j \in Keys : j # key[t] /\ cache[j] = x
      BY <1>5, <2>1, <2>2, <2>6, CacheAssumption DEF InsertTemplate
    <3> QED
      BY <2>1, <2>2, <3>1
  <2>7. \A j \in Keys :
          learned'[j] = IF cache'[j] = NULL THEN NULL ELSE heap'[cache'[j]].def
    BY <2>1, <2>2
  <2>8. Cached(list[t])'
    BY <2>1, <2>2
  <2>9. library' = "old" => ~Even(readers')
    BY <1>5, <2>2 DEF InsertTemplate
  <2> QED
    BY <2>2, <2>4, <2>5, <2>6, <2>7, <2>8, <2>9
<1>6. CASE CompareTemplate(t)
  BY <1>0, <1>6, FreeEffect DEF CompareTemplate
<1>7. CASE DeleteOldList(t)
  BY <1>0, <1>7 DEF DeleteOldList
<1>8. CASE AssignNewList(t)
  <2>1. /\ at[t] \in Adding /\ list[t] \in Cells /\ list[t] # NULL /\ key[t] \in Keys
        /\ heap[list[t]].state = "live" /\ ~Cached(list[t])
    BY <1>0, <1>8 DEF AssignNewList
  <2>2. /\ at'[t] = "unlock_add" /\ UNCHANGED <<readers, heap, key, list, learned>>
        /\ cache'[key[t]] = list[t] /\ \A j \in Keys : j # key[t] => cache'[j] = cache[j]
    BY <1>0, <1>8 DEF AssignNewList
  <2>3. \A j \in Keys : cache[j] # list[t]
    BY <2>1
  <2>4. \A j, k \in Keys : cache'[j] = cache'[k] /\ cache'[j] # NULL => j = k
    BY <2>1, <2>2, <2>3
  <2>5. \A j \in Keys : cache'[j] # NULL => heap'[cache'[j]].state = "live"
    BY <1>8, <2>1, <2>2 DEF AssignNewList
  <2>6. ASSUME NEW x \in Cells, heap'[x].state = "live" PROVE Cached(x)'
    <3>1. x = list[t] \/ \E j \in Keys : j # key[t] /\ cache[j] = x
      BY <1>8, <2>1, <2>2, <2>6 DEF AssignNewList
    <3> QED
      BY <2>1, <2>2, <3>1
  <2>7. \A j \in Keys :
          learned'[j] = IF cache'[j] = NULL THEN NULL ELSE heap'[cache'[j]].def
    BY <2>1, <2>2
  <2>8. Cached(list[t])'
    BY <2>1, <2>2
  <2>9. library' = "old" => ~Even(readers')
    BY <1>8, <2>2 DEF AssignNewList
  <2> QED
    BY <2>2, <2>4, <2>5, <2>6, <2>7, <2>8, <2>9
<1>9. CASE UnlockAfterAdd(t)
  BY <1>0, <1>a, <1>9 DEF UnlockAfterAdd
<1>10. CASE LockToGet(t)
  BY <1>0, <1>a, <1>10 DEF LockToGet
<1>11. CASE GetFieldList(t)
  BY <1>0, <1>11 DEF GetFieldList
<1>12. CASE UnlockAfterGet(t)
  BY <1>0, <1>a, <1>12 DEF UnlockAfterGet
<1>13. CASE GetDataSetLength(t)
  BY <1>0, <1>13 DEF GetDataSetLength
<1>14. CASE LockToCount(t)
  BY <1>0, <1>a, <1>14 DEF LockToCount
<1>15. CASE CountFields(t)
  BY <1>0, <1>15 DEF CountFields
<1>16. CASE UnlockAfterCount(t)
  BY <1>0, <1>a, <1>16 DEF UnlockAfterCount
<1>17. CASE DecodeRecords(t)
  BY <1>0, <1>17 DEF DecodeRecords
<1> QED
  BY <1>1, <1>2, <1>3, <1>4, <1>5, <1>6, <1>7, <1>8, <1>9, <1>10, <1>11, <1>12,
     <1>13, <1>14, <1>15, <1>16, <1>17
     DEF ThreadStep, AddTemplate, DecodeDataSet

\* No list ever gets another definition.
LEMMA DefinitionsStay ==
  ASSUME TypeOK, Always, NEW t \in crew, ThreadStep(t)
  PROVE  OneDefinition' => OneDefinition
<1>1. ASSUME NEW c \in Cells, heap[c].def # NULL PROVE heap'[c].def = heap[c].def
  <2>1. ASSUME NEW k \in Keys, NEW d \in Definitions, ReadTemplate(t, k, d)
        PROVE  heap'[c].def = heap[c].def
    <3>1. PICK x \in Cells : heap[x].state = "unborn" /\ (Keeps(t, k, d, x) \/ Loses(d, x))
      BY <2>1, RecordRead
    <3>2. x # c
      BY <1>1, <3>1 DEF Always
    <3> QED
      BY <3>1, <3>2 DEF Keeps, Loses, TypeOK
  <2>2. CASE UNCHANGED heap
    BY <2>2
  <2>3. CASE \E x : Free(x)
    BY <2>3, FreeEffect
  <2> QED
    BY <2>1, <2>2, <2>3
       DEF ThreadStep, AddTemplate, LockToAdd, FindTemplate, InsertTemplate, CompareTemplate,
           DeleteOldList, AssignNewList, UnlockAfterAdd, ReadDataSet, DecodeDataSet,
           LockToGet, GetFieldList, UnlockAfterGet, GetDataSetLength, LockToCount,
           CountFields, UnlockAfterCount, DecodeRecords
<1> QED
  BY <1>1 DEF OneDefinition

LEMMA CacheNext == HInv /\ [Next]_vars => HInv'
<1> SUFFICES ASSUME HInv, [Next]_vars PROVE HInv'
  OBVIOUS
<1>1. TypeOK'
  BY TypeNext DEF HInv
<1>2. CASE UNCHANGED vars
  BY <1>1, <1>2 DEF vars, HInv, Always, OneDefinition, WhileOneDefinition, WhileAlone, Cached
<1>3. ASSUME NEW t \in crew, ThreadStep(t), UNCHANGED <<library, crew>> PROVE HInv'
  <2>1. Always'
    BY <1>3, AlwaysStep DEF HInv
  <2>2. ASSUME OneDefinition' PROVE WhileOneDefinition'
    BY <1>1, <1>3, <2>2, DefinitionsStay, OneDefinitionStep DEF HInv
  <2>3. ASSUME NEW u \in crew', crew' = {u} PROVE WhileAlone(u)'
    <3>1. u = t /\ crew = {t}
      BY <1>3, <2>3
    <3>2. WhileAlone(t)
      BY <1>3, <3>1 DEF HInv
    <3> QED
      BY <1>3, <3>1, <3>2, AloneStep DEF HInv
  <2> QED
    BY <1>1, <2>1, <2>2, <2>3 DEF HInv
<1> QED
  BY <1>2, <1>3 DEF Next

-----------------------------------------------------------------------------
(* What follows from it.                                                   *)

\* The cache keeps HInv, whoever uses it.
THEOREM CacheInvariant == Spec => []HInv
<1> QED
  BY CacheInit, CacheNext, PTL DEF Spec

\* No thread reads or deletes a field list after it was deleted, as long as there
\* is one converter thread or the definition of a template never changes.
THEOREM ListsLiveWhileUsed == Spec => []NoUseAfterFree
<1>1. HInv => NoUseAfterFree
  <2> SUFFICES ASSUME HInv, Alone \/ OneDefinition,
                      NEW t \in Threads, Touches(t) # NULL
               PROVE  heap[Touches(t)].state = "live"
    BY DEF NoUseAfterFree
  <2>1. CASE OneDefinition
    BY <2>1 DEF HInv, TypeOK, WhileOneDefinition, Touches, Cached, Using
  <2>2. CASE Alone
    <3>1. PICK u \in crew : crew = {u}
      BY <2>2 DEF Alone
    <3>2. t = u
      BY <3>1 DEF HInv, Always, Touches
    <3>3. WhileAlone(t)
      BY <3>1, <3>2 DEF HInv
    <3> QED
      BY <3>3 DEF HInv, TypeOK, WhileAlone, Touches, Cached, Using
  <2> QED
    BY <2>1, <2>2
<1> QED
  BY <1>1, CacheInvariant, PTL

\* A field list that a lone thread handed to the cache is in the cache until it is
\* deleted.
THEOREM ListsAreFreed == Spec => []NoLeak
<1>1. HInv => NoLeak
  <2> SUFFICES ASSUME HInv, Alone, NEW c \in Cells, heap[c].state = "live"
               PROVE  \/ \E k \in Keys : cache[k] = c
                      \/ \E t \in Threads : list[t] = c
    BY DEF NoLeak
  <2>1. PICK t \in crew : crew = {t}
    BY DEF Alone
  <2>2. WhileAlone(t) /\ t \in Threads
    BY <2>1 DEF HInv, TypeOK
  <2> QED
    BY <2>2 DEF WhileAlone, Cached
<1> QED
  BY <1>1, CacheInvariant, PTL

\* What a data set finds in the cache is the latest template of its domain and id;
\* only the lock of glibc 2.25 and later makes it find nothing when there is one.
THEOREM StoreImplemented == Spec => ImplementsTemplateStore
<1> DEFINE nobody == [t \in Threads |-> <<>>]
           shown == IF Alone THEN answer ELSE nobody
<1>1. Init => Store!Init
  BY DEF Init, Store!Init, Alone
<1>2. HInv /\ [Next]_vars => [Store!Next]_Store!vars
  <2> SUFFICES ASSUME HInv, [Next]_vars PROVE [Store!Next]_Store!vars
    OBVIOUS
  <2>1. CASE UNCHANGED vars
    BY <2>1 DEF vars, Store!vars, Alone
  <2>2. ASSUME NEW t \in crew, ThreadStep(t), UNCHANGED <<library, crew>>
        PROVE  [Store!Next]_Store!vars
    <3>0. /\ t \in Threads /\ key[t] \in Keys /\ UNCHANGED nobody
          /\ Alone' = Alone /\ (library = "new")' = (library = "new")
      BY <2>2 DEF HInv, TypeOK, Alone
    <3>1. ASSUME NEW k \in Keys, NEW d \in Definitions, ReadTemplate(t, k, d)
          PROVE  [Store!Next]_Store!vars
      <4>1. UNCHANGED shown
        BY <3>0, <3>1 DEF ReadTemplate
      <4>2. learned' = [learned EXCEPT ![k] = d] \/ UNCHANGED learned
        BY <3>1 DEF ReadTemplate
      <4> QED
        BY <3>0, <4>1, <4>2 DEF Store!Next, Store!Learn, Store!vars
    <3>2. CASE UNCHANGED <<learned, answer>>
      BY <3>0, <3>2 DEF Store!vars
    <3>3. ASSUME UNCHANGED learned, ~Alone PROVE [Store!Next]_Store!vars
      BY <3>0, <3>3 DEF Store!vars
    <3>4. ASSUME UNCHANGED learned, Alone,
                 \/ answer' = [answer EXCEPT ![t] = <<key[t], learned[key[t]]>>]
                 \/ library = "new" /\ answer' = [answer EXCEPT ![t] = <<key[t], NULL>>]
          PROVE  [Store!Next]_Store!vars
      <4>1. Store!Ask(t, key[t])
        BY <3>0, <3>4 DEF Store!Ask
      <4> QED
        BY <3>0, <4>1 DEF Store!Next
    <3>5. ASSUME Alone PROVE WhileAlone(t)
      BY <3>5 DEF HInv, Alone
    <3>6. CASE LockToGet(t)
      <4>1. CASE RdLockFails /\ Alone
        <5>1. library = "new"
          <6>1. library \in {"old", "new"}
            BY RwLockAssumption DEF HInv, TypeOK, RwLockTypeOK
          <6>2. library = "old" => Even(readers)
            BY <3>5, <3>6, <4>1 DEF WhileAlone, LockToGet
          <6> QED
            BY <4>1, <6>1, <6>2, CounterParity DEF HInv, TypeOK, RwLockTypeOK
        <5>2. answer' = [answer EXCEPT ![t] = <<key[t], NULL>>] /\ UNCHANGED learned
          BY <3>6, <4>1 DEF LockToGet
        <5> QED
          BY <3>4, <4>1, <5>1, <5>2
      <4>2. CASE ~RdLockFails \/ ~Alone
        BY <3>2, <3>3, <3>6, <4>2 DEF LockToGet
      <4> QED
        BY <4>1, <4>2
    <3>7. CASE GetFieldList(t)
      <4>1. CASE Alone
        <5>1. learned[key[t]] = IF cache[key[t]] = NULL THEN NULL ELSE heap[cache[key[t]]].def
          BY <3>0, <3>5, <3>7, <4>1 DEF WhileAlone, GetFieldList, Adding
        <5>2. answer' = [answer EXCEPT ![t] = <<key[t], learned[key[t]]>>] /\ UNCHANGED learned
          BY <3>7, <5>1 DEF GetFieldList
        <5> QED
          BY <3>4, <4>1, <5>2
      <4>2. CASE ~Alone
        BY <3>3, <3>7, <4>2 DEF GetFieldList
      <4> QED
        BY <4>1, <4>2
    <3> QED
      BY <2>2, <3>1, <3>2, <3>6, <3>7
         DEF ThreadStep, AddTemplate, LockToAdd, FindTemplate, InsertTemplate,
             CompareTemplate, DeleteOldList, AssignNewList, UnlockAfterAdd, ReadDataSet,
             DecodeDataSet, UnlockAfterGet, GetDataSetLength, LockToCount, CountFields,
             UnlockAfterCount, DecodeRecords
  <2> QED
    BY <2>1, <2>2 DEF Next
<1> QED
  BY <1>1, <1>2, CacheInvariant, PTL DEF Spec, ImplementsTemplateStore, Store!Spec
=============================================================================
