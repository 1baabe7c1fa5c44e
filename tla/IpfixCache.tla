------------------------------ MODULE IpfixCache ------------------------------
(***************************************************************************)
(* The cache of IPFIX templates that all converter threads share           *)
(* (converter/ipfix/cache), with the two functions of the parser that use  *)
(* it: ipfix_parse_template_set and ipfix_parse_data_set.  Field lists     *)
(* live on the heap; the cache maps an observation domain and a template   *)
(* id to a pointer.                                                        *)
(***************************************************************************)
EXTENDS RwLock

CONSTANTS Threads,      \* the converter threads that there may be
          Keys,         \* SIPFIXTemplateCache: observation domain, template id
          Definitions,  \* the field lists that templates may define
          Cells,        \* bound: the field lists that can be allocated
          NULL

ASSUME CacheAssumption == NULL \notin Cells \cup Definitions

VARIABLES
  crew,     \* the converter threads that main has created
  cache,    \* g_mapTemplateCache: the field list under each key, or NULL
  heap,     \* each field list: what it defines, and whether it is "unborn",
            \* "live", "freed" or "lost" (never freed, never cached)
  at,       \* what each thread is doing
  key,      \* the template that the thread learns or looks up
  list,     \* psoFieldList: the thread's pointer
  learned,  \* history: the last definition given to the cache under each key
  answer    \* history: the last lookup of each thread and what it found

vars == <<readers, library, crew, cache, heap, at, key, list, learned, answer>>

Init == /\ RwLockInit
        /\ crew \in (SUBSET Threads) \ {{}}
        /\ cache = [k \in Keys |-> NULL]
        /\ heap = [c \in Cells |-> [state |-> "unborn", def |-> NULL]]
        /\ at = [t \in Threads |-> "idle"]
        /\ key \in [Threads -> Keys]
        /\ list = [t \in Threads |-> NULL]
        /\ learned = [k \in Keys |-> NULL]
        /\ answer = [t \in Threads |-> <<>>]

Go(t, place) == at' = [at EXCEPT ![t] = place]
Free(c) == heap' = [heap EXCEPT ![c].state = "freed"]

\* ipfix_converter_template_cache_wr_lock
WrLock == RwUnlock

-----------------------------------------------------------------------------
(* ipfix_parse_template_set and ipfix_converter_add_template.              *)

\* A template record becomes a new field list.  A record that ends before all
\* its fields are read is dropped without freeing it.
ReadTemplate(t, k, d) ==
  /\ at[t] = "idle"
  /\ \E c \in Cells :
       /\ heap[c].state = "unborn"
       /\ \/ /\ heap' = [heap EXCEPT ![c] = [state |-> "live", def |-> d]]
             /\ list' = [list EXCEPT ![t] = c]
             /\ key' = [key EXCEPT ![t] = k]
             /\ learned' = [learned EXCEPT ![k] = d]
             /\ Go(t, "wr_lock")
          \/ /\ heap' = [heap EXCEPT ![c] = [state |-> "lost", def |-> d]]
             /\ UNCHANGED <<list, key, learned, at>>
  /\ UNCHANGED <<readers, cache, answer>>

LockToAdd(t) == /\ at[t] = "wr_lock"
                /\ WrLock
                /\ Go(t, "find")
                /\ UNCHANGED <<cache, heap, key, list, learned, answer>>

FindTemplate(t) == /\ at[t] = "find"
                   /\ Go(t, IF cache[key[t]] = NULL THEN "insert" ELSE "compare")
                   /\ UNCHANGED <<readers, cache, heap, key, list, learned, answer>>

\* std::map::insert does nothing if the key has come up meanwhile.
InsertTemplate(t) ==
  /\ at[t] = "insert"
  /\ cache' = [cache EXCEPT ![key[t]] = IF @ = NULL THEN list[t] ELSE @]
  /\ Go(t, "unlock_add")
  /\ UNCHANGED <<readers, heap, key, list, learned, answer>>

\* Mutant: the list in the cache goes instead of the new one.
CompareAndFreeCached(t) ==
  /\ at[t] = "compare"
  /\ IF heap[cache[key[t]]].def = heap[list[t]].def
     THEN Free(cache[key[t]]) /\ Go(t, "unlock_add")
     ELSE Go(t, "delete") /\ UNCHANGED heap
  /\ UNCHANGED <<readers, cache, key, list, learned, answer>>

\* The same definition again: the new field list goes (EALREADY).
CompareTemplate(t) ==
  /\ at[t] = "compare"
  /\ IF heap[cache[key[t]]].def = heap[list[t]].def
     THEN Free(list[t]) /\ Go(t, "unlock_add")
     ELSE Go(t, "delete") /\ UNCHANGED heap
  /\ UNCHANGED <<readers, cache, key, list, learned, answer>>

\* Mutant: the list that is replaced is not deleted.
KeepOldList(t) == /\ at[t] = "delete"
                  /\ Go(t, "assign")
                  /\ UNCHANGED <<readers, cache, heap, key, list, learned, answer>>

DeleteOldList(t) == /\ at[t] = "delete"
                    /\ Free(cache[key[t]])
                    /\ Go(t, "assign")
                    /\ UNCHANGED <<readers, cache, key, list, learned, answer>>

\* Mutant: the first template stays, as in the cache for NetFlow 9.
AssignNothing(t) == /\ at[t] = "assign"
                    /\ Go(t, "unlock_add")
                    /\ UNCHANGED <<readers, cache, heap, key, list, learned, answer>>

AssignNewList(t) == /\ at[t] = "assign"
                    /\ cache' = [cache EXCEPT ![key[t]] = list[t]]
                    /\ Go(t, "unlock_add")
                    /\ UNCHANGED <<readers, heap, key, list, learned, answer>>

UnlockAfterAdd(t) == /\ at[t] = "unlock_add"
                     /\ RwUnlock
                     /\ list' = [list EXCEPT ![t] = NULL]
                     /\ Go(t, "idle")
                     /\ UNCHANGED <<cache, heap, key, learned, answer>>

AddTemplate(t) == \/ LockToAdd(t) \/ FindTemplate(t) \/ InsertTemplate(t)
                  \/ CompareTemplate(t) \/ DeleteOldList(t) \/ AssignNewList(t)
                  \/ UnlockAfterAdd(t)

-----------------------------------------------------------------------------
(* ipfix_parse_data_set and the functions it calls.                        *)

ReadDataSet(t, k) == /\ at[t] = "idle"
                     /\ key' = [key EXCEPT ![t] = k]
                     /\ Go(t, "rd_lock")
                     /\ UNCHANGED <<readers, cache, heap, list, learned, answer>>

\* ipfix_converter_get_field_list answers NULL when it cannot lock.
LockToGet(t) ==
  /\ at[t] = "rd_lock"
  /\ RdLock
  /\ IF RdLockFails
     THEN /\ answer' = [answer EXCEPT ![t] = <<key[t], NULL>>]
          /\ Go(t, "idle")
     ELSE /\ Go(t, "get")
          /\ UNCHANGED answer
  /\ UNCHANGED <<cache, heap, key, list, learned>>

\* Mutant: psoRetVal is not set to NULL where the template is unknown.
GetFieldListUnset(t) ==
  /\ at[t] = "get"
  /\ list' = [list EXCEPT ![t] = IF cache[key[t]] = NULL THEN "unset" ELSE cache[key[t]]]
  /\ Go(t, "unlock_get")
  /\ UNCHANGED <<readers, cache, heap, key, learned, answer>>

GetFieldList(t) ==
  /\ at[t] = "get"
  /\ LET c == cache[key[t]] IN
       /\ list' = [list EXCEPT ![t] = c]
       /\ answer' = [answer EXCEPT ![t] =
                       <<key[t], IF c = NULL THEN NULL ELSE heap[c].def>>]
  /\ Go(t, "unlock_get")
  /\ UNCHANGED <<readers, cache, heap, key, learned>>

\* From here on the thread uses the pointer and holds no lock.
UnlockAfterGet(t) == /\ at[t] = "unlock_get"
                     /\ RwUnlock
                     /\ Go(t, IF list[t] = NULL THEN "idle" ELSE "length")
                     /\ UNCHANGED <<cache, heap, key, list, learned, answer>>

GetDataSetLength(t) == /\ at[t] = "length"
                       /\ Go(t, "count_lock")
                       /\ UNCHANGED <<readers, cache, heap, key, list, learned, answer>>

\* ipfix_converter_get_field_count: a refused lock is unlocked all the same.
LockToCount(t) == /\ at[t] = "count_lock"
                  /\ RdLock
                  /\ Go(t, "count")
                  /\ UNCHANGED <<cache, heap, key, list, learned, answer>>

CountFields(t) == /\ at[t] = "count"
                  /\ Go(t, "count_unlock")
                  /\ UNCHANGED <<readers, cache, heap, key, list, learned, answer>>

UnlockAfterCount(t) == /\ at[t] = "count_unlock"
                       /\ RwUnlock
                       /\ Go(t, "decode")
                       /\ UNCHANGED <<cache, heap, key, list, learned, answer>>

\* One step for all the fields of all the records: the pointer is read as long
\* as the thread stays here.
DecodeRecords(t) == /\ at[t] = "decode"
                    /\ list' = [list EXCEPT ![t] = NULL]
                    /\ Go(t, "idle")
                    /\ UNCHANGED <<readers, cache, heap, key, learned, answer>>

DecodeDataSet(t) == \/ LockToGet(t) \/ GetFieldList(t) \/ UnlockAfterGet(t)
                    \/ GetDataSetLength(t) \/ LockToCount(t) \/ CountFields(t)
                    \/ UnlockAfterCount(t) \/ DecodeRecords(t)

ThreadStep(t) == \/ \E k \in Keys, d \in Definitions : ReadTemplate(t, k, d)
                 \/ AddTemplate(t)
                 \/ \E k \in Keys : ReadDataSet(t, k)
                 \/ DecodeDataSet(t)

Next == (\E t \in crew : ThreadStep(t)) /\ UNCHANGED <<library, crew>>

Spec == Init /\ [][Next]_vars

-----------------------------------------------------------------------------
(* Properties.                                                             *)

TypeOK ==
  /\ RwLockTypeOK
  /\ crew \subseteq Threads /\ crew # {}
  /\ cache \in [Keys -> Cells \cup {NULL}]
  /\ heap \in [Cells -> [state : {"unborn", "live", "freed", "lost"},
                         def : Definitions \cup {NULL}]]
  /\ at \in [Threads -> {"idle", "wr_lock", "find", "insert", "compare", "delete",
                         "assign", "unlock_add", "rd_lock", "get", "unlock_get",
                         "length", "count_lock", "count", "count_unlock", "decode"}]
  /\ key \in [Threads -> Keys]
  /\ list \in [Threads -> Cells \cup {NULL}]
  /\ learned \in [Keys -> Definitions \cup {NULL}]
  /\ answer \in [Threads -> {<<>>} \cup (Keys \X (Definitions \cup {NULL}))]

\* The field list that the thread's next statement reads or deletes, or NULL.
Touches(t) ==
  CASE at[t] \in {"length", "count_lock", "count", "count_unlock", "decode"} -> list[t]
    [] at[t] \in {"compare", "delete", "get"} -> cache[key[t]]
    [] OTHER -> NULL

Alone == \E t \in crew : crew = {t}

\* Every template that was read so far defines the same fields.
OneDefinition ==
  \A c, d \in Cells : heap[c].def # NULL /\ heap[d].def # NULL => heap[c].def = heap[d].def

\* No thread reads or deletes a field list after it was deleted: a pointer that
\* ipfix_converter_get_field_list returned stays good until the data set is
\* decoded (ipfix_data_types.cpp:227-265), as long as there is one converter
\* thread, or the definition of a template never changes.
NoUseAfterFree ==
  Alone \/ OneDefinition => \A t \in Threads : Touches(t) # NULL => heap[Touches(t)].state = "live"

\* A field list that was handed to the cache is in the cache until it is
\* deleted: the list that is replaced, and the one that is there already, go.
\* Among several threads a list may be lost to another thread's.
NoLeak ==
  Alone => \A c \in Cells : heap[c].state = "live" =>
    \/ \E k \in Keys : cache[k] = c
    \/ \E t \in Threads : list[t] = c

\* What a data set finds in the cache is the latest template of its domain and
\* id, and a template is found as soon as it was learned, but where the lock of
\* glibc 2.25 and later refuses the reader and it finds nothing.  This is so for a
\* thread alone; what one finds among others is left out.
Store == INSTANCE TemplateStore
           WITH Readers <- Threads, NONE <- NULL,
                template <- learned, refusing <- library = "new",
                answer <- IF Alone THEN answer ELSE [t \in Threads |-> <<>>]

\* The cache implements the template store.
ImplementsTemplateStore == Store!Spec

Writing(t) == at[t] \in {"find", "insert", "compare", "delete", "assign", "unlock_add"}
Reading(t) == at[t] \in {"get", "unlock_get", "count", "count_unlock"}

\* ipfix_converter_template_cache_wr_lock gives the cache to one thread alone:
\* nobody else is between lock and unlock while a template is added.
WriterExcludes ==
  \A t, u \in Threads : t # u /\ Writing(t) => ~Writing(u) /\ ~Reading(u)
=============================================================================
