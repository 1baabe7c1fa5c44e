----------------------------- MODULE Nfv9Converter -----------------------------
(***************************************************************************)
(* How the threads take NetFlow 9 files apart (nfv9_converter.cpp,         *)
(* converter/nfv9/data_types, converter/nfv9/cache): a packet announces    *)
(* how many records follow in flowsets; a flowset holds templates or data; *)
(* what the loop has counted decides whether the next bytes are another    *)
(* flowset or the version number of the next packet.  The threads share    *)
(* the template cache and its lock.                                        *)
(*                                                                         *)
(* A file is a sequence of units: the head of a packet, a template         *)
(* flowset, a data flowset, a flowset with a reserved id, or what is left  *)
(* of a unit when the file is cut off.  Of a template flowset the code     *)
(* looks at its size and at the header of its FIRST record only.           *)
(***************************************************************************)
EXTENDS RwLock, Sequences, FiniteSets

CONSTANTS Threads,      \* the converter threads there may be
          FileContents, \* the files there may be
          MaxFiles,     \* bound: the files that the threads read together
          CountRange    \* ui16Count is taken modulo this, 2^16

RecordHeaderSize == 4   \* sizeof( SNFV9TemplateFlowSetHdr )
FieldSize == 4          \* sizeof( SNFV9Field )

UnitsOf(f) == {f[i] : i \in DOMAIN f}
Units == UNION {UnitsOf(f) : f \in FileContents}
OfKind(k) == {u \in Units : u.kind = k}

Sources == {u.source : u \in OfKind("packet")}
TemplateIds == {u.id : u \in OfKind("templates") \cup OfKind("data")}
Keys == Sources \X TemplateIds

\* There are far fewer threads than the reader counter has values.
ASSUME Nfv9Assumption ==
  /\ IsFiniteSet(Threads) /\ 10 * Cardinality(Threads) <= CounterSize
  /\ MaxFiles \in Nat /\ CountRange \in Nat \ {0}
  /\ \A f \in FileContents : f \in Seq(UnitsOf(f))
  /\ \A u \in Units : u.kind \in {"packet", "templates", "data", "reserved", "cut"}
  /\ \A u \in OfKind("packet") : u.count \in 0..(CountRange - 1)
  /\ \A u \in OfKind("templates") : u.declared \in Nat /\ u.size \in Nat

VARIABLES
  crew,   \* the threads that main has created
  cache,  \* g_umapTemplateCache: the keys under which a template is stored
  files,  \* the files read
  at,     \* the place of each thread, "crashed" of all
  local   \* what each thread holds:
          \*   content   the file at hand, as it was when it was opened
          \*   file      what is left of it
          \*   packet    p_psoHdr: the source id and the count of the packet
          \*   count     ui16Count of nfv9_parse_packet
          \*   flowset   the flowset at hand
          \*   operated  stOperated of nfv9_parse_template_flowset
          \*   ret       iRetVal of nfv9_parse_template_flowset
          \*   result    what the last file came to

shared == <<readers, cache, files>>
vars == <<readers, library, crew, cache, files, at, local>>

NoPacket == [kind |-> "packet", source |-> 0, count |-> 0]
NoFlowset == [kind |-> "reserved"]

Init == /\ RwLockInit /\ cache = {} /\ files = 0
        /\ crew \in (SUBSET Threads) \ {{}}
        /\ at = [t \in Threads |-> "idle"]
        /\ local = [t \in Threads |->
             [content |-> <<>>, file |-> <<>>, packet |-> NoPacket, count |-> 0,
              flowset |-> NoFlowset, operated |-> 0, ret |-> 0, result |-> "OK"]]

Go(t, place) == at' = [at EXCEPT ![t] = place]

OpenFile(t) ==
  /\ at[t] = "idle" /\ files < MaxFiles
  /\ files' = files + 1
  /\ \E f \in FileContents :
       local' = [local EXCEPT ![t].content = f, ![t].file = f]
  /\ Go(t, "version")
  /\ UNCHANGED <<readers, cache>>

Finish(t, r) == local' = [local EXCEPT ![t].result = r] /\ Go(t, "idle")

\* The next unit of the file is of one of these kinds.
Ahead(t, kinds) == local[t].file # <<>> /\ Head(local[t].file).kind \in kinds

-----------------------------------------------------------------------------
(* The loop of netflow_converter_start and nfv9_converter_convert_packet.  *)

EndOfFile(t) == /\ at[t] = "version" /\ local[t].file = <<>>
                /\ Finish(t, "OK")
                /\ UNCHANGED shared

ReadPacketHeader(t) ==
  /\ at[t] = "version" /\ Ahead(t, {"packet"})
  /\ local' = [local EXCEPT ![t].packet = Head(local[t].file), ![t].file = Tail(@),
                            ![t].count = 0]
  /\ Go(t, "packet")
  /\ UNCHANGED shared

\* The rest of a packet header; a single byte is not even a version number.
ReadCutHeader(t) ==
  /\ at[t] = "version" /\ Ahead(t, {"cut"})
  /\ \E r \in {"OK", "error"} :
       local' = [local EXCEPT ![t].file = <<>>, ![t].result = r]
  /\ Go(t, "idle")
  /\ UNCHANGED shared

\* The id of a flowset is taken for a version number that is not supported.
RefuseVersion(t) ==
  /\ at[t] = "version" /\ Ahead(t, {"templates", "data", "reserved"})
  /\ Finish(t, "error")
  /\ UNCHANGED shared

-----------------------------------------------------------------------------
(* nfv9_parse_packet and nfv9_parse_flowset.                               *)

\* Mutant: one flowset too many.
MoreFlowsetsOrOne(t) == local[t].count <= local[t].packet.count

MoreFlowsets(t) == local[t].count < local[t].packet.count

EndPacket(t) == /\ at[t] = "packet" /\ ~MoreFlowsets(t)
                /\ Go(t, "version")
                /\ UNCHANGED <<shared, local>>

\* The file is over, a flowset is cut off or its id is reserved; the version
\* number of the next packet is a reserved id too.
RefuseFlowset(t) ==
  /\ at[t] = "packet" /\ MoreFlowsets(t)
  /\ local[t].file = <<>> \/ Ahead(t, {"packet", "reserved", "cut"})
  /\ Finish(t, "error")
  /\ UNCHANGED shared

ReadFlowset(t) ==
  /\ at[t] = "packet" /\ MoreFlowsets(t) /\ Ahead(t, {"templates", "data"})
  /\ local' = [local EXCEPT ![t].flowset = Head(local[t].file), ![t].file = Tail(@),
                            ![t].operated = 0, ![t].ret = 0]
  /\ Go(t, Head(local[t].file).kind)
  /\ UNCHANGED shared

\* n records were handled.  Nothing handled ends the packet without an error:
\* the rest of the packet stays in the file.
FlowsetDone(t, n) ==
  /\ local' = [local EXCEPT ![t].count = (@ + n) % CountRange]
  /\ Go(t, IF n > 0 THEN "packet" ELSE "version")

-----------------------------------------------------------------------------
(* nfv9_parse_template_flowset and the template cache.  A key is stored    *)
(* with a NULL field list and looked up with one; the comparison of two    *)
(* equal keys follows both (nfv9_converter_cache.cpp:137).                 *)

Key(t) == <<local[t].packet.source, local[t].flowset.id>>

AtRecord(t) == at[t] = "templates" /\ local[t].operated < local[t].flowset.size

\* Mutant: the loop goes on without passing the record over.
SkipNothing(t) == AtRecord(t) /\ RdLockFails /\ UNCHANGED <<shared, at, local>>

\* nfv9_converter_create_template cannot lock: the template is taken for one
\* that is in the cache already.
SkipRecord(t) ==
  /\ AtRecord(t) /\ RdLockFails
  /\ local' = [local EXCEPT
       ![t].operated = @ + RecordHeaderSize + FieldSize * local[t].flowset.declared,
       ![t].ret = @ + 1]
  /\ UNCHANGED <<shared, at>>

LockToCreate(t) == /\ AtRecord(t) /\ ~RdLockFails
                   /\ RdLock
                   /\ Go(t, "create")
                   /\ UNCHANGED <<cache, files, local>>

\* The key is compared with an equal one: the program crashes.
MeetKey(t) == /\ at[t] \in {"create", "insert", "get"} /\ Key(t) \in cache
              /\ Go(t, "crashed")
              /\ UNCHANGED <<shared, local>>

CreateTemplate(t) == /\ at[t] = "create" /\ Key(t) \notin cache
                     /\ RwUnlock
                     /\ Go(t, "fields")
                     /\ UNCHANGED <<cache, files, local>>

\* The fields that are read behind a record header at the given offset: as many
\* as the header says, or until the flowset is over.
FieldsRead(t, offset) ==
  LET s    == local[t].flowset
      room == IF offset < s.size THEN (s.size - offset + FieldSize - 1) \div FieldSize
              ELSE 0
  IN  IF room < s.declared THEN room ELSE s.declared

\* Mutant: the fields are not counted.
ReadFieldsAnyway(t) ==
  /\ at[t] = "fields"
  /\ LET n == FieldsRead(t, local[t].operated + RecordHeaderSize)
     IN  local' = [local EXCEPT ![t].operated = @ + RecordHeaderSize + FieldSize * n,
                                ![t].ret = @ + 1]
  /\ RwUnlock /\ Go(t, "insert")
  /\ UNCHANGED <<cache, files>>

\* A template whose fields are not all there is not stored, and never freed; for
\* the others nfv9_converter_add_template calls the function that should lock the
\* cache for writing.
ReadFields(t) ==
  /\ at[t] = "fields"
  /\ LET n == FieldsRead(t, local[t].operated + RecordHeaderSize)
         complete == n = local[t].flowset.declared
     IN  /\ local' = [local EXCEPT ![t].operated = @ + RecordHeaderSize + FieldSize * n,
                                   ![t].ret = IF complete THEN @ + 1 ELSE @]
         /\ IF complete THEN RwUnlock /\ Go(t, "insert")
            ELSE UNCHANGED readers /\ Go(t, "templates")
  /\ UNCHANGED <<cache, files>>

\* Mutant: the lock is held while the template is stored, and released.
StoreTemplateLocked(t) ==
  /\ at[t] = "insert" /\ Key(t) \notin cache
  /\ cache' = cache \cup {Key(t)}
  /\ readers' = (readers + 1) % CounterSize
  /\ Go(t, "templates")
  /\ UNCHANGED <<files, local>>

\* The insertion, and the second release of the lock that was not taken.
StoreTemplate(t) ==
  /\ at[t] = "insert" /\ Key(t) \notin cache
  /\ cache' = cache \cup {Key(t)}
  /\ RwUnlock
  /\ Go(t, "templates")
  /\ UNCHANGED <<files, local>>

EndTemplates(t) == /\ at[t] = "templates" /\ local[t].operated >= local[t].flowset.size
                   /\ FlowsetDone(t, local[t].ret)
                   /\ UNCHANGED shared

-----------------------------------------------------------------------------
(* nfv9_parse_data_flowset.  Its loop over the records comes after the     *)
(* search for the template has succeeded, which it never does.             *)

\* nfv9_converter_get_field_list cannot lock.
LoseTemplate(t) == /\ at[t] = "data" /\ RdLockFails
                   /\ FlowsetDone(t, 0)
                   /\ UNCHANGED shared

LockToGet(t) == /\ at[t] = "data" /\ ~RdLockFails
                /\ RdLock
                /\ Go(t, "get")
                /\ UNCHANGED <<cache, files, local>>

NoTemplate(t) == /\ at[t] = "get" /\ Key(t) \notin cache
                 /\ RwUnlock
                 /\ FlowsetDone(t, 0)
                 /\ UNCHANGED <<cache, files>>

Crashed == \E t \in Threads : at[t] = "crashed"

Convert(t) ==
  /\ ~Crashed
  /\ \/ EndOfFile(t) \/ ReadPacketHeader(t) \/ ReadCutHeader(t) \/ RefuseVersion(t)
     \/ EndPacket(t) \/ RefuseFlowset(t) \/ ReadFlowset(t)
     \/ SkipRecord(t) \/ LockToCreate(t) \/ CreateTemplate(t) \/ ReadFields(t)
     \/ StoreTemplate(t) \/ MeetKey(t) \/ EndTemplates(t)
     \/ LoseTemplate(t) \/ LockToGet(t) \/ NoTemplate(t)
  /\ UNCHANGED <<library, crew>>

Open(t) == ~Crashed /\ OpenFile(t) /\ UNCHANGED <<library, crew>>

Halted == /\ Crashed \/ (files = MaxFiles /\ \A t \in crew : at[t] = "idle")
          /\ UNCHANGED vars

Next == (\E t \in crew : Open(t) \/ Convert(t)) \/ Halted

Spec == Init /\ [][Next]_vars

\* The threads run.
FairSpec == Spec /\ \A t \in Threads : WF_vars(t \in crew /\ Convert(t))

-----------------------------------------------------------------------------
(* Properties.                                                             *)

Alone == \E t \in crew : crew = {t}

\* One thread with the lock of glibc 2.25 and later never looks for a key that the
\* cache holds, which would follow a NULL pointer (nfv9_converter_cache.cpp:137).
\* It is the lock released once too often that keeps it from it: with the first
\* template every later reader is refused.
NoNullKeyCompared == library = "new" /\ Alone => ~Crashed

\* With any number of threads this lock refuses every reader as soon as a template
\* is stored and no thread is inside the cache: no later file finds a template,
\* and the cache is looked at only by threads that overlap in it.
ReadersRefused ==
  /\ library = "new" /\ cache # {} /\ ~Crashed
  /\ \A t \in crew : at[t] \notin {"create", "insert", "get"}
  => RdLockFails

\* What a flowset lacks of the record that its first header announces.
Missing(u) == RecordHeaderSize + FieldSize * u.declared - u.size

\* No template is in the cache of which a whole field was missing.  The last field may
\* lack up to three bytes: it is stored with what was read behind the flowset, since
\* the loop asks only whether a field begins within it (nfv9_data_types.cpp:157-163).
NoFieldMissing ==
  \A k \in cache : \E u \in OfKind("templates") : u.id = k[2] /\ Missing(u) < FieldSize

PacketEnds(f, j) == j > Len(f) \/ f[j].kind = "packet"
DataLast(f, j) == j <= Len(f) /\ f[j].kind = "data" /\ PacketEnds(f, j + 1)
OneTemplate(f, j) == /\ j <= Len(f) /\ f[j].kind = "templates"
                     /\ f[j].size = RecordHeaderSize + FieldSize * f[j].declared

\* A packet that exporters of few templates send: a template flowset with one
\* record, a data flowset, or both, and as many records as the head announces.
PlainFrom(f, i) ==
  \/ f[i].count = 0 /\ PacketEnds(f, i + 1)
  \/ f[i].count = 1 /\ OneTemplate(f, i + 1) /\ PacketEnds(f, i + 2)
  \/ f[i].count > 0 /\ DataLast(f, i + 1)
  \/ f[i].count > 1 /\ OneTemplate(f, i + 1) /\ DataLast(f, i + 2)

Plain(f) == /\ f # <<>> => f[1].kind = "packet"
            /\ \A i \in DOMAIN f : f[i].kind = "packet" => PlainFrom(f, i)

\* A file of such packets is gone through to its end: neither the templates that
\* are not looked up nor the data that are not decoded make the thread lose the
\* beginning of the next packet.
PlainFileFinished ==
  [][\A t \in crew :
       at[t] # "idle" /\ at'[t] = "idle" /\ Plain(local[t].content) =>
         local'[t].result = "OK" /\ local'[t].file = <<>>]_vars

\* Every file comes to its end, or the program does.
FileEnds == \A t \in Threads : at[t] = "version" ~> at[t] = "idle" \/ Crashed
=============================================================================
