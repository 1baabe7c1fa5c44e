------------------------------- MODULE DataLoader -------------------------------
(***************************************************************************)
(* One file on its way through the data loader (data_loader.cpp,           *)
(* data_loader_bz.cpp): it is opened, mapped in the size that the file     *)
(* list recorded for it, read piece by piece by the loop of                *)
(* netflow_converter_start and by the converters it calls, and closed.     *)
(*                                                                         *)
(* The content of a file is a sequence of tokens.  In a plain file every   *)
(* token is a byte.  In a compressed file a token stands for the input     *)
(* that yields one byte, for the end of a compressed stream (END) or for   *)
(* input that the decompressor refuses (BAD); a file may hold several      *)
(* streams, or end within one.                                             *)
(***************************************************************************)
EXTENDS Naturals, Sequences, FiniteSets

CONSTANTS Files,    \* the files there may be: kind, content, recorded size
          Requests, \* the sizes of what follows a header
          Huge,     \* a message length less than its header, as a size_t
          UIntSize, \* an unsigned int is taken modulo this
          END, BAD, \* see above
          VOID      \* what is behind the end of a file in its mapping

VersionSize == 2  \* sizeof( SNetFlowVersion )
HeaderSize == 1   \* bound: of the header of a packet or a flowset

NotBytes == {END, BAD, VOID}

\* The sizes in the list are those of the scan; a file may have grown or shrunk
\* since.  data_loader_open looks at the last four characters of its name.  All requests
\* but Huge are lengths of 16 bits; Huge is little less than a multiple of UIntSize.
ASSUME LoaderAssumption ==
  /\ NotBytes \cap Nat = {} /\ VOID \notin {END, BAD}
  /\ UIntSize \in Nat /\ UIntSize > VersionSize /\ Requests \subseteq 0..UIntSize - 1
  /\ Huge \in Nat /\ Huge >= UIntSize /\ Huge % UIntSize # 0
  /\ \A f \in Files :
       /\ f.kind \in {"plain", "bz2"} /\ f.size \in Nat /\ f.shortName \in BOOLEAN
       /\ f.size + HeaderSize < Huge
       /\ f.content \in Seq(Nat \cup {END, BAD})
       /\ f.kind = "plain" => f.content \in Seq(Nat)

VARIABLES
  file,   \* the file
  at,     \* the place in netflow_converter_start and below
  held,   \* what the SFileInfo holds
  offs,   \* m_stFileOffs, which only a plain file moves
  taken,  \* next_in: the tokens the decompressor has consumed
  stream, \* what the decompressor has come to: "ok", "end" or "error"
  asked,  \* the last request
  answer, \* what data_loader_get_data returned for it
  served, \* history: the bytes handed out
  lost,   \* history: blocks that nothing points to any more
  empty   \* history: requests for no bytes

vars == <<file, at, held, offs, taken, stream, asked, answer, served, lost, empty>>
readVars == <<offs, taken, stream, asked, answer, served, lost, empty>>

Init == /\ file \in Files
        /\ at = "scanned" /\ held = {}
        /\ offs = 0 /\ taken = 0 /\ stream = "ok"
        /\ asked = 0 /\ answer = 0
        /\ served = <<>> /\ lost = 0 /\ empty = 0

-----------------------------------------------------------------------------
(* data_loader_open, and the destructor that undoes what it has done.      *)

\* Mutant: the descriptor is closed with the mapping only.
DestroyWithMap == held' = IF "map" \in held THEN {} ELSE held

Destroy == held' = {}

OpenFails == /\ at = "scanned"
             /\ Destroy
             /\ at' = "refused"
             /\ UNCHANGED <<file, readVars>>

OpenFile == /\ at = "scanned"
            /\ held' = held \cup {"fd"}
            /\ at' = "opened"
            /\ UNCHANGED <<file, readVars>>

\* A file of recorded size 0 cannot be mapped.
MapFails == /\ at = "opened"
            /\ Destroy
            /\ at' = "refused"
            /\ UNCHANGED <<file, readVars>>

Map == /\ at = "opened" /\ file.size > 0
       /\ held' = held \cup {"map"}
       /\ at' = "mapped"
       /\ UNCHANGED <<file, readVars>>

\* A name of less than four characters, "./a", makes std::string::compare throw.
CompareThrows == /\ at = "mapped" /\ file.shortName
                 /\ at' = "crashed"
                 /\ UNCHANGED <<file, held, readVars>>

StartPlain == /\ at = "mapped" /\ ~file.shortName /\ file.kind = "plain"
              /\ at' = "version"
              /\ UNCHANGED <<file, held, readVars>>

StartBz2 == /\ at = "mapped" /\ ~file.shortName /\ file.kind = "bz2"
            /\ \/ held' = held \cup {"bz2"} /\ at' = "version"
               \/ Destroy /\ at' = "refused"
            /\ UNCHANGED <<file, readVars>>

Open == OpenFails \/ OpenFile \/ MapFails \/ Map \/ CompareThrows \/ StartPlain \/ StartBz2

-----------------------------------------------------------------------------
(* data_loader_get_data and data_loader_bz_get_data.                       *)

Mapped == [i \in 1..file.size |->
             IF i <= Len(file.content) THEN file.content[i] ELSE VOID]

Answered(n, bytes, amount) == /\ asked' = n
                              /\ answer' = amount
                              /\ served' = served \o bytes
                              /\ empty' = IF n = 0 THEN empty + 1 ELSE empty

PlainAmount(n) == IF n < file.size - offs THEN n ELSE file.size - offs

\* Mutant: the offset moves on by what was asked for.
GetPlainAsked(n) ==
  /\ Answered(n, SubSeq(Mapped, offs + 1, offs + PlainAmount(n)), PlainAmount(n))
  /\ offs' = offs + n
  /\ UNCHANGED <<held, taken, stream, lost>>

GetPlain(n) ==
  LET k == PlainAmount(n) IN
    /\ Answered(n, SubSeq(Mapped, offs + 1, offs + k), k)
    /\ offs' = offs + k
    /\ UNCHANGED <<held, taken, stream, lost>>

\* avail_in is an unsigned int: of a larger archive the decompressor gets what is left.
InputSize == file.size % UIntSize

\* BZ2_bzDecompress with room for some bytes: it goes on until the room is full, the
\* input is used up, or it comes to the end of the stream or to an error; the end
\* behind the last byte is found in the call that yields this byte.  After either
\* of the two the stream yields no more.
RunBz2(room) ==
  LET runs == {p \in taken..InputSize :
                 /\ p - taken <= room
                 /\ \A i \in taken + 1..p : Mapped[i] \notin NotBytes}
      stop == CHOOSE p \in runs : \A q \in runs : q <= p
      next == IF stop < InputSize THEN Mapped[stop + 1] ELSE 0
  IN  IF stream # "ok" THEN [bytes |-> <<>>, taken |-> taken, result |-> "error"]
      ELSE [bytes  |-> SubSeq(Mapped, taken + 1, stop),
            taken  |-> IF next \in NotBytes THEN stop + 1 ELSE stop,
            result |-> IF next \notin NotBytes THEN "ok"
                       ELSE IF next = END THEN "end" ELSE "error"]

\* Mutant: the new block is freed with the old one.
RenewNoBlock(run) == held' = held \ {"block"} /\ UNCHANGED lost

\* The block of the last call is freed; a new one is recorded if there are bytes
\* in it, freed after an error, and otherwise forgotten.
RenewBlock(run) ==
  /\ held' = IF run.result # "error" /\ run.bytes # <<>>
             THEN held \cup {"block"} ELSE held \ {"block"}
  /\ lost' = IF run.result # "error" /\ run.bytes = <<>> THEN lost + 1 ELSE lost

\* Mutant: BZ_STREAM_END is taken for an error.
YieldUntilEnd(run) == IF run.result = "ok" THEN run.bytes ELSE <<>>

\* What a call yields before an error is dropped.
Yield(run) == IF run.result = "error" THEN <<>> ELSE run.bytes

\* avail_out is an unsigned int, too; stRetVal is the request less what is left of it.
Room(n) == n % UIntSize

Amount(n, run) == IF run.result = "error" THEN 0 ELSE n - (Room(n) - Len(run.bytes))

\* There is no block of so many bytes; malloc's result is not looked at, and the stream
\* writes to NULL if it has anything to write.
GetBz2(n) ==
  LET run == RunBz2(Room(n)) IN
    /\ n # Huge \/ run.bytes = <<>>
    /\ Answered(n, Yield(run), Amount(n, run))
    /\ taken' = run.taken /\ stream' = run.result
    /\ IF n = Huge THEN held' = held \ {"block"} /\ UNCHANGED lost ELSE RenewBlock(run)
    /\ UNCHANGED offs

GetData(n) == \/ file.kind = "plain" /\ GetPlain(n)
              \/ file.kind = "bz2" /\ GetBz2(n)

NoBlock(n) == file.kind = "bz2" /\ n = Huge /\ RunBz2(Room(n)).bytes # <<>>

\* A page of the mapping that is behind the end of the file cannot be read.
OffTheFile(n) ==
  \/ file.kind = "plain" /\ \E i \in offs + 1..offs + PlainAmount(n) : Mapped[i] = VOID
  \/ file.kind = "bz2" /\ LET to == RunBz2(Room(n)).taken
                          IN  to > taken /\ Mapped[to] = VOID

Fault(n) == /\ NoBlock(n) \/ OffTheFile(n)
            /\ at' = "crashed"
            /\ UNCHANGED <<file, held, readVars>>

-----------------------------------------------------------------------------
(* The callers: netflow_converter_start and the two converters.            *)

\* Mutant: only a compressed stream is over when nothing comes.
ReadVersionOrWait ==
  /\ at = "version"
  /\ GetData(VersionSize)
  /\ at' \in IF answer' = 0 /\ file.kind = "bz2" THEN {"close"}
             ELSE IF answer' < VersionSize THEN {"version"} ELSE {"header", "close"}
  /\ UNCHANGED file

\* Nothing is left: the file is over.  Half a version number: the loop asks again.
\* A version other than 9 and 10 ends the file.
ReadVersion ==
  /\ at = "version"
  /\ GetData(VersionSize)
  /\ at' \in IF answer' = 0 THEN {"close"}
             ELSE IF answer' < VersionSize THEN {"version"} ELSE {"header", "close"}
  /\ UNCHANGED file

\* The header of a message, of a packet or of a flowset.  What it says decides
\* whether another one follows, its contents, or the next packet.
ReadHeader ==
  /\ at = "header"
  /\ GetData(HeaderSize)
  /\ at' \in IF answer' = HeaderSize THEN {"header", "body", "version", "close"}
             ELSE {"close"}
  /\ UNCHANGED file

ReadBody ==
  /\ at = "body"
  /\ \E n \in Requests \cup {Huge} :
       /\ GetData(n)
       /\ at' \in IF answer' = n THEN {"header", "version", "close"} ELSE {"close"}
  /\ UNCHANGED file

ReadFault == \/ at = "version" /\ Fault(VersionSize)
             \/ at = "header" /\ Fault(HeaderSize)
             \/ at = "body" /\ \E n \in Requests \cup {Huge} : Fault(n)

Close == /\ at = "close"
         /\ Destroy
         /\ at' = "closed"
         /\ UNCHANGED <<file, readVars>>

Operate == Open \/ ReadVersion \/ ReadHeader \/ ReadBody \/ ReadFault \/ Close

Over == at \in {"refused", "closed", "crashed"} /\ UNCHANGED vars

Next == Operate \/ Over

Spec == Init /\ [][Next]_vars

\* The thread runs.
FairSpec == Spec /\ WF_vars(Operate)

-----------------------------------------------------------------------------
(* Properties.                                                             *)

TypeOK ==
  /\ file \in Files
  /\ at \in {"scanned", "refused", "opened", "mapped", "version", "header", "body", "close",
             "closed", "crashed"}
  /\ held \subseteq {"fd", "map", "bz2", "block"}
  /\ offs \in 0..file.size /\ taken \in 0..InputSize
  /\ stream \in {"ok", "end", "error"}
  /\ asked \in {0, VersionSize, HeaderSize, Huge} \cup Requests
  /\ answer \in 0..file.size \cup {Huge - Room(Huge)}
  /\ Len(served) <= file.size
  /\ lost \in Nat /\ empty \in Nat

\* The bytes among the first n tokens.
BytesTo(s, n) ==
  LET bytes[i \in 0..Len(s)] == IF i = 0 THEN <<>>
                                ELSE IF s[i] \in NotBytes THEN bytes[i - 1]
                                ELSE Append(bytes[i - 1], s[i])
  IN  bytes[n]

\* The bytes of the file as far as the list knows it.
Payload == IF file.kind = "plain" THEN Mapped ELSE BytesTo(Mapped, file.size)

\* A compressed file with refused input, or with more behind its first stream.
Damaged == /\ file.kind = "bz2"
           /\ \E i \in 1..file.size : \/ Mapped[i] \in {BAD, VOID}
                                      \/ Mapped[i] = END /\ i < file.size

\* An archive of which the decompressor is not given all (data_loader_bz.cpp:40).
TooLarge == file.kind = "bz2" /\ file.size >= UIntSize

MayBeCut == Damaged \/ TooLarge
Cut == MayBeCut /\ (stream # "ok" \/ taken = InputSize)

\* The answer to a request of Huge bytes of an archive that yields no more is no number
\* of bytes: it is what such a number loses when it becomes an unsigned int.
AnsweredBytes == IF file.kind = "bz2" /\ asked = Huge THEN 0 ELSE answer

Stream == INSTANCE ByteStream WITH payload <- Payload, mayBeCut <- MayBeCut, cut <- Cut,
                                   answer <- AnsweredBytes

\* Whatever is asked for, a reader is handed the bytes of the file in their order,
\* as many as it asked for or as there are (data_loader.h:18-21): no byte twice,
\* none skipped, and none held back unless the compressed stream is damaged or larger
\* than an unsigned int can tell.
ImplementsByteStream == Stream!Spec

\* The bytes of the last answer are still there when the caller looks at them, and the
\* answer that is no number of bytes makes no caller look.
AnswerAlive ==
  at \in {"version", "header", "body"} /\ answer > 0 =>
    IF file.kind = "plain" THEN "map" \in held ELSE {"block", "bz2"} \subseteq held

\* Whether a file was read to its end, was cut short or could not be opened or mapped:
\* nothing of it is held afterwards, and at most one block of memory is lost for
\* it, apart from those of requests for no bytes.
NothingKept == /\ at \in {"refused", "closed"} => held = {}
               /\ lost <= empty + 1

\* Every file is closed in the end, refused, or the end of the program: no
\* sequence of answers keeps a thread reading.
FileLeft == <>(at \in {"refused", "closed", "crashed"})
=============================================================================
