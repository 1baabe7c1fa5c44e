------------------------------ MODULE IpfixParser ------------------------------
(***************************************************************************)
(* How one thread takes IPFIX messages apart (ipfix_converter.cpp and      *)
(* converter/ipfix/data_types): a message is a run of sets, a set begins   *)
(* with a four-byte header and holds a template record or data records, a  *)
(* data record has the length its template says.  Sizes and offsets are    *)
(* those of the code, in bytes; of the values it is kept only whether the  *)
(* filter refuses one.  What is printed of them is the matter of           *)
(* DataRecords.                                                            *)
(*                                                                         *)
(* A message is [size, set]: the bytes after its header, and for each byte *)
(* of them the set whose header is read if the parser takes this byte for  *)
(* the beginning of one.  Lengths are whatever the headers say: less than  *)
(* a header, or more than the message has.  A set is [id, length] or, for  *)
(* a template set, [id, length, template, fields]: the template's id and   *)
(* the fields that the record declares, each [size, width], the bytes of   *)
(* its specifier (4, or 8 with an enterprise number) and the bytes of its  *)
(* values.                                                                 *)
(*                                                                         *)
(* Bytes that are read behind the message are those that follow in the     *)
(* file, or behind the decompressor's block: the description of the set    *)
(* that is read holds them too, or the program crashes there.              *)
(*                                                                         *)
(* The histories are not carried on in loops that need not end: data sets  *)
(* shorter than a header, or of records without width, and sets of length  *)
(* 0.                                                                      *)
(***************************************************************************)
EXTENDS Integers, Sequences, Sums

CONSTANTS Messages,     \* the messages that the files may hold
          MaxMessages,  \* bound: the messages read
          HalfRange,    \* half the number of values of a size_t
          NONE

TemplateSetId == 2
OptionSetId == 3
FirstDataSetId == 256

SetHeaderSize == 4         \* sizeof( SIPFIXSet )
RecordHeaderSize == 4      \* sizeof( SIPFIXTemplateRecordHeader )
SpecifierSize == 4         \* sizeof( SIPFIXFieldCommon ): all that is read of one

SizeRange == 2 * HalfRange

Sets == UNION {{m.set[o] : o \in DOMAIN m.set} : m \in Messages}
TemplateSets == {s \in Sets : s.id = TemplateSetId}

TemplateIds == {s.template : s \in TemplateSets}
               \cup {i \in {s.id : s \in Sets} : i >= FirstDataSetId}

\* Where the i-th field of a template record begins, counted from the record.
FieldOffset(s, i) == RecordHeaderSize
                     + SumTo([k \in DOMAIN s.fields |-> s.fields[k].size], i - 1)

Widths(s) == [i \in DOMAIN s.fields |-> s.fields[i].width]

\* The lengths are numbers of two bytes, and so are the widths of the fields and
\* their number: no sum of them comes near the range of a size_t.
ASSUME ParserAssumption ==
  /\ MaxMessages \in Nat /\ HalfRange \in Nat /\ HalfRange > SetHeaderSize
  /\ \A m \in Messages : m.size \in Nat /\ DOMAIN m.set = 0..(m.size - 1)
  /\ \A s \in Sets : s.id \in Nat /\ s.length \in Nat /\ s.length < HalfRange
  /\ \A s \in TemplateSets : /\ s.fields \in Seq([size : {4, 8}, width : Nat])
                             /\ Sum(Widths(s)) < HalfRange

VARIABLES
  at,        \* the loop that the parser is in
  msg,       \* the message at hand
  operated,  \* stOperated of ifpix_parse_packet
  ret,       \* stRetVal of ipfix_parse_set
  template,  \* the cached field widths of each template id, or NONE
  recOffs,   \* stOperated of ipfix_parse_data_set
  field,     \* uiInd of ipfix_parse_data_set
  result,    \* what the last message came to
  count,     \* messages read
  visited,   \* history: where the sets of this message that were handled begin
  records,   \* history: records handled in this data set
  beyond     \* history: was something read behind this message?

vars == <<at, msg, operated, ret, template, recOffs, field, result, count,
          visited, records, beyond>>

Init == /\ at = "idle"
        /\ msg \in Messages
        /\ operated = 0 /\ ret = 0
        /\ template = [i \in TemplateIds |-> NONE]
        /\ recOffs = 0 /\ field = 1
        /\ result = "OK"
        /\ count = 0
        /\ visited = <<>> /\ records = 0 /\ beyond = FALSE

-----------------------------------------------------------------------------
(* ipfix_converter_convert_packet and ifpix_parse_packet.                  *)

\* A message that the file does not hold to its end is refused.
ReadMessage ==
  /\ at = "idle" /\ count < MaxMessages
  /\ count' = count + 1
  /\ msg' \in Messages
  /\ operated' = 0 /\ visited' = <<>> /\ beyond' = FALSE
  /\ \/ /\ at' = "packet"
        /\ UNCHANGED result
     \/ /\ result' = "EINVAL"
        /\ UNCHANGED at
  /\ UNCHANGED <<ret, template, recOffs, field, records>>

EnterSet == /\ at = "packet"
            /\ ret' = 0
            /\ at' = "set"
            /\ UNCHANGED <<msg, operated, template, recOffs, field, result,
                           count, visited, records, beyond>>

\* Mutant: a message that was not processed to its end is accepted.
EndPacketAnyway(processed) == result' = "OK" /\ at' = "idle"

EndPacket(processed) == /\ result' = IF processed = msg.size THEN "OK" ELSE "EINVAL"
                        /\ at' = "idle"

-----------------------------------------------------------------------------
(* ipfix_parse_set.                                                        *)

\* The header of the next set can be read.
MoreSets == msg.size - operated > ret + SetHeaderSize

\* The set that begins here.
Here == msg.set[operated + ret]

Known(s) == s.id \in {TemplateSetId, OptionSetId} \/ s.id >= FirstDataSetId

Visited == visited' = IF Here.length = 0 THEN visited ELSE Append(visited, operated + ret)

\* Mutant: the header is counted twice.
SkipHeaderTwice == ret' = ret + SetHeaderSize + Here.length /\ Visited

\* The header's four bytes are added and, in the size of the contents, taken off
\* again, modulo the range of a size_t: a set of length 0 leads to itself.
Skip == ret' = ret + Here.length /\ Visited

\* No further set header: ipfix_parse_set returns and the loop of
\* ifpix_parse_packet decides whether to call it again.
LeaveSet ==
  /\ at = "set" /\ ~MoreSets
  /\ operated' = operated + ret
  /\ IF msg.size > operated + ret
     THEN at' = "packet" /\ UNCHANGED result
     ELSE EndPacket(operated + ret)
  /\ UNCHANGED <<msg, ret, template, recOffs, field, count, visited, records, beyond>>

\* A reserved or unused set id makes ipfix_parse_set return -1; what it had
\* handled before is not counted.
RefuseSet ==
  /\ at = "set" /\ MoreSets /\ ~Known(Here)
  /\ EndPacket(operated)
  /\ UNCHANGED <<msg, operated, ret, template, recOffs, field, count, visited,
                 records, beyond>>

SkipOptionSet ==
  /\ at = "set" /\ MoreSets /\ Here.id = OptionSetId
  /\ Skip
  /\ UNCHANGED <<at, msg, operated, template, recOffs, field, result, count,
                 records, beyond>>

\* stDataSize of ipfix_parse_template_set and of ipfix_parse_data_set.
SizeOfContents(s) == (s.length - SetHeaderSize) % SizeRange

\* The loop of ipfix_parse_template_set comes to the i-th field, and to all.
ComesTo(s, i) == FieldOffset(s, i) < SizeOfContents(s)
Complete(s) == \A i \in DOMAIN s.fields : ComesTo(s, i)

\* The record's header or a specifier that is read ends behind the message.
RecordBeyond ==
  LET room == msg.size - (operated + ret + SetHeaderSize) IN
    \/ RecordHeaderSize > room
    \/ \E i \in DOMAIN Here.fields :
         ComesTo(Here, i) /\ FieldOffset(Here, i) + SpecifierSize > room

\* One template record is read from the set, whatever follows it.
LearnTemplate ==
  /\ at = "set" /\ MoreSets /\ Here.id = TemplateSetId
  /\ Skip
  /\ template' = IF Complete(Here)
                 THEN [template EXCEPT ![Here.template] = Widths(Here)]
                 ELSE template
  /\ beyond' = (beyond \/ RecordBeyond)
  /\ UNCHANGED <<at, msg, operated, recOffs, field, result, count, records>>

-----------------------------------------------------------------------------
(* ipfix_parse_data_set.                                                   *)

EnterDataSet ==
  /\ at = "set" /\ MoreSets /\ Here.id >= FirstDataSetId
  /\ template[Here.id] # NONE
  /\ recOffs' = 0 /\ records' = 0
  /\ at' = "record"
  /\ UNCHANGED <<msg, operated, ret, template, field, result, count, visited, beyond>>

\* The template is not known, or the lock of the cache refuses the reader, who
\* cannot tell (ipfix_converter_cache.cpp:156-160).
SkipDataSet ==
  /\ at = "set" /\ MoreSets /\ Here.id >= FirstDataSetId
  /\ Skip
  /\ UNCHANGED <<at, msg, operated, template, recOffs, field, result, count,
                 records, beyond>>

\* m_stDataSetLength and m_vectFieldList.size() of the template in use.
RecordLength == Sum(template[Here.id])
FieldCount == Len(template[Here.id])

\* The bytes of the field at hand are not all in the message.
FieldBeyond ==
  LET widths == template[Here.id] IN
    /\ widths[field] > 0
    /\ operated + ret + SetHeaderSize + recOffs + SumTo(widths, field) > msg.size

\* The end of the record that begins at recOffs.
EndOfRecord == (recOffs + RecordLength) % SizeRange

\* Mutant: the record that fills the set to its end is taken for padding.
NextRecordShort ==
  /\ at = "record"
  /\ IF EndOfRecord < SizeOfContents(Here)
     THEN field' = 1 /\ at' = "field" /\ UNCHANGED <<ret, visited>>
     ELSE Skip /\ at' = "set" /\ UNCHANGED field
  /\ UNCHANGED <<msg, operated, template, recOffs, result, count, records, beyond>>

NextRecord ==
  /\ at = "record"
  /\ IF EndOfRecord <= SizeOfContents(Here)
     THEN field' = 1 /\ at' = "field" /\ UNCHANGED <<ret, visited>>
     ELSE Skip /\ at' = "set" /\ UNCHANGED field
  /\ UNCHANGED <<msg, operated, template, recOffs, result, count, records, beyond>>

\* The loop over the records need not end.
Endless == RecordLength = 0 \/ Here.length < SetHeaderSize

\* __next_record
NextOffset == /\ recOffs' = EndOfRecord
              /\ records' = IF Endless THEN records ELSE records + 1

\* A field is read and printed, or it is not convertible and left out.
ConvertField ==
  /\ at = "field" /\ field <= FieldCount
  /\ field' = field + 1
  /\ beyond' \in {beyond, beyond \/ FieldBeyond}
  /\ UNCHANGED <<at, msg, operated, ret, template, recOffs, result, count, visited,
                 records>>

\* Mutant: a record that the filter refuses is looked at again.
RefuseRecordAgain ==
  /\ at = "field" /\ field <= FieldCount
  /\ at' = "record"
  /\ UNCHANGED <<msg, operated, ret, template, recOffs, field, result, count,
                 visited, records, beyond>>

\* The filter refuses a field that was read: the record is not printed.
RefuseRecord ==
  /\ at = "field" /\ field <= FieldCount
  /\ NextOffset
  /\ at' = "record"
  /\ beyond' = (beyond \/ FieldBeyond)
  /\ UNCHANGED <<msg, operated, ret, template, field, result, count, visited>>

PrintRecord ==
  /\ at = "field" /\ field > FieldCount
  /\ NextOffset
  /\ at' = "record"
  /\ UNCHANGED <<msg, operated, ret, template, field, result, count, visited, beyond>>

\* What is read behind the message is not mapped.
ReadFault ==
  /\ \/ at = "set" /\ MoreSets /\ Here.id = TemplateSetId /\ RecordBeyond
     \/ at = "field" /\ field <= FieldCount /\ FieldBeyond
  /\ at' = "crashed"
  /\ beyond' = TRUE
  /\ UNCHANGED <<msg, operated, ret, template, recOffs, field, result, count, visited,
                 records>>

Parse == \/ EnterSet
         \/ LeaveSet \/ RefuseSet \/ SkipOptionSet \/ LearnTemplate
         \/ EnterDataSet \/ SkipDataSet
         \/ NextRecord \/ ConvertField \/ RefuseRecord \/ PrintRecord
         \/ ReadFault

Done == /\ at = "crashed" \/ (at = "idle" /\ count = MaxMessages)
        /\ UNCHANGED vars

Next == ReadMessage \/ Parse \/ Done

Spec == Init /\ [][Next]_vars

\* The thread runs: a parser that can take a step takes it.
FairSpec == Spec /\ WF_vars(Parse)

-----------------------------------------------------------------------------
(* Properties.                                                             *)

\* Where the parser goes from a place: behind the set, if it is one that it handles.
Onward(m) == [o \in Nat |-> IF o < m.size /\ Known(m.set[o]) THEN o + m.set[o].length ELSE o]

\* Where the sets of a message begin: the n-th place that one set leads to after
\* the other.
Reached(m) == LET reached[n \in 0..m.size] == IF n = 0 THEN 0 ELSE Onward(m)[reached[n - 1]]
              IN  reached

\* The message consists of sets that the parser knows and of nothing else.
WellFormed(m) == \E n \in 0..m.size : Reached(m)[n] = m.size

\* The set is no shorter than its header, the message holds it to its end, and of
\* a template record it holds the header and whole specifiers.
Fits(m, o) ==
  LET s == m.set[o] IN
    /\ s.length >= SetHeaderSize /\ o + s.length <= m.size
    /\ s.id = TemplateSetId =>
         /\ s.length >= SetHeaderSize + RecordHeaderSize
         /\ \A i \in DOMAIN s.fields :
              ComesTo(s, i) => FieldOffset(s, i) + SpecifierSize <= SizeOfContents(s)

\* The parser goes from the beginning of a set to that of the next one.  It gets
\* behind the message, or reads there, only for a set whose header or template
\* record says so: where the sets fit, no record, field or specifier is read of
\* which a byte is missing.  The code checks neither (ipfix_data_types.cpp:98-106).
InsideMessage ==
  at \in {"set", "record", "field", "crashed"} =>
    /\ operated + ret = Reached(msg)[Len(visited)]
    /\ beyond \/ operated + ret > msg.size =>
         \E n \in 0..Len(visited) : Reached(msg)[n] < msg.size /\ ~Fits(msg, Reached(msg)[n])

\* A message is accepted only when each of its sets was handled, in order and
\* once, and a message that has no other sets than known ones and no bytes
\* behind them is not refused half way.
AcceptedIsComplete ==
  [][at # "idle" /\ at' = "idle" =>
       /\ result' = "OK" <=> WellFormed(msg)
       /\ result' = "OK" =>
            /\ Reached(msg)[Len(visited')] = msg.size
            /\ visited' = [i \in 1..Len(visited') |-> Reached(msg)[i - 1]]]_vars

\* Every data set for which the cache hands out a field list yields as many records
\* as fit in it, whatever the filter and the conversions make of them, unless it is
\* shorter than its header.
EveryRecordHandled ==
  [][at = "record" /\ at' = "set" /\ Here.length >= SetHeaderSize =>
       records = SizeOfContents(Here) \div RecordLength]_vars

\* The parser gets to the end of every message, and if some bytes could not be
\* used it says so (ipfix_data_types.cpp:58-63).
MessageEnds == at = "packet" ~> at = "idle"

\* One to four bytes are left, too few for another set: ipfix_parse_set returns
\* zero whenever it is called.
NoHeaderLeft == at = "set" /\ ret = 0 /\ ~MoreSets /\ operated < msg.size

\* The set leads to itself.
NoLength == at = "set" /\ MoreSets /\ Known(Here) /\ Here.length = 0

\* The records of the data set have no length, or the size of its contents has
\* wrapped around to nearly the largest size_t.
EndlessRecords == at \in {"record", "field"} /\ Endless

Stuck == NoHeaderLeft \/ NoLength \/ EndlessRecords

\* The loops of the parser need not end in these cases, and end in all others
\* (ipfix_data_types.cpp:46-53, 93-106, 245): a data set with padding, a set that is
\* too long, a record that is refused or a set that is not known never keeps it.
EndsUnlessStuck == at = "packet" ~> at \in {"idle", "crashed"} \/ Stuck
=============================================================================
