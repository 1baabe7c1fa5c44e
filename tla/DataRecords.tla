------------------------------ MODULE DataRecords ------------------------------
(***************************************************************************)
(* What becomes of the records of one IPFIX data set: the loop over the    *)
(* fields in ipfix_parse_data_set with all that it calls.  The dictionary  *)
(* turns a field into a name and a text and gives a number to the filter,  *)
(* the mapper renames it and names a divider, the filter accepts the       *)
(* record or not, the output template says into which column the text      *)
(* goes.  Name, text, number and divider are locals of the function that   *)
(* keep their values from field to field and from record to record.        *)
(*                                                                         *)
(* A record is a sequence of fields [id, size, value].  A text is a        *)
(* sequence of numbers, empty for no text: <<n>> for a number or an        *)
(* address, <<s>> or <<s, fraction>> for a time.                           *)
(***************************************************************************)
EXTENDS IpfixDictionary

CONSTANTS
  Names,          \* the names of the elements that configurations refer to
  Configurations, \* [mappings, template, start, stop, src, dst, dateAdd, unprintable]
  DataSets,       \* the data sets there may be: sequences of records
  Word,           \* a uint32_t is taken modulo this
  Garbage         \* what a local that is not initialised may hold

Empty == ""              \* a string that nothing was assigned to
FLOW_START == "flowStart"
FLOW_END == "flowEnd"
SRC_IPV4 == "sourceIPv4Address"
DST_IPV4 == "destinationIPv4Address"

NfcVersion == 10        \* the protocol number that IPFIX passes to the mapper
Unlimited == 0          \* no filter, for each of its settings
NotGiven == -1          \* what the end of the interval is initialised with

\* The units of which outputFormatDateAdd appends the part of a second.  Any other
\* text of it, "sec" and none among them, appends nothing.
UnitsPerSecond == [msec |-> 1000, usec |-> 1000000, nsec |-> 1000000000]

ASSUME RecordsAssumption ==
  /\ Word \in Nat \ {0} /\ Garbage \subseteq Nat
  /\ \A id \in DOMAIN Names : Names[id] \in STRING \ {FLOW_START, FLOW_END}
  /\ Configurations \subseteq
       [mappings : Seq([version : {9, 10}, name : STRING, mapped : STRING, div : Nat]),
        template : Seq(STRING), start : Nat, stop : Int, src : Nat, dst : Nat,
        dateAdd : STRING, unprintable : SUBSET Nat]
  /\ DataSets \subseteq Seq(Seq([id : Nat, size : Nat, value : Nat]))

VARIABLES
  conf,      \* the settings of the mapper, the filter and the output
  dataSet,   \* the data set at hand
  at,        \* "dictionary", "field", "done", or "crashed" by a division by zero
  rec,       \* the record at hand
  field,     \* uiInd
  name,      \* strAttrMappedName
  text,      \* strAttrValue
  forFilter, \* ui64Filter
  div,       \* ui32Div
  row,       \* m_vectValue of the output object
  rows       \* history: the rows printed, with the record that each is of

vars == <<dictVars, conf, dataSet, at, rec, field, name, text, forFilter, div, row, rows>>

-----------------------------------------------------------------------------
(* ipfix_dictionary_convert_value and nfc_dict.cpp.                        *)

Known(f) == Entry(f.id) # 0

\* The element whose entry is found; a range goes by its first id.
Element(f) == Table[Entry(f.id)].first
Type(f) == TypeOf(Element(f))

\* Elements that no configuration refers to share a name.
Name(f) == IF Element(f) \in DOMAIN Names THEN Names[Element(f)] ELSE "other"

\* nfc_dict_get_time_value.  A time that gmtime_r cannot break down, or that the
\* format turns into no text or into one that does not fit in mcBuf, has no text: which
\* seconds those are depends on outputFormatDate, and a format that is too long has no
\* others.  The unit of the output is divided by the unit of the element in integers.
TimeText(unit, time) ==
  IF time \div unit \in conf.unprintable THEN <<>>
  ELSE IF conf.dateAdd \notin DOMAIN UnitsPerSecond THEN <<time \div unit>>
  ELSE <<time \div unit, (time % unit) * (UnitsPerSecond[conf.dateAdd] \div unit)>>

\* An IPv6 address is given by the length of its text, which must fit in mcBuf.
AddressText(length) == IF length < 32 THEN <<length>> ELSE <<>>

\* The bytes of a field that its type can have at most.
Fits(f) == \/ Type(f) \in {"integer", "time"} /\ f.size <= 8
           \/ Type(f) = "ipv4" /\ f.size <= 4
           \/ Type(f) = "ipv6" /\ f.size <= 16

ValueText(f) ==
  IF ~Fits(f) THEN <<>>
  ELSE IF Type(f) = "time" THEN TimeText(TimeUnit(Element(f)), f.value)
  ELSE IF Type(f) = "ipv6" THEN AddressText(f.value)
  ELSE <<f.value>>

\* Whether the value can be converted is not returned: when it cannot, the
\* filter gets what the last conversion left.
ValueForFilter(f) ==
  IF ~Fits(f) THEN forFilter
  ELSE IF Type(f) = "ipv6" THEN 0 ELSE f.value

-----------------------------------------------------------------------------
(* netflow_converter_mapper.cpp and nf_filter_data.cpp.                    *)

\* std::map::insert keeps the first mapping of a name.
Mappings(element) == {i \in DOMAIN conf.mappings :
                        /\ conf.mappings[i].version = NfcVersion
                        /\ conf.mappings[i].name = element}

Mapping(element) == conf.mappings[CHOOSE i \in Mappings(element) :
                                    \A j \in Mappings(element) : i <= j]

MappedName(element) ==
  IF Mappings(element) = {} THEN element ELSE Mapping(element).mapped

\* Mutant: the divider is passed by value.
DividerByValue(element) == div

\* With no mapping the divider stays: the function clears its own copy of the
\* pointer.
Divider(element) == IF Mappings(element) = {} THEN div ELSE Mapping(element).div

\* Mutant: the end of the interval belongs to it.
AcceptsTimeToo(seconds) ==
  /\ conf.start # Unlimited => conf.start <= seconds
  /\ conf.stop # Unlimited => conf.stop >= seconds

AcceptsTime(seconds) ==
  /\ conf.start # Unlimited => conf.start <= seconds
  /\ conf.stop # Unlimited => conf.stop > seconds

Accepts(n, v, d) ==
  /\ n = FLOW_START => AcceptsTime((v \div d) % Word)
  /\ n = SRC_IPV4 /\ conf.src # Unlimited => conf.src = v % Word
  /\ n = DST_IPV4 /\ conf.dst # Unlimited => conf.dst = v % Word

\* nf_filter_data divides by the divider unless it is one.
DividesByZero(n, d) == n = FLOW_START /\ d = 0

-----------------------------------------------------------------------------
(* nfc_output_template.cpp.                                                *)

EmptyRow == [i \in DOMAIN conf.template |-> <<>>]

\* A name that comes twice in the template has the index of the first.
ColumnOf(n) == {i \in DOMAIN conf.template :
                  /\ conf.template[i] = n
                  /\ \A j \in 1..(i - 1) : conf.template[j] # n}

\* nfc_outputtemplate_object_add; with no template the fields are listed.
Placed(r, n, t) ==
  IF conf.template = <<>> THEN Append(r, <<n, t>>)
  ELSE [i \in DOMAIN r |-> IF i \in ColumnOf(n) THEN t ELSE r[i]]

-----------------------------------------------------------------------------
(* The loops of ipfix_parse_data_set.                                      *)

\* What the settings are before they are read.
NoSettings == [mappings |-> <<>>, template |-> <<>>, start |-> Unlimited,
               stop |-> Unlimited, src |-> Unlimited, dst |-> Unlimited,
               dateAdd |-> Empty, unprintable |-> {}]

Init == /\ DictInit
        /\ conf = NoSettings /\ dataSet = <<>>
        /\ at = "dictionary"
        /\ rec = 1 /\ field = 1
        /\ name = Empty /\ text = <<>>
        /\ forFilter = 0 /\ div = 0
        /\ row = EmptyRow
        /\ rows = <<>>

\* main, before there are threads.
FillDictionary ==
  /\ at = "dictionary" /\ AddElement
  /\ UNCHANGED <<conf, dataSet, at, rec, field, name, text, forFilter, div, row, rows>>

\* The settings and the data set matter from here on only.
BeginDataSet == /\ at = "dictionary" /\ DictReady
                /\ conf' \in Configurations
                /\ dataSet' \in DataSets
                /\ at' = IF dataSet' = <<>> THEN "done" ELSE "field"
                /\ row' = EmptyRow'
                /\ forFilter' \in Garbage /\ div' \in Garbage
                /\ UNCHANGED <<dictVars, rec, field, name, text, rows>>

Record == dataSet[rec]
AtField == at = "field" /\ field <= Len(Record)
Here == Record[field]

\* Mutant: nfc_outputtemplate_object_erase is called for printed records only.
NextRecordKeepRow ==
  /\ rec' = rec + 1 /\ field' = 1
  /\ at' = IF rec = Len(dataSet) THEN "done" ELSE "field"
  /\ row' = IF field > Len(Record) THEN EmptyRow ELSE row

NextRecord == /\ rec' = rec + 1 /\ field' = 1
              /\ at' = IF rec = Len(dataSet) THEN "done" ELSE "field"
              /\ row' = EmptyRow

\* ENODATA: the locals keep their values.
SkipUnknownField ==
  /\ AtField /\ ~Known(Here)
  /\ field' = field + 1
  /\ UNCHANGED <<dictVars, conf, dataSet, at, rec, name, text, forFilter, div, row, rows>>

ConvertAndMap == /\ AtField /\ Known(Here)
                 /\ text' = ValueText(Here)
                 /\ forFilter' = ValueForFilter(Here)
                 /\ name' = MappedName(Name(Here))
                 /\ div' = Divider(Name(Here))
                 /\ UNCHANGED <<dictVars, conf, dataSet, rows>>

AddField == /\ ConvertAndMap
            /\ ~DividesByZero(name', div') /\ Accepts(name', forFilter', div')
            /\ row' = Placed(row, name', text')
            /\ field' = field + 1
            /\ UNCHANGED <<at, rec>>

RefuseRecord == /\ ConvertAndMap
                /\ ~DividesByZero(name', div') /\ ~Accepts(name', forFilter', div')
                /\ NextRecord

\* A divider of zero in the configuration stops the program.
CrashOnDivision == /\ ConvertAndMap
                   /\ DividesByZero(name', div')
                   /\ at' = "crashed"
                   /\ UNCHANGED <<rec, field, row>>

PrintRecord == /\ at = "field" /\ field > Len(Record)
               /\ rows' = Append(rows, [rec |-> rec, row |-> row])
               /\ NextRecord
               /\ UNCHANGED <<dictVars, conf, dataSet, name, text, forFilter, div>>

Ended == at \in {"done", "crashed"} /\ UNCHANGED vars

Next == FillDictionary \/ BeginDataSet
        \/ SkipUnknownField \/ AddField \/ RefuseRecord \/ CrashOnDivision
        \/ PrintRecord \/ Ended

Spec == Init /\ [][Next]_vars

-----------------------------------------------------------------------------
(* Properties.                                                             *)

\* The dictionary that main has filled when the first data set comes is the one
\* that the IANA table describes, to a reader who looks up any id.
DictionaryComplete == at = "dictionary" => EveryElementFound

\* The attributes that the filter works with, by the help text (options.cpp:213-216),
\* and the one of them for which nf_filter_data has no branch.
FilterNames == {FLOW_START, FLOW_END, SRC_IPV4, DST_IPV4}
Overlooked == {FLOW_END}

\* The names that the configuration gives to fields, and the fields that the
\* filter looks at.
Called(f, n) == Known(f) /\ MappedName(Name(f)) = n
Filtered(f) == \E n \in FilterNames \ Overlooked : Called(f, n)

\* What the filter compares is a number of 32 bits: the seconds that the divider
\* of the field's mapping yields, or an address.
Seconds32(f) == f.value \div Mapping(Name(f)).div

Filterable(f) ==
  /\ Fits(f) /\ Type(f) # "ipv6"
  /\ IF Called(f, FLOW_START)
     THEN /\ Mappings(Name(f)) # {} /\ Mapping(Name(f)).div > 0
          /\ Seconds32(f) < Word
     ELSE f.value < Word

\* The interval of filterTimeStart and filterTimeStop, and the addresses.
InInterval(s) == /\ conf.start \in {Unlimited} \cup 0..s
                 /\ conf.stop \in {Unlimited, NotGiven} \/ s < conf.stop

Within(f, n) ==
  /\ n \in {FLOW_START, FLOW_END} => InInterval(Seconds32(f))
  /\ n = SRC_IPV4 => conf.src \in {Unlimited, f.value}
  /\ n = DST_IPV4 => conf.dst \in {Unlimited, f.value}

\* What the filter is for: a field that it looks at lies within the settings, by its
\* own value and the divider of its own mapping.
Wanted(f) == \A n \in FilterNames \ Overlooked : Called(f, n) => Within(f, n)

\* With no end given the code takes -1 for the end (nf_filter_data.cpp:29), and no
\* record with the time of its start comes before that.
ShutOut(r) == conf.stop = NotGiven /\ \E i \in DOMAIN r : Called(r[i], FLOW_START)

FieldsOf(r) == {r[i] : i \in DOMAIN r}

Printed == {rows[i].rec : i \in DOMAIN rows}

\* A record whose fields the filter can judge is printed if and only if they lie within
\* the settings, once and in order, whatever the records and fields before it left in
\* the locals of ipfix_parse_data_set (ipfix_data_types.cpp:245-266).  The two points in
\* which the code does not do what its help text says are Overlooked and ShutOut.
PrintedIffWanted ==
  /\ \A r \in 1..(rec - 1) :
       (\A f \in FieldsOf(dataSet[r]) : Filtered(f) => Filterable(f))
         => (r \in Printed <=> /\ \A f \in FieldsOf(dataSet[r]) : Wanted(f)
                              /\ ~ShutOut(dataSet[r]))
  /\ \A i, j \in DOMAIN rows : i < j => rows[i].rec < rows[j].rec

\* Three kinds of values are not shown, or not as they should: a time without a text, an
\* address of 32 characters or more, the part of a second in a unit coarser than that of
\* the element.
Unit(f) == TimeUnit(Element(f))
NoText(f) == \/ Type(f) = "time" /\ f.value \div Unit(f) \in conf.unprintable
             \/ Type(f) = "ipv6" /\ f.value >= 32
TooCoarse(f) == UnitsPerSecond[conf.dateAdd] < Unit(f)

PartOfSecond(f) ==
  IF TooCoarse(f) THEN 0
  ELSE ((f.value % Unit(f)) * UnitsPerSecond[conf.dateAdd]) \div Unit(f)

\* All others are shown as the help text says (options.cpp:195-196): a time in seconds
\* with the part of a second in the unit of outputFormatDateAdd, numbers and addresses as
\* they are.
Shown(f) ==
  IF ~Fits(f) \/ NoText(f) THEN <<>>
  ELSE IF Type(f) # "time" THEN <<f.value>>
  ELSE <<f.value \div Unit(f)>>
         \o (IF conf.dateAdd \in DOMAIN UnitsPerSecond THEN <<PartOfSecond(f)>> ELSE <<>>)

\* The text that the first k fields of record r leave in a column: that of the last
\* of them with its name.
Giving(r, n, k) == {i \in 1..k : Called(r[i], n)}

ColumnText(r, n, k) ==
  IF Giving(r, n, k) = {} THEN <<>> ELSE Shown(r[Max(Giving(r, n, k))])

\* The columns of a name but the first stay empty.
Again(c) == \E b \in 1..(c - 1) : conf.template[b] = conf.template[c]

Columns(r, k) == [c \in DOMAIN conf.template |->
                    IF Again(c) THEN <<>> ELSE ColumnText(r, conf.template[c], k)]

\* The rows under the header that nfc_outputtemplate_output_header prints: a
\* column has the last value of its name in this very record, as it is to be shown, and
\* is empty when the record has no such field or the name has a column already.
RowsFitTemplate ==
  conf.template # <<>> =>
    \A i \in DOMAIN rows :
      LET r == dataSet[rows[i].rec] IN rows[i].row = Columns(r, Len(r))

\* Only a divider of zero in the configuration stops the program: the divider
\* that a field without a mapping finds in ui32Div is never used.
CrashOnlyByConfiguration ==
  at = "crashed" => \E i \in DOMAIN conf.mappings :
                      conf.mappings[i].mapped = FLOW_START /\ conf.mappings[i].div = 0
=============================================================================
