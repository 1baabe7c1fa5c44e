--------------------------- MODULE DataRecords_proofs ---------------------------
(***************************************************************************)
(* What becomes of a record, for any dictionary, settings and data sets:   *)
(* who is printed, what a row holds, what a time looks like and what stops *)
(* the program.  And that the dictionary, as the red-black tree that main  *)
(* fills, finds every element of its table.                                *)
(***************************************************************************)
EXTENDS DataRecords, NumberTheorems, SequenceTheorems

Fields == [id : Nat, size : Nat, value : Nat]
Texts == Seq(Nat)
Titles == STRING \cup {"other"}
RowValues == Texts \cup (Titles \X Texts)

RTypes ==
  /\ conf \in Configurations \cup {NoSettings}
  /\ dataSet \in Seq(Seq(Fields))
  /\ at \in {"dictionary", "field", "done", "crashed"}
  /\ rec \in Nat \ {0} /\ field \in Nat \ {0}
  /\ forFilter \in Nat /\ div \in Nat
  /\ row \in Seq(RowValues)
  /\ rows \in Seq([rec : Nat, row : Seq(RowValues)])

\* Before there is a data set nothing was done; afterwards the loops are at a field
\* of a record of it or behind its last field.
Places ==
  /\ at = "dictionary" => rec = 1 /\ field = 1 /\ rows = <<>>
  /\ at # "dictionary" => rec <= Len(dataSet) + 1
  /\ at = "field" => rec <= Len(dataSet) /\ field <= Len(Record) + 1

\* The rows are of records that the loop has left, one for each at most.
RowsInOrder ==
  /\ \A i \in DOMAIN rows : rows[i].rec < rec /\ rows[i].rec >= 1
  /\ \A i, j \in DOMAIN rows : i < j => rows[i].rec < rows[j].rec

\* What lets a field through the filter: that it is wanted and does not shut its
\* record out.
Passes(f) == Wanted(f) /\ ~(conf.stop = NotGiven /\ Called(f, FLOW_START))

Served(r) == (\A f \in FieldsOf(r) : Wanted(f)) /\ ~ShutOut(r)

\* The filter has passed every field of the record at hand so far.
PassedSoFar ==
  at = "field" =>
    \A i \in 1..(field - 1) :
      Filtered(Record[i]) /\ Filterable(Record[i]) => Passes(Record[i])

\* The row holds what those fields call for and nothing of other records.
RowSoFar ==
  at = "field" /\ conf.template # <<>> => row = Columns(Record, field - 1)

RInv == RTypes /\ Places /\ RowsInOrder /\ PrintedIffWanted /\ PassedSoFar
        /\ RowSoFar /\ RowsFitTemplate /\ CrashOnlyByConfiguration

-----------------------------------------------------------------------------
(* The dictionary and the settings stay as they are once a data set is at   *)
(* hand, and with them all that is said of a field.                         *)

\* The same id is found as long as the tree is the same.
LEMMA SameEntry ==
  ASSUME dict' = dict, NEW id PROVE Entry(id)' = Entry(id)
BY DEF Entry, Find, Way, Nodes

\* What a field is called and whether the filter passes it stays.
LEMMA SameField ==
  ASSUME UNCHANGED <<dictVars, conf>>, NEW f
  PROVE  /\ Known(f)' <=> Known(f)
         /\ Name(f)' = Name(f)
         /\ Filtered(f)' <=> Filtered(f)
         /\ Filterable(f)' <=> Filterable(f)
         /\ Wanted(f)' <=> Wanted(f)
         /\ Passes(f)' <=> Passes(f)
         /\ \A n : Called(f, n)' <=> Called(f, n)
         /\ Shown(f)' = Shown(f)
<1>1. dict' = dict /\ conf' = conf
  BY DEF dictVars
<1>2. \A id : Entry(id)' = Entry(id)
  BY <1>1, SameEntry
<1>3. Known(f)' <=> Known(f)
  BY <1>2 DEF Known
<1>4. Element(f)' = Element(f)
  BY <1>2 DEF Element
<1>5. Name(f)' = Name(f) /\ Type(f)' = Type(f)
  BY <1>4 DEF Name, Type
<1>6. Fits(f)' <=> Fits(f)
  BY <1>5 DEF Fits
<1>7. Shown(f)' = Shown(f)
  <2>1. Unit(f)' = Unit(f)
    BY <1>4 DEF Unit
  <2>2. (NoText(f)' <=> NoText(f)) /\ (TooCoarse(f)' <=> TooCoarse(f))
    BY <1>1, <1>5, <2>1 DEF NoText, TooCoarse
  <2>3. PartOfSecond(f)' = PartOfSecond(f)
    BY <1>1, <2>1, <2>2 DEF PartOfSecond
  <2> QED
    BY <1>1, <1>5, <1>6, <2>1, <2>2, <2>3 DEF Shown
<1>8. \A e : Mappings(e)' = Mappings(e) /\ Mapping(e)' = Mapping(e)
             /\ MappedName(e)' = MappedName(e)
  BY <1>1 DEF Mappings, Mapping, MappedName
<1>9. \A n : Called(f, n)' <=> Called(f, n)
  BY <1>3, <1>5, <1>8 DEF Called
<1>10. Filtered(f)' <=> Filtered(f)
  BY <1>9 DEF Filtered
<1>11. Seconds32(f)' = Seconds32(f)
  BY <1>5, <1>8 DEF Seconds32
<1>12. Filterable(f)' <=> Filterable(f)
  BY <1>5, <1>6, <1>8, <1>9, <1>11 DEF Filterable
<1>13. Wanted(f)' <=> Wanted(f)
  <2>1. \A n : Within(f, n)' <=> Within(f, n)
    BY <1>1, <1>11 DEF Within, InInterval
  <2> QED
    BY <1>9, <2>1 DEF Wanted
<1>14. Passes(f)' <=> Passes(f)
  BY <1>1, <1>9, <1>13 DEF Passes
<1> QED
  BY <1>3, <1>5, <1>7, <1>9, <1>10, <1>12, <1>13, <1>14

\* So does whether a record is shut out.
LEMMA SameShutOut ==
  ASSUME UNCHANGED <<dictVars, conf>>, NEW r PROVE ShutOut(r)' <=> ShutOut(r)
<1>1. conf' = conf
  OBVIOUS
<1>2. \A f, n : Called(f, n)' <=> Called(f, n)
  BY SameField
<1> QED
  BY <1>1, <1>2 DEF ShutOut

\* What the columns of a record call for stays.
LEMMA SameColumns ==
  ASSUME UNCHANGED <<dictVars, conf>>, NEW r, NEW k
  PROVE  Columns(r, k)' = Columns(r, k)
<1>1. conf' = conf
  OBVIOUS
<1>2. \A f, n : Called(f, n)' <=> Called(f, n)
  BY SameField
<1>3. \A f : Shown(f)' = Shown(f)
  BY SameField
<1>4. \A n : Giving(r, n, k)' = Giving(r, n, k)
  BY <1>2 DEF Giving
<1>5. \A n : ColumnText(r, n, k)' = ColumnText(r, n, k)
  BY <1>1, <1>3, <1>4 DEF ColumnText
<1>6. \A c : Again(c)' <=> Again(c)
  BY <1>1 DEF Again
<1> QED
  BY <1>1, <1>5, <1>6 DEF Columns

-----------------------------------------------------------------------------
(* Settings: mappings, units and the filter.                                *)

\* What the assumption says of the settings, those before they are read too.
LEMMA SettingsTyping ==
  ASSUME conf \in Configurations \cup {NoSettings}
  PROVE  /\ conf.mappings \in Seq([version : {9, 10}, name : STRING, mapped : STRING, div : Nat])
         /\ conf.template \in Seq(STRING)
         /\ conf.start \in Nat /\ conf.stop \in Int /\ conf.src \in Nat /\ conf.dst \in Nat
<1>1. CASE conf \in Configurations
  BY <1>1, RecordsAssumption
<1>2. CASE conf = NoSettings
  BY <1>2 DEF NoSettings, Unlimited
<1> QED
  BY <1>1, <1>2

\* A name that has mappings has a first one.
LEMMA FirstMapping ==
  ASSUME conf \in Configurations \cup {NoSettings}, NEW e, Mappings(e) # {}
  PROVE  \E i \in DOMAIN conf.mappings :
           Mapping(e) = conf.mappings[i]
           /\ Mapping(e) \in [version : {9, 10}, name : STRING, mapped : STRING, div : Nat]
<1> DEFINE M == Mappings(e)
           least(i) == i \in M /\ \A j \in M : i <= j
<1>1. M \in SUBSET Nat /\ M \subseteq DOMAIN conf.mappings
  BY SettingsTyping DEF Mappings
<1>2. PICK m \in M : \A j \in M : m <= j
  BY <1>1, LeastNumber
<1>3. PICK k : k = CHOOSE i \in M : \A j \in M : i <= j
  OBVIOUS
<1>4. k \in M
  BY <1>2, <1>3
<1>5. Mapping(e) = conf.mappings[k]
  BY <1>3 DEF Mapping
<1>6. conf.mappings[k] \in [version : {9, 10}, name : STRING, mapped : STRING, div : Nat]
  <2> DEFINE A == [version : {9, 10}, name : STRING, mapped : STRING, div : Nat]
  <2>1. conf.mappings \in Seq(A) /\ k \in DOMAIN conf.mappings
    BY <1>1, <1>4, SettingsTyping
  <2> HIDE DEF A
  <2>2. PICK s \in Seq(A) : s = conf.mappings
    BY <2>1
  <2>3. \A i \in DOMAIN s : s[i] \in A
    OBVIOUS
  <2>4. conf.mappings[k] \in A
    BY <2>1, <2>2, <2>3
  <2> QED
    BY <2>4 DEF A
<1> QED
  BY <1>1, <1>4, <1>5, <1>6

\* Only a mapping makes a field a flowStart.
LEMMA NamesOfFields ==
  ASSUME conf \in Configurations \cup {NoSettings}, NEW f
  PROVE  /\ Name(f) \in Titles /\ Name(f) # FLOW_START
         /\ MappedName(Name(f)) \in Titles
         /\ MappedName(Name(f)) = FLOW_START =>
              /\ Mappings(Name(f)) # {}
              /\ Mapping(Name(f)).mapped = FLOW_START
         /\ Divider(Name(f)) \in Nat \/ Divider(Name(f)) = div
<1>1. Name(f) \in Titles /\ Name(f) # FLOW_START
  <2>1. \A id \in DOMAIN Names : Names[id] \in STRING /\ Names[id] # FLOW_START
    BY RecordsAssumption
  <2>2. "other" \in Titles
    BY DEF Titles
  <2>3. "other" # FLOW_START
    BY DEF FLOW_START
  <2> QED
    BY <2>1, <2>2, <2>3 DEF Name, Titles
<1> HIDE DEF FLOW_START
<1>2. CASE Mappings(Name(f)) = {}
  BY <1>1, <1>2 DEF MappedName, Divider
<1>3. CASE Mappings(Name(f)) # {}
  BY <1>1, <1>3, FirstMapping DEF MappedName, Divider, Titles
<1> QED
  BY <1>1, <1>2, <1>3

\* A time counts in units of a second, a power of a thousand of them.
LEMMA TimeUnits ==
  ASSUME NEW id PROVE TimeUnit(id) \in {1, 1000, 1000000, 1000000000}
BY DEF TimeUnit

\* A unit of time that is no coarser than another is a multiple of it, and one that is
\* coarser has no whole part in it.
LEMMA Multiples ==
  ASSUME NEW u \in {1, 1000, 1000000, 1000000000}, NEW w \in {1000, 1000000, 1000000000},
         NEW m \in Nat
  PROVE  m * (w \div u) = IF w < u THEN 0 ELSE (m * w) \div u
<1>1. CASE u = 1
  BY <1>1
<1>2. CASE u = 1000
  BY <1>2
<1>3. CASE u = 1000000
  BY <1>3
<1>4. CASE u = 1000000000
  BY <1>4
<1> QED
  BY <1>1, <1>2, <1>3, <1>4

\* ipfix_dictionary_convert_value makes of a field the text that is to be shown.
LEMMA TextIsShown == ASSUME NEW f \in Fields PROVE ValueText(f) = Shown(f)
<1>1. f.value \in Nat
  BY DEF Fields
<1>2. CASE ~Fits(f)
  BY <1>2 DEF ValueText, Shown
<1>3. CASE Fits(f) /\ Type(f) # "time"
  <2>1. NoText(f) <=> Type(f) = "ipv6" /\ f.value >= 32
    BY <1>3 DEF NoText
  <2>2. ValueText(f) = IF Type(f) = "ipv6" THEN AddressText(f.value) ELSE <<f.value>>
    BY <1>3 DEF ValueText
  <2>3. Shown(f) = IF NoText(f) THEN <<>> ELSE <<f.value>>
    BY <1>3 DEF Shown
  <2> QED
    BY <1>1, <2>1, <2>2, <2>3 DEF AddressText
<1>4. CASE Fits(f) /\ Type(f) = "time"
  <2>1. PICK u \in {1, 1000, 1000000, 1000000000} : u = Unit(f) /\ u = TimeUnit(Element(f))
    BY TimeUnits DEF Unit
  <2>2. ValueText(f) = TimeText(u, f.value)
    BY <1>4, <2>1 DEF ValueText
  <2>3. CASE f.value \div u \in conf.unprintable
    BY <1>4, <2>1, <2>2, <2>3 DEF TimeText, Shown, NoText
  <2>4. CASE f.value \div u \notin conf.unprintable
    <3>1. Shown(f) = <<f.value \div u>>
                       \o (IF conf.dateAdd \in DOMAIN UnitsPerSecond THEN <<PartOfSecond(f)>> ELSE <<>>)
      BY <1>4, <2>1, <2>4 DEF Shown, NoText
    <3>2. CASE conf.dateAdd \notin DOMAIN UnitsPerSecond
      BY <2>2, <2>4, <3>1, <3>2 DEF TimeText
    <3>3. CASE conf.dateAdd \in DOMAIN UnitsPerSecond
      <4>1. PICK w \in {1000, 1000000, 1000000000} : w = UnitsPerSecond[conf.dateAdd]
        BY <3>3 DEF UnitsPerSecond
      <4>2. PICK m \in Nat : m = f.value % u
        BY <1>1, <2>1
      <4>3. PartOfSecond(f) = IF w < u THEN 0 ELSE (m * w) \div u
        BY <2>1, <4>1, <4>2 DEF PartOfSecond, TooCoarse
      <4>4. PartOfSecond(f) = m * (w \div u)
        BY <2>1, <4>3, Multiples
      <4>5. TimeText(u, f.value) = <<f.value \div u, m * (w \div u)>>
        BY <2>4, <3>3, <4>1, <4>2 DEF TimeText
      <4> QED
        BY <2>2, <3>1, <3>3, <4>4, <4>5
    <3> QED
      BY <3>2, <3>3
  <2> QED
    BY <2>3, <2>4
<1> QED
  BY <1>2, <1>3, <1>4

\* The text of a field is a sequence of numbers.
LEMMA TextTyping ==
  ASSUME NEW f \in Fields
  PROVE  ValueText(f) \in Texts
<1>1. f.value \in Nat
  BY DEF Fields
<1>2. PICK unit \in {1, 1000, 1000000, 1000000000} : unit = TimeUnit(Element(f))
  BY TimeUnits
<1>3. f.value \div unit \in Nat /\ f.value % unit \in Nat
  BY <1>1, <1>2
<1>4. TimeText(unit, f.value) \in Texts
  <2>1. CASE conf.dateAdd \notin DOMAIN UnitsPerSecond
    BY <1>3, <2>1 DEF TimeText, Texts
  <2>2. CASE conf.dateAdd \in DOMAIN UnitsPerSecond
    <3>1. PICK w \in {1000, 1000000, 1000000000} : w = UnitsPerSecond[conf.dateAdd]
      BY <2>2 DEF UnitsPerSecond
    <3>2. w \div unit \in Nat
      BY <1>2, <3>1
    <3>3. (f.value % unit) * (w \div unit) \in Nat
      BY <1>3, <3>2
    <3> QED
      BY <1>3, <2>2, <3>1, <3>3 DEF TimeText, Texts
  <2> QED
    BY <2>1, <2>2
<1>5. <<>> \in Texts /\ <<f.value>> \in Texts /\ AddressText(f.value) \in Texts
  BY <1>1 DEF Texts, AddressText
<1> QED
  BY <1>2, <1>4, <1>5 DEF ValueText

\* The attributes that nf_filter_data has a branch for.
LEMMA NamesCompared == FilterNames \ Overlooked = {FLOW_START, SRC_IPV4, DST_IPV4}
BY DEF FilterNames, Overlooked, FLOW_START, FLOW_END, SRC_IPV4, DST_IPV4

\* The filter looks at no other field, and judges one that it can convert by its
\* own value and the divider of its own mapping.
LEMMA FilterJudges ==
  ASSUME conf \in Configurations \cup {NoSettings}, NEW f \in Fields, Known(f),
         NEW n, n = MappedName(Name(f)), NEW v, v = ValueForFilter(f),
         NEW d, d = Divider(Name(f))
  PROVE  /\ ~Filtered(f) => Accepts(n, v, d)
         /\ Filtered(f) /\ Filterable(f) => (Accepts(n, v, d) <=> Passes(f))
<1>1. \A m : Called(f, m) <=> m = n
  BY DEF Called
<1>2. Filtered(f) <=> n \in {FLOW_START, SRC_IPV4, DST_IPV4}
  BY <1>1, NamesCompared DEF Filtered
<1>3. ASSUME ~Filtered(f) PROVE Accepts(n, v, d)
  BY <1>2, <1>3 DEF Accepts
<1>4. ASSUME Filtered(f), Filterable(f) PROVE Accepts(n, v, d) <=> Passes(f)
  <2>1. v = f.value /\ v \in Nat
    BY <1>4 DEF Filterable, ValueForFilter, Fields
  <2>2. Word \in Nat \ {0}
    BY RecordsAssumption
  <2>3. conf.start \in Nat /\ conf.stop \in Int /\ conf.src \in Nat /\ conf.dst \in Nat
    BY SettingsTyping
  <2>4. CASE n = FLOW_START
    <3>1. Called(f, FLOW_START) /\ ~Called(f, SRC_IPV4) /\ ~Called(f, DST_IPV4)
      BY <1>1, <2>4 DEF FLOW_START, SRC_IPV4, DST_IPV4
    <3>2. Mappings(Name(f)) # {} /\ d = Mapping(Name(f)).div /\ d > 0 /\ Seconds32(f) < Word
      BY <1>4, <3>1 DEF Filterable, Divider
    <3>3. d \in Nat
      BY <3>2, FirstMapping
    <3>4. PICK s \in Nat : s = Seconds32(f) /\ s = v \div d
      BY <2>1, <3>2, <3>3 DEF Seconds32
    <3>5. (v \div d) % Word = s
      BY <2>2, <3>2, <3>4
    <3>6. Accepts(n, v, d) <=> AcceptsTime(s)
      BY <2>4, <3>5 DEF Accepts, FLOW_START, SRC_IPV4, DST_IPV4
    <3>7. Wanted(f) <=> Within(f, FLOW_START)
      BY <3>1, NamesCompared DEF Wanted
    <3>8. Within(f, FLOW_START) <=> InInterval(s)
      BY <3>4 DEF Within, FLOW_START, SRC_IPV4, DST_IPV4
    <3>9. Passes(f) <=> /\ conf.start \in {Unlimited} \cup 0..s
                        /\ conf.stop = Unlimited \/ s < conf.stop
      BY <2>3, <3>1, <3>4, <3>7, <3>8 DEF Passes, InInterval, NotGiven, Unlimited
    <3> QED
      BY <2>3, <3>6, <3>9 DEF AcceptsTime, Unlimited
  <2>5. ASSUME n # FLOW_START PROVE v % Word = v
    <3>1. f.value < Word
      BY <1>1, <1>4, <2>5 DEF Filterable
    <3> QED
      BY <2>1, <2>2, <3>1
  <2>6. CASE n = SRC_IPV4
    <3>1. ~Called(f, FLOW_START) /\ Called(f, SRC_IPV4) /\ ~Called(f, DST_IPV4)
      BY <1>1, <2>6 DEF FLOW_START, SRC_IPV4, DST_IPV4
    <3>2. Accepts(n, v, d) <=> (conf.src # Unlimited => conf.src = v)
      BY <2>5, <2>6 DEF Accepts, FLOW_START, SRC_IPV4, DST_IPV4
    <3>3. Passes(f) <=> Within(f, SRC_IPV4)
      BY <3>1, NamesCompared DEF Passes, Wanted
    <3> QED
      BY <2>1, <3>2, <3>3 DEF Within, FLOW_START, FLOW_END, SRC_IPV4, DST_IPV4
  <2>7. CASE n = DST_IPV4
    <3>1. ~Called(f, FLOW_START) /\ ~Called(f, SRC_IPV4) /\ Called(f, DST_IPV4)
      BY <1>1, <2>7 DEF FLOW_START, SRC_IPV4, DST_IPV4
    <3>2. Accepts(n, v, d) <=> (conf.dst # Unlimited => conf.dst = v)
      BY <2>5, <2>7 DEF Accepts, FLOW_START, SRC_IPV4, DST_IPV4
    <3>3. Passes(f) <=> Within(f, DST_IPV4)
      BY <3>1, NamesCompared DEF Passes, Wanted
    <3> QED
      BY <2>1, <3>2, <3>3 DEF Within, FLOW_START, FLOW_END, SRC_IPV4, DST_IPV4
  <2> QED
    BY <1>2, <1>4, <2>4, <2>6, <2>7
<1> QED
  BY <1>3, <1>4

\* A field that the filter does not look at passes whatever the settings.
LEMMA OthersPass == ASSUME NEW f, ~Filtered(f) PROVE Passes(f)
BY NamesCompared DEF Filtered, Wanted, Passes

\* A record of which every field passes is one that is wanted and not shut out.
LEMMA AllPass ==
  ASSUME NEW r PROVE Served(r) <=> \A f \in FieldsOf(r) : Passes(f)
BY DEF Served, Passes, ShutOut, FieldsOf

-----------------------------------------------------------------------------
(* The row.                                                                 *)

\* A field changes the texts of the columns of its name and of no other.
LEMMA ColumnGrows ==
  ASSUME NEW r, NEW n, NEW k \in Nat
  PROVE  /\ ColumnText(r, n, 0) = <<>>
         /\ Called(r[k + 1], n) => ColumnText(r, n, k + 1) = Shown(r[k + 1])
         /\ ~Called(r[k + 1], n) => ColumnText(r, n, k + 1) = ColumnText(r, n, k)
<1>1. ColumnText(r, n, 0) = <<>>
  BY DEF ColumnText, Giving
<1>2. ASSUME Called(r[k + 1], n)
      PROVE  ColumnText(r, n, k + 1) = Shown(r[k + 1])
  <2>1. k + 1 \in Giving(r, n, k + 1)
    BY <1>2 DEF Giving
  <2>2. \A i \in Giving(r, n, k + 1) : i \in Nat /\ k + 1 >= i
    BY DEF Giving
  <2>3. Max(Giving(r, n, k + 1)) = k + 1
    BY <2>1, <2>2 DEF Max
  <2> QED
    BY <2>1, <2>3 DEF ColumnText
<1>3. ASSUME ~Called(r[k + 1], n) PROVE ColumnText(r, n, k + 1) = ColumnText(r, n, k)
  <2>1. Giving(r, n, k + 1) = Giving(r, n, k)
    <3>1. ASSUME NEW i \in Giving(r, n, k + 1) PROVE i \in Giving(r, n, k)
      BY <1>3, <3>1 DEF Giving
    <3>2. ASSUME NEW i \in Giving(r, n, k) PROVE i \in Giving(r, n, k + 1)
      BY <3>2 DEF Giving
    <3> QED
      BY <3>1, <3>2
  <2> QED
    BY <2>1 DEF ColumnText
<1> QED
  BY <1>1, <1>2, <1>3

\* No field calls for an empty row.
LEMMA RowStarts == ASSUME NEW r PROVE Columns(r, 0) = EmptyRow
<1>1. \A n : ColumnText(r, n, 0) = <<>>
  BY ColumnGrows
<1> QED
  BY <1>1 DEF Columns, EmptyRow

\* A field without an entry leaves the row as it is.
LEMMA RowStays ==
  ASSUME NEW r, NEW k \in Nat, ~Known(r[k + 1])
  PROVE  Columns(r, k + 1) = Columns(r, k)
<1>1. \A n : ~Called(r[k + 1], n)
  BY DEF Called
<1>2. \A n : ColumnText(r, n, k + 1) = ColumnText(r, n, k)
  BY <1>1, ColumnGrows
<1> QED
  BY <1>2 DEF Columns

\* nfc_outputtemplate_object_add makes the row of k fields that of one more.
LEMMA RowGrows ==
  ASSUME NEW r, NEW k \in Nat, Known(r[k + 1]), conf.template # <<>>,
         conf.template \in Seq(STRING),
         NEW n, n = MappedName(Name(r[k + 1])),
         NEW t, t = Shown(r[k + 1])
  PROVE  Placed(Columns(r, k), n, t) = Columns(r, k + 1)
<1>1. \A m : Called(r[k + 1], m) <=> m = n
  BY DEF Called
<1>2. ColumnText(r, n, k + 1) = t
  BY <1>1, ColumnGrows
<1>3. \A m : m # n => ColumnText(r, m, k + 1) = ColumnText(r, m, k)
  BY <1>1, ColumnGrows
<1> DEFINE T == DOMAIN conf.template
<1>4. \A c \in T : c \in ColumnOf(n) <=> conf.template[c] = n /\ ~Again(c)
  BY DEF ColumnOf, Again
<1>5. ASSUME NEW c \in T
      PROVE  (IF c \in ColumnOf(n) THEN t ELSE Columns(r, k)[c]) = Columns(r, k + 1)[c]
  <2>1. Columns(r, k)[c] = IF Again(c) THEN <<>> ELSE ColumnText(r, conf.template[c], k)
    BY DEF Columns
  <2>2. Columns(r, k + 1)[c]
          = IF Again(c) THEN <<>> ELSE ColumnText(r, conf.template[c], k + 1)
    BY DEF Columns
  <2> QED
    BY <1>2, <1>3, <1>4, <2>1, <2>2
<1>6. Placed(Columns(r, k), n, t)
        = [c \in T |-> IF c \in ColumnOf(n) THEN t ELSE Columns(r, k)[c]]
  BY DEF Placed, Columns
<1>7. Columns(r, k + 1) = [c \in T |-> Columns(r, k + 1)[c]]
  BY DEF Columns
<1> HIDE DEF T
<1> QED
  BY <1>5, <1>6, <1>7

\* A field is placed in the row without changing its type.
LEMMA RowTyping ==
  ASSUME conf \in Configurations \cup {NoSettings}
  PROVE  /\ EmptyRow \in Seq(RowValues)
         /\ \A r \in Seq(RowValues), n \in Titles, t \in Texts : Placed(r, n, t) \in Seq(RowValues)
<1>1. conf.template \in Seq(STRING)
  BY SettingsTyping
<1>2. PICK l \in Nat : DOMAIN conf.template = 1..l
  BY <1>1
<1>3. <<>> \in RowValues
  BY DEF RowValues, Texts
<1>4. EmptyRow \in Seq(RowValues)
  <2>1. EmptyRow = [i \in 1..l |-> <<>>]
    BY <1>2 DEF EmptyRow
  <2>2. EmptyRow \in [1..l -> RowValues]
    BY <1>3, <2>1
  <2> QED
    BY <2>2
<1>5. ASSUME NEW r \in Seq(RowValues), NEW n \in Titles, NEW t \in Texts
      PROVE  Placed(r, n, t) \in Seq(RowValues)
  <2>1. t \in RowValues /\ <<n, t>> \in RowValues
    BY DEF RowValues
  <2>2. Append(r, <<n, t>>) \in Seq(RowValues)
    BY <2>1
  <2> DEFINE g == [i \in DOMAIN r |-> IF i \in ColumnOf(n) THEN t ELSE r[i]]
  <2>3. g \in Seq(RowValues)
    <3>1. Len(r) \in Nat /\ DOMAIN r = 1..Len(r) /\ \A i \in 1..Len(r) : r[i] \in RowValues
      OBVIOUS
    <3>2. g \in [1..Len(r) -> RowValues]
      BY <2>1, <3>1
    <3> QED
      BY <3>1, <3>2
  <2> QED
    BY <2>2, <2>3 DEF Placed
<1> QED
  BY <1>4, <1>5

-----------------------------------------------------------------------------
(* The steps.                                                               *)

\* The invariant of the records holds at first.
LEMMA RecordsInit == Init => RInv
<1> SUFFICES ASSUME Init PROVE RInv
  OBVIOUS
<1>1. conf = NoSettings /\ dataSet = <<>> /\ at = "dictionary" /\ rec = 1 /\ field = 1
      /\ text = <<>> /\ forFilter = 0 /\ div = 0 /\ row = EmptyRow /\ rows = <<>>
  BY DEF Init
<1>2. RTypes
  BY <1>1, RowTyping DEF RTypes
<1> QED
  BY <1>1, <1>2 DEF RInv, Places, RowsInOrder, PrintedIffWanted, Printed, PassedSoFar,
    RowSoFar, RowsFitTemplate, CrashOnlyByConfiguration

\* The field at hand is one of the record at hand.
LEMMA AtHand ==
  ASSUME RTypes, Places, at = "field"
  PROVE  /\ Record \in Seq(Fields) /\ rec \in 1..Len(dataSet)
         /\ field \in 1..(Len(Record) + 1)
         /\ AtField => Here \in Fields /\ field \in DOMAIN Record
<1>1. rec \in DOMAIN dataSet
  BY DEF RTypes, Places
<1>2. Record \in Seq(Fields)
  <2>1. dataSet \in Seq(Seq(Fields))
    BY DEF RTypes
  <2> QED
    BY <1>1, <2>1 DEF Record
<1>3. PICK r \in Seq(Fields) : r = Record
  BY <1>2
<1>4. field \in 1..(Len(r) + 1)
  BY <1>3 DEF RTypes, Places
<1>5. AtField => field \in 1..Len(r)
  BY <1>3, <1>4 DEF AtField
<1>6. AtField => r[field] \in Fields
  BY <1>5
<1> QED
  BY <1>1, <1>3, <1>4, <1>5, <1>6 DEF RTypes, Here

\* As long as the data set and the rows stay, so does all that is said of the rows
\* and of the records that the loop has left.
LEMMA LeftStay ==
  ASSUME UNCHANGED <<dictVars, conf, dataSet, rec, rows>>, RowsInOrder, PrintedIffWanted,
         RowsFitTemplate
  PROVE  RowsInOrder' /\ PrintedIffWanted' /\ RowsFitTemplate'
<1>1. dataSet' = dataSet /\ rec' = rec /\ rows' = rows /\ conf' = conf
  OBVIOUS
<1>2. RowsInOrder'
  BY <1>1 DEF RowsInOrder
<1>3. PrintedIffWanted'
  <2>1. \A f : /\ Filtered(f)' <=> Filtered(f)
               /\ Filterable(f)' <=> Filterable(f)
               /\ Wanted(f)' <=> Wanted(f)
    BY SameField
  <2>2. Printed' = Printed
    BY <1>1 DEF Printed
  <2>3. \A r : ShutOut(r)' <=> ShutOut(r)
    BY SameShutOut
  <2> QED
    BY <1>1, <2>1, <2>2, <2>3 DEF PrintedIffWanted, FieldsOf
<1>4. RowsFitTemplate'
  <2>1. \A r, k : Columns(r, k)' = Columns(r, k)
    BY SameColumns
  <2> QED
    BY <1>1, <2>1 DEF RowsFitTemplate
<1> QED
  BY <1>2, <1>3, <1>4

\* The next field: the filter has passed this one, and the row has it if it is known.
LEMMA NextField ==
  ASSUME RInv, AtField, UNCHANGED <<dictVars, conf, dataSet, at, rec, rows>>,
         field' = field + 1, row' \in Seq(RowValues), forFilter' \in Nat, div' \in Nat,
         Filtered(Here) /\ Filterable(Here) => Passes(Here),
         conf.template # <<>> => row' = Columns(Record, field)
  PROVE  RInv'
<1>0. /\ RTypes /\ Places /\ at = "field" /\ at' = "field"
      /\ dataSet' = dataSet /\ rec' = rec /\ rows' = rows /\ conf' = conf
  BY DEF RInv, AtField
<1>1. PICK r \in Seq(Fields) : r = Record
  BY <1>0, AtHand
<1>2. Record' = r
  BY <1>0, <1>1 DEF Record
<1>3. field \in 1..Len(r)
  BY <1>0, <1>1, AtHand
<1>4. RTypes'
  BY <1>0 DEF RTypes
<1>5. Places'
  BY <1>0, <1>1, <1>2, <1>3 DEF Places, RTypes
<1>6. RowsInOrder' /\ PrintedIffWanted' /\ RowsFitTemplate'
  BY LeftStay DEF RInv
<1>7. PassedSoFar'
  <2>1. \A f : /\ Filtered(f)' <=> Filtered(f)
               /\ Filterable(f)' <=> Filterable(f)
               /\ Passes(f)' <=> Passes(f)
    BY SameField
  <2>2. ASSUME NEW i \in 1..field PROVE Filtered(r[i]) /\ Filterable(r[i]) => Passes(r[i])
    <3>1. CASE i = field
      BY <1>1, <3>1 DEF Here
    <3>2. CASE i # field
      <4>1. i \in 1..(field - 1)
        BY <1>3, <3>2
      <4> QED
        BY <1>0, <1>1, <4>1 DEF RInv, PassedSoFar
    <3> QED
      BY <3>1, <3>2
  <2>3. field' - 1 = field
    BY <1>3
  <2> QED
    BY <1>2, <2>1, <2>2, <2>3 DEF PassedSoFar
<1>8. RowSoFar'
  <2>1. PICK k \in Nat : k = field
    BY <1>3
  <2>2. Columns(r, k)' = Columns(r, k)
    BY SameColumns
  <2>3. field' - 1 = k
    BY <2>1
  <2>4. conf.template # <<>> => row' = Columns(r, k)
    BY <1>1, <2>1
  <2> QED
    BY <1>0, <1>2, <2>2, <2>3, <2>4 DEF RowSoFar
<1>9. CrashOnlyByConfiguration'
  BY <1>0 DEF CrashOnlyByConfiguration
<1> QED
  BY <1>4, <1>5, <1>6, <1>7, <1>8, <1>9 DEF RInv

\* The next record: the one at hand is printed, at its end and with the row so far,
\* or refused for a field that the filter did not want.
LEMMA RecordLeft ==
  ASSUME RInv, at = "field", UNCHANGED <<dictVars, conf, dataSet>>, NextRecord,
         forFilter' \in Nat, div' \in Nat,
         \/ /\ rows' = rows /\ AtField
            /\ Filtered(Here) /\ (Filterable(Here) => ~Passes(Here))
         \/ /\ rows' = Append(rows, [rec |-> rec, row |-> row])
            /\ field > Len(Record)
  PROVE  RInv'
<1>0. /\ RTypes /\ Places /\ rec' = rec + 1 /\ field' = 1 /\ row' = EmptyRow
      /\ dataSet' = dataSet /\ conf' = conf
      /\ at' = IF rec = Len(dataSet) THEN "done" ELSE "field"
  BY DEF RInv, NextRecord
<1>1. PICK r \in Seq(Fields) : r = dataSet[rec]
  BY <1>0, AtHand DEF Record
<1>2. rec \in 1..Len(dataSet) /\ field \in 1..(Len(r) + 1) /\ r = Record
  BY <1>0, <1>1, AtHand DEF Record
<1>3. /\ rows \in Seq([rec : Nat, row : Seq(RowValues)]) /\ row \in Seq(RowValues)
      /\ Len(dataSet) \in Nat /\ rec \in Nat
  BY <1>0, <1>2 DEF RTypes
<1>4. PICK m \in Nat : /\ m = Len(rows) /\ DOMAIN rows = 1..m
                       /\ \A i \in 1..m : rows[i].rec \in Nat
  <2> DEFINE E == [rec : Nat, row : Seq(RowValues)]
  <2>1. \A e \in E : e.rec \in Nat
    OBVIOUS
  <2> HIDE DEF E
  <2>2. Len(rows) \in Nat /\ DOMAIN rows = 1..Len(rows) /\ \A i \in 1..Len(rows) : rows[i] \in E
    <3>1. rows \in Seq(E)
      BY <1>3 DEF E
    <3> QED
      BY <3>1
  <2> QED
    BY <2>1, <2>2
<1> DEFINE printed == rows' = Append(rows, [rec |-> rec, row |-> row])
<1>5. /\ printed => /\ Len(rows') = m + 1 /\ DOMAIN rows' = 1..(m + 1)
                    /\ \A i \in 1..m : rows'[i] = rows[i]
                    /\ rows'[m + 1] = [rec |-> rec, row |-> row]
      /\ rows' \in Seq([rec : Nat, row : Seq(RowValues)])
  <2>1. [rec |-> rec, row |-> row] \in [rec : Nat, row : Seq(RowValues)]
    BY <1>3
  <2> DEFINE e == [rec |-> rec, row |-> row]
             E == [rec : Nat, row : Seq(RowValues)]
  <2> HIDE DEF e, E
  <2>2. rows \in Seq(E) /\ e \in E
    BY <1>3, <2>1 DEF e, E
  <2>3. /\ Append(rows, e) \in Seq(E) /\ Len(Append(rows, e)) = m + 1
        /\ DOMAIN Append(rows, e) = 1..(m + 1)
        /\ \A i \in 1..m : Append(rows, e)[i] = rows[i]
        /\ Append(rows, e)[m + 1] = e
    BY <1>4, <2>2
  <2> QED
    BY <2>2, <2>3 DEF e, E
<1>6. RTypes'
  <2>1. row' \in Seq(RowValues)
    BY <1>0, RowTyping DEF RTypes
  <2>2. at' \in {"dictionary", "field", "done", "crashed"} /\ rec' \in Nat \ {0}
        /\ field' \in Nat \ {0}
    BY <1>0, <1>3
  <2> QED
    BY <1>0, <1>5, <2>1, <2>2 DEF RTypes
<1>7. Places'
  <2>1. at' = "field" => Record' \in Seq(Fields)
    BY <1>0, <1>2, <1>3, AtHand DEF Record, RTypes
  <2> QED
    BY <1>0, <1>2, <1>3, <2>1 DEF Places
<1>8. RowsInOrder'
  <2>1. /\ \A i \in 1..m : rows[i].rec < rec /\ rows[i].rec >= 1 /\ rows[i].rec \in Nat
        /\ \A i, j \in 1..m : i < j => rows[i].rec < rows[j].rec
    BY <1>4 DEF RInv, RowsInOrder
  <2>2. CASE printed
    <3>1. rows'[m + 1].rec = rec
      BY <1>5, <2>2
    <3>0. \A i \in 1..m : rows'[i].rec = rows[i].rec
      BY <1>5, <2>2
    <3>2. ASSUME NEW i \in 1..(m + 1) PROVE rows'[i].rec < rec + 1 /\ rows'[i].rec >= 1
      <4>1. CASE i = m + 1
        BY <1>2, <3>1, <4>1
      <4>2. CASE i \in 1..m
        <5>1. rows'[i].rec = rows[i].rec
          BY <3>0, <4>2
        <5>2. rows[i].rec \in Nat /\ rows[i].rec < rec /\ rows[i].rec >= 1
          BY <2>1, <4>2
        <5>3. rec \in Nat
          BY <1>3
        <5> QED
          BY <5>1, <5>2, <5>3
      <4> QED
        BY <4>1, <4>2
    <3>3. ASSUME NEW i \in 1..(m + 1), NEW j \in 1..(m + 1), i < j
          PROVE  rows'[i].rec < rows'[j].rec
      <4>1. i \in 1..m
        BY <3>3
      <4>2. CASE j = m + 1
        BY <2>1, <3>0, <3>1, <4>1, <4>2
      <4>3. CASE j \in 1..m
        BY <2>1, <3>0, <3>3, <4>1, <4>3
      <4> QED
        BY <4>2, <4>3
    <3> QED
      BY <1>0, <1>5, <2>2, <3>2, <3>3 DEF RowsInOrder
  <2>3. CASE rows' = rows
    <3>1. rec' \in Nat /\ rec \in Nat /\ rec <= rec'
      BY <1>0, <1>3
    <3>2. \A i \in 1..m : rows[i].rec < rec' /\ rows[i].rec >= 1
      BY <2>1, <3>1
    <3>3. DOMAIN rows' = 1..m
      BY <1>4, <2>3
    <3> QED
      BY <2>1, <2>3, <3>2, <3>3 DEF RowsInOrder
  <2> QED
    BY <2>2, <2>3
<1>9. \A f : /\ Filtered(f)' <=> Filtered(f)
             /\ Filterable(f)' <=> Filterable(f)
             /\ Wanted(f)' <=> Wanted(f)
  BY SameField
<1>10. rec \notin Printed
  BY <1>3 DEF RInv, RowsInOrder, Printed
<1>11. /\ printed => Printed' = Printed \cup {rec}
       /\ ~printed => Printed' = Printed
  <2>1. ASSUME printed PROVE Printed' = Printed \cup {rec}
    <3>1. rows'[m + 1].rec = rec
      BY <1>5, <2>1
    <3>2. Printed' = {rows'[i].rec : i \in 1..(m + 1)} /\ Printed = {rows[i].rec : i \in 1..m}
      BY <1>4, <1>5, <2>1 DEF Printed
    <3>3. \A i \in 1..(m + 1) : i \in 1..m \/ i = m + 1
      OBVIOUS
    <3>4. \A i \in 1..m : rows'[i].rec = rows[i].rec
      BY <1>5, <2>1
    <3>5. ASSUME NEW q \in Printed' PROVE q \in Printed \cup {rec}
      <4>1. PICK i \in 1..(m + 1) : q = rows'[i].rec
        BY <3>2
      <4> QED
        BY <3>1, <3>2, <3>3, <3>4, <4>1
    <3>6. ASSUME NEW q \in Printed \cup {rec} PROVE q \in Printed'
      <4>1. CASE q = rec
        <5>1. m + 1 \in 1..(m + 1)
          OBVIOUS
        <5> QED
          BY <3>1, <3>2, <4>1, <5>1
      <4>2. CASE q # rec
        <5>1. PICK i \in 1..m : q = rows[i].rec
          BY <3>2, <3>6, <4>2
        <5>2. i \in 1..(m + 1)
          OBVIOUS
        <5> QED
          BY <3>2, <3>4, <5>1, <5>2
      <4> QED
        BY <4>1, <4>2
    <3> QED
      BY <3>5, <3>6
  <2> QED
    BY <2>1 DEF Printed
<1>12. ASSUME \A f \in FieldsOf(r) : Filtered(f) => Filterable(f)
       PROVE  printed <=> Served(r)
  <2>1. CASE printed
    <3>1. field > Len(r)
      BY <1>2, <2>1, <1>4, <1>5
    <3>2. field = Len(r) + 1 /\ Len(r) \in Nat /\ DOMAIN r = 1..Len(r)
      BY <1>2, <3>1
    <3>3. ASSUME NEW i \in 1..Len(r) PROVE Passes(r[i])
      <4>1. Filtered(r[i]) => Filterable(r[i])
        BY <1>12, <3>2 DEF FieldsOf
      <4>2. i \in 1..(field - 1)
        BY <3>2
      <4>3. Filtered(r[i]) /\ Filterable(r[i]) => Passes(r[i])
        BY <1>2, <4>2 DEF RInv, PassedSoFar
      <4> QED
        BY <4>1, <4>3, OthersPass
    <3> QED
      BY <2>1, <3>2, <3>3, AllPass DEF FieldsOf
  <2>2. CASE ~printed
    <3>1. AtField /\ Filtered(Here) /\ (Filterable(Here) => ~Passes(Here))
      BY <2>2
    <3>2. Here \in FieldsOf(r)
      BY <1>0, <1>2, <3>1, AtHand DEF FieldsOf, Here
    <3> QED
      BY <1>12, <2>2, <3>1, <3>2, AllPass
  <2> QED
    BY <2>1, <2>2
<1>13. PrintedIffWanted'
  <2>1. ASSUME NEW q \in 1..rec,
               \A f \in FieldsOf(dataSet[q]) : Filtered(f) => Filterable(f)
        PROVE  q \in Printed' <=> Served(dataSet[q])
    <3>1. CASE q = rec
      BY <1>1, <1>10, <1>11, <1>12, <2>1, <3>1
    <3>2. CASE q # rec
      <4>1. q \in 1..(rec - 1)
        BY <1>3, <3>2
      <4>2. q \in Printed <=> Served(dataSet[q])
        BY <2>1, <4>1 DEF RInv, PrintedIffWanted, Served
      <4> QED
        BY <1>11, <3>2, <4>2
    <3> QED
      BY <3>1, <3>2
  <2>2. rec' - 1 = rec
    BY <1>0, <1>3
  <2>3. \A q : FieldsOf(dataSet[q])' = FieldsOf(dataSet[q])
    BY <1>0 DEF FieldsOf
  <2>4. \A i, j \in DOMAIN rows' : i < j => rows'[i].rec < rows'[j].rec
    BY <1>8 DEF RowsInOrder
  <2>5. \A q : ShutOut(q)' <=> ShutOut(q)
    BY SameShutOut
  <2> QED
    BY <1>0, <1>9, <2>1, <2>2, <2>3, <2>4, <2>5 DEF PrintedIffWanted, Served
<1>14. PassedSoFar'
  BY <1>0 DEF PassedSoFar
<1>15. \A q, k : Columns(q, k)' = Columns(q, k)
  BY SameColumns
<1>16. RowSoFar'
  <2>1. EmptyRow' = EmptyRow
    BY <1>0 DEF EmptyRow
  <2>2. \A q : Columns(q, 0)' = EmptyRow
    BY <1>15, RowStarts
  <2>3. PICK q : q = Record'
    OBVIOUS
  <2>4. field' - 1 = 0
    BY <1>0
  <2> QED
    BY <1>0, <2>2, <2>3, <2>4 DEF RowSoFar
<1>17. RowsFitTemplate'
  <2> SUFFICES ASSUME conf.template # <<>>, NEW i \in DOMAIN rows'
               PROVE  rows'[i].row = Columns(dataSet[rows'[i].rec],
                                             Len(dataSet[rows'[i].rec]))
    BY <1>0, <1>15 DEF RowsFitTemplate
  <2>1. \A j \in 1..m : rows[j].row = Columns(dataSet[rows[j].rec], Len(dataSet[rows[j].rec]))
    BY <1>4 DEF RInv, RowsFitTemplate
  <2>2. CASE printed /\ i = m + 1
    <3>1. rows'[i].row = row /\ rows'[i].rec = rec
      BY <1>5, <2>2
    <3>2. field - 1 = Len(r)
      BY <1>2, <1>4, <1>5, <2>2
    <3> QED
      BY <1>1, <1>2, <3>1, <3>2 DEF RInv, RowSoFar
  <2>3. CASE ~(printed /\ i = m + 1)
    <3>1. CASE printed
      <4>1. i \in 1..m
        <5>1. i \in 1..(m + 1)
          BY <1>5, <3>1
        <5>2. i # m + 1
          BY <2>3, <3>1
        <5> QED
          BY <5>1, <5>2
      <4>2. rows'[i] = rows[i]
        BY <1>5, <3>1, <4>1
      <4> QED
        BY <2>1, <4>1, <4>2
    <3>2. CASE rows' = rows
      BY <1>4, <2>1, <3>2
    <3> QED
      BY <3>1, <3>2
  <2> QED
    BY <2>2, <2>3
<1>18. CrashOnlyByConfiguration'
  BY <1>0 DEF CrashOnlyByConfiguration
<1> QED
  BY <1>6, <1>7, <1>8, <1>13, <1>14, <1>16, <1>17, <1>18 DEF RInv

\* Converting and mapping a field: what the next step goes by.
LEMMA ConvertedField ==
  ASSUME RInv, ConvertAndMap
  PROVE  /\ Known(Here) /\ Here \in Fields /\ field \in DOMAIN Record
         /\ name' = MappedName(Name(Here)) /\ name' \in Titles
         /\ text' = ValueText(Here) /\ text' \in Texts
         /\ forFilter' = ValueForFilter(Here) /\ forFilter' \in Nat
         /\ div' = Divider(Name(Here)) /\ div' \in Nat
<1>1. RTypes /\ Places /\ at = "field" /\ AtField
  BY DEF RInv, ConvertAndMap, AtField
<1>2. Here \in Fields /\ field \in DOMAIN Record
  BY <1>1, AtHand
<1>3. conf \in Configurations \cup {NoSettings} /\ forFilter \in Nat /\ div \in Nat
  BY <1>1 DEF RTypes
<1>4. PICK f \in Fields : f = Here
  BY <1>2
<1>5. name' = MappedName(Name(f)) /\ text' = ValueText(f)
      /\ forFilter' = ValueForFilter(f) /\ div' = Divider(Name(f)) /\ Known(f)
  BY <1>4 DEF ConvertAndMap
<1>6. name' \in Titles /\ div' \in Nat
  BY <1>3, <1>5, NamesOfFields
<1>7. text' \in Texts
  BY <1>3, <1>5, TextTyping
<1>8. forFilter' \in Nat
  BY <1>3, <1>5 DEF ValueForFilter, Fields
<1> QED
  BY <1>2, <1>4, <1>5, <1>6, <1>7, <1>8

\* A field that is not known keeps the invariant of the records.
LEMMA SkipKeeps == ASSUME RInv, SkipUnknownField PROVE RInv'
<1>1. RTypes /\ Places /\ at = "field" /\ AtField /\ ~Known(Here)
  BY DEF RInv, SkipUnknownField, AtField
<1>2. field \in Nat \ {0}
  BY <1>1 DEF RTypes
<1>3. PICK k \in Nat : field = k + 1
  <2>1. field - 1 \in Nat /\ field = (field - 1) + 1
    BY <1>2
  <2> QED
    BY <2>1
<1> DEFINE r == Record
<1>4. Columns(r, k + 1) = Columns(r, k)
  BY <1>1, <1>3, RowStays DEF Here
<1>5. conf.template # <<>> => row = Columns(r, k)
  BY <1>1, <1>3 DEF RInv, RowSoFar
<1>6. ~Filtered(Here)
  BY <1>1 DEF Filtered, Called
<1>7. UNCHANGED <<dictVars, conf, dataSet, at, rec, rows, row, forFilter, div>>
      /\ field' = field + 1
  BY DEF SkipUnknownField
<1>8. row' \in Seq(RowValues) /\ forFilter' \in Nat /\ div' \in Nat
  BY <1>1, <1>7 DEF RTypes
<1>9. conf.template # <<>> => row' = Columns(Record, field)
  BY <1>3, <1>4, <1>5, <1>7
<1> QED
  BY <1>1, <1>6, <1>7, <1>8, <1>9, NextField

\* So does a field that the filter passes.
LEMMA AddKeeps == ASSUME RInv, AddField PROVE RInv'
<1>1. RTypes /\ Places /\ at = "field" /\ AtField /\ ConvertAndMap
  BY DEF RInv, AddField, ConvertAndMap, AtField
<1>2. /\ Known(Here) /\ Here \in Fields
      /\ name' = MappedName(Name(Here)) /\ name' \in Titles
      /\ text' = ValueText(Here) /\ text' \in Texts
      /\ forFilter' = ValueForFilter(Here) /\ forFilter' \in Nat
      /\ div' = Divider(Name(Here)) /\ div' \in Nat
  BY <1>1, ConvertedField
<1>3. conf \in Configurations \cup {NoSettings} /\ field \in Nat \ {0} /\ row \in Seq(RowValues)
  BY <1>1 DEF RTypes
<1>4. UNCHANGED <<dictVars, conf, dataSet, at, rec, rows>> /\ field' = field + 1
      /\ row' = Placed(row, name', text') /\ Accepts(name', forFilter', div')
  BY <1>1 DEF AddField, ConvertAndMap
<1>5. Filtered(Here) /\ Filterable(Here) => Passes(Here)
  BY <1>2, <1>3, <1>4, FilterJudges
<1>6. row' \in Seq(RowValues)
  BY <1>2, <1>3, <1>4, RowTyping
<1>7. PICK k \in Nat : field = k + 1
  <2>1. field - 1 \in Nat /\ field = (field - 1) + 1
    BY <1>3
  <2> QED
    BY <2>1
<1> DEFINE r == Record
<1>8. ASSUME conf.template # <<>> PROVE row' = Columns(Record, field)
  <2>1. row = Columns(r, k)
    BY <1>1, <1>7, <1>8 DEF RInv, RowSoFar
  <2>2. conf.template \in Seq(STRING)
    BY <1>3, SettingsTyping
  <2>3. Here = r[k + 1]
    BY <1>7 DEF Here
  <2>4. Placed(Columns(r, k), name', text') = Columns(r, k + 1)
    BY <1>2, <1>8, <2>2, <2>3, RowGrows, TextIsShown
  <2> QED
    BY <1>4, <1>7, <2>1, <2>4
<1> QED
  BY <1>1, <1>2, <1>4, <1>5, <1>6, <1>8, NextField

\* So does a field for which the filter refuses the record.
LEMMA RefuseKeeps == ASSUME RInv, RefuseRecord PROVE RInv'
<1>1. RTypes /\ at = "field" /\ AtField /\ ConvertAndMap
  BY DEF RInv, RefuseRecord, ConvertAndMap, AtField
<1>2. /\ Known(Here) /\ Here \in Fields
      /\ name' = MappedName(Name(Here))
      /\ forFilter' = ValueForFilter(Here) /\ forFilter' \in Nat
      /\ div' = Divider(Name(Here)) /\ div' \in Nat
  BY <1>1, ConvertedField
<1>3. conf \in Configurations \cup {NoSettings}
  BY <1>1 DEF RTypes
<1>4. UNCHANGED <<dictVars, conf, dataSet, rows>> /\ ~Accepts(name', forFilter', div')
      /\ NextRecord
  BY <1>1 DEF RefuseRecord, ConvertAndMap
<1>5. Filtered(Here) /\ (Filterable(Here) => ~Passes(Here))
  BY <1>2, <1>3, <1>4, FilterJudges
<1> QED
  BY <1>1, <1>2, <1>4, <1>5, RecordLeft

\* So does printing a record.
LEMMA PrintKeeps == ASSUME RInv, PrintRecord PROVE RInv'
<1>1. RTypes /\ at = "field" /\ field > Len(Record) /\ NextRecord
      /\ rows' = Append(rows, [rec |-> rec, row |-> row])
      /\ UNCHANGED <<dictVars, conf, dataSet, forFilter, div>>
  BY DEF RInv, PrintRecord
<1>2. forFilter' \in Nat /\ div' \in Nat
  BY <1>1 DEF RTypes
<1> QED
  BY <1>1, <1>2, RecordLeft

\* A field without a mapping is no flowStart, so that the divider of another is never
\* divided by.
LEMMA CrashKeeps == ASSUME RInv, CrashOnDivision PROVE RInv'
<1>1. RTypes /\ Places /\ at = "field" /\ AtField /\ ConvertAndMap
  BY DEF RInv, CrashOnDivision, ConvertAndMap, AtField
<1>2. name' = MappedName(Name(Here)) /\ div' = Divider(Name(Here))
      /\ forFilter' \in Nat /\ div' \in Nat
  BY <1>1, ConvertedField
<1>3. conf \in Configurations \cup {NoSettings}
  BY <1>1 DEF RTypes
<1>4. UNCHANGED <<dictVars, conf, dataSet, rows, rec, field, row>> /\ at' = "crashed"
      /\ name' = FLOW_START /\ div' = 0
  BY <1>1 DEF CrashOnDivision, ConvertAndMap, DividesByZero
<1>5. /\ Mappings(Name(Here)) # {} /\ Mapping(Name(Here)).mapped = FLOW_START
      /\ Mapping(Name(Here)).div = 0
  <2>1. Mappings(Name(Here)) # {} /\ Mapping(Name(Here)).mapped = FLOW_START
    BY <1>2, <1>3, <1>4, NamesOfFields
  <2> QED
    BY <1>2, <1>4, <2>1 DEF Divider
<1>6. PICK i \in DOMAIN conf.mappings : Mapping(Name(Here)) = conf.mappings[i]
  BY <1>3, <1>5, FirstMapping
<1>7. CrashOnlyByConfiguration'
  BY <1>4, <1>5, <1>6 DEF CrashOnlyByConfiguration
<1>8. RowsInOrder' /\ PrintedIffWanted' /\ RowsFitTemplate'
  BY <1>4, LeftStay DEF RInv
<1>9. RTypes'
  BY <1>1, <1>2, <1>4 DEF RTypes
<1>10. Places' /\ PassedSoFar' /\ RowSoFar'
  BY <1>1, <1>4 DEF Places, PassedSoFar, RowSoFar
<1> QED
  BY <1>7, <1>8, <1>9, <1>10 DEF RInv

\* Before the data set there is nothing that the settings could contradict.
LEMMA BeginKeeps == ASSUME RInv, BeginDataSet PROVE RInv'
<1>1. /\ RTypes /\ rec = 1 /\ field = 1 /\ rows = <<>>
      /\ rec' = 1 /\ field' = 1 /\ rows' = <<>> /\ row' = EmptyRow'
      /\ conf' \in Configurations /\ dataSet' \in DataSets
      /\ at' = IF dataSet' = <<>> THEN "done" ELSE "field"
      /\ forFilter' \in Garbage /\ div' \in Garbage
  BY DEF RInv, Places, BeginDataSet
<1>2. dataSet' \in Seq(Seq(Fields)) /\ forFilter' \in Nat /\ div' \in Nat
  BY <1>1, RecordsAssumption DEF Fields
<1>3. EmptyRow' \in Seq(RowValues)
  <2>1. conf'.template \in Seq(STRING)
    BY <1>1, RecordsAssumption
  <2>2. PICK l \in Nat : DOMAIN conf'.template = 1..l
    BY <2>1
  <2>3. EmptyRow' = [i \in 1..l |-> <<>>]
    BY <2>2 DEF EmptyRow
  <2>4. EmptyRow' \in [1..l -> RowValues]
    BY <2>3 DEF RowValues, Texts
  <2> QED
    BY <2>4
<1>4. RTypes'
  BY <1>1, <1>2, <1>3 DEF RTypes
<1>5. Places'
  <2>1. PICK d \in Seq(Seq(Fields)) : d = dataSet'
    BY <1>2
  <2>2. d # <<>> => Len(d) >= 1 /\ d[1] \in Seq(Fields)
    BY <2>1
  <2>3. d # <<>> => Len(d[1]) >= 0
    BY <2>2
  <2> QED
    BY <1>1, <2>1, <2>2, <2>3 DEF Places, Record
<1>6. RowsInOrder' /\ PrintedIffWanted' /\ RowsFitTemplate' /\ PassedSoFar'
  BY <1>1 DEF RowsInOrder, PrintedIffWanted, Printed, RowsFitTemplate, PassedSoFar
<1>7. RowSoFar'
  <2>1. PICK k : k = field' - 1
    OBVIOUS
  <2>2. k = 0
    BY <1>1, <2>1
  <2>3. \A r : Columns(r, 0)' = EmptyRow'
    <3>1. \A r, n : (ColumnText(r, n, 0) = <<>>)'
      BY DEF ColumnText, Giving
    <3> QED
      BY <3>1 DEF Columns, EmptyRow
  <2> QED
    BY <1>1, <2>1, <2>2, <2>3 DEF RowSoFar
<1>8. CrashOnlyByConfiguration'
  BY <1>1 DEF CrashOnlyByConfiguration
<1> QED
  BY <1>4, <1>5, <1>6, <1>7, <1>8 DEF RInv

\* While the dictionary is filled there are no rows.
LEMMA FillKeeps == ASSUME RInv, FillDictionary PROVE RInv'
<1>1. RTypes /\ Places /\ at = "dictionary" /\ rec = 1 /\ rows = <<>>
      /\ UNCHANGED <<conf, dataSet, at, rec, field, forFilter, div, row, rows>>
  BY DEF RInv, Places, FillDictionary
<1>2. RTypes' /\ Places'
  BY <1>1 DEF RTypes, Places
<1> QED
  BY <1>1, <1>2 DEF RInv, RowsInOrder, PrintedIffWanted, Printed, RowsFitTemplate,
    PassedSoFar, RowSoFar, CrashOnlyByConfiguration

\* So does a stutter.
LEMMA RecordsStutter == ASSUME RInv, UNCHANGED vars PROVE RInv'
<1>1. UNCHANGED <<dictVars, conf, dataSet, at, rec, field, forFilter, div, row, rows>>
  BY DEF vars
<1>2. RowsInOrder' /\ PrintedIffWanted' /\ RowsFitTemplate'
  BY <1>1, LeftStay DEF RInv
<1>3. RTypes' /\ Places' /\ CrashOnlyByConfiguration'
  BY <1>1 DEF RInv, RTypes, Places, Record, CrashOnlyByConfiguration
<1>4. PassedSoFar'
  <2>1. \A f : /\ Filtered(f)' <=> Filtered(f)
               /\ Filterable(f)' <=> Filterable(f)
               /\ Passes(f)' <=> Passes(f)
    BY <1>1, SameField
  <2>2. Record' = Record
    BY <1>1 DEF Record
  <2> QED
    BY <1>1, <2>1, <2>2 DEF RInv, PassedSoFar
<1>5. RowSoFar'
  <2>1. PICK r, k : r = Record /\ k = field - 1
    OBVIOUS
  <2>2. Record' = r /\ field' - 1 = k
    BY <1>1, <2>1 DEF Record
  <2>3. Columns(r, k)' = Columns(r, k)
    BY <1>1, SameColumns
  <2> QED
    BY <1>1, <2>1, <2>2, <2>3 DEF RInv, RowSoFar
<1> QED
  BY <1>2, <1>3, <1>4, <1>5 DEF RInv

\* So does every step.
LEMMA RecordsNext == RInv /\ [Next]_vars => RInv'
BY SkipKeeps, AddKeeps, RefuseKeeps, PrintKeeps, CrashKeeps, BeginKeeps, FillKeeps,
   RecordsStutter DEF Next, Ended

-----------------------------------------------------------------------------
(* The theorems.                                                            *)

\* The loops of ipfix_parse_data_set keep RInv.
THEOREM RecordsInvariant == Spec => []RInv
<1>1. Init => RInv
  BY RecordsInit
<1>2. RInv /\ [Next]_vars => RInv'
  BY RecordsNext
<1> QED
  BY <1>1, <1>2, PTL DEF Spec

\* A record whose fields the filter can judge is printed if and only if all of them
\* lie within the settings, once and in order: neither the number, nor the divider,
\* nor the name that another field or record left has a say in it
\* (ipfix_data_types.cpp:245-266).
THEOREM PrintedAsWanted == Spec => []PrintedIffWanted
<1>1. RInv => PrintedIffWanted
  BY DEF RInv
<1> QED
  BY <1>1, RecordsInvariant, PTL

\* A row printed under a template has in each column the text of the last field of
\* its name in the very record it is of (nfc_output_template.cpp).
THEOREM RowsFit == Spec => []RowsFitTemplate
<1>1. RInv => RowsFitTemplate
  BY DEF RInv
<1> QED
  BY <1>1, RecordsInvariant, PTL

\* Only a divider of zero in the configuration stops the program
\* (nf_filter_data.cpp:16).
THEOREM CrashIsConfigured == Spec => []CrashOnlyByConfiguration
<1>1. RInv => CrashOnlyByConfiguration
  BY DEF RInv
<1> QED
  BY <1>1, RecordsInvariant, PTL

-----------------------------------------------------------------------------
(* The dictionary (IpfixDictionary.tla).  Two ranges have no order, so that*)
(* what is found depends on the tree: it is shown to be the one in which the*)
(* keys ascend from left to right, since no range meets another one on its *)
(* way down when it is inserted.                                           *)
(*                                                                         *)
(* First, search trees whatever is in them.                                *)

Links(c) == [0..c -> 0..c]

StrictOrder(R, c) == /\ \A n \in 1..c : <<n, n>> \notin R
                     /\ \A l, m, n \in 1..c : <<l, m>> \in R /\ <<m, n>> \in R => <<l, n>> \in R

\* A tree of the nodes 1..c, with the children a on the side of the smaller and b on
\* the side of the larger nodes, as R has them, and the parents p.  0 is the header and
\* stands for no child; under holds for each node what is at it and below.
Tree(c, R, a, b, p, under) ==
  /\ a \in Links(c) /\ b \in Links(c) /\ p \in Links(c)
  /\ under \in [0..c -> SUBSET (1..c)] /\ under[0] = {}
  /\ \A n \in 1..c : /\ under[n] = {n} \cup under[a[n]] \cup under[b[n]]
                     /\ \A m \in under[a[n]] : <<m, n>> \in R
                     /\ \A m \in under[b[n]] : <<n, m>> \in R
                     /\ n \in {a[p[n]], b[p[n]]}
  /\ \A n \in 0..c : /\ a[n] # 0 => p[a[n]] = n
                     /\ b[n] # 0 => p[b[n]] = n
  /\ under[a[0]] = 1..c /\ b[0] = 0

\* What a rotation makes of the children and parents: y takes the place of x, and x
\* becomes its child.
Turned(c, a, b, p, x, y, a2, b2, p2) ==
  /\ a2 = [n \in 0..c |-> IF n = y THEN x ELSE IF n = p[x] /\ a[n] = x THEN y ELSE a[n]]
  /\ b2 = [n \in 0..c |-> IF n = x THEN a[y] ELSE IF n = p[x] /\ b[n] = x THEN y ELSE b[n]]
  /\ p2 = [n \in 0..c |-> IF n = x THEN y ELSE IF n = y THEN p[x]
                          ELSE IF n = a[y] /\ n # 0 THEN x ELSE p[n]]

\* The nodes about a rotation are different ones.
LEMMA Neighbours ==
  ASSUME NEW c \in Nat, NEW R, StrictOrder(R, c),
         NEW a, NEW b, NEW p, NEW under, Tree(c, R, a, b, p, under),
         NEW x \in 1..c, NEW y, y = b[x], y # 0
  PROVE  /\ y \in 1..c /\ p[y] = x
         /\ p[x] \in 0..c /\ a[y] \in 0..c /\ a[x] \in 0..c /\ b[y] \in 0..c
         /\ x # y /\ a[x] # x /\ a[x] # y /\ a[y] # x /\ a[y] # y /\ b[y] # x /\ b[y] # y
         /\ p[x] # x /\ p[x] # y /\ (a[y] # 0 => p[x] # a[y])
<1> DEFINE up == p[x]
           i == a[y]
           l == a[x]
           r == b[y]
<1>0. /\ a \in [0..c -> 0..c] /\ b \in [0..c -> 0..c] /\ p \in [0..c -> 0..c]
      /\ \A n \in 1..c : n \in {n} /\ under[n] = {n} \cup under[a[n]] \cup under[b[n]]
  BY DEF Tree, Links
<1>2. /\ \A n \in 1..c : n \in 0..c /\ n # 0 /\ n \in under[n]
      /\ \A n \in 0..c : n # 0 => n \in 1..c
      /\ \A n \in 0..c : a[n] \in 0..c /\ b[n] \in 0..c /\ p[n] \in 0..c
  <2>1. ASSUME NEW n \in 1..c PROVE n \in under[n]
    <3>1. n \in {n} /\ under[n] = {n} \cup under[a[n]] \cup under[b[n]]
      BY <1>0
    <3> QED
      BY <3>1
  <2>2. \A n \in 1..c : n \in 0..c /\ n # 0
    OBVIOUS
  <2>3. \A n \in 0..c : n # 0 => n \in 1..c
    OBVIOUS
  <2> QED
    BY <1>0, <2>1, <2>2, <2>3
<1>1. /\ y \in 1..c /\ up \in 0..c /\ i \in 0..c /\ l \in 0..c /\ r \in 0..c /\ 0 \in 0..c
      /\ a \in Links(c) /\ b \in Links(c) /\ p \in Links(c)
  <2>1. x \in 0..c /\ y \in 0..c /\ 0 \in 0..c
    BY <1>2
  <2> QED
    BY <1>0, <1>2, <2>1 DEF Links
<1>3. /\ under[x] = {x} \cup under[l] \cup under[y]
      /\ under[y] = {y} \cup under[i] \cup under[r]
      /\ under[0] = {}
      /\ under \in [0..c -> SUBSET (1..c)]
  BY <1>1 DEF Tree
<1>4. /\ \A m \in under[l] : <<m, x>> \in R
      /\ \A m \in under[y] : <<x, m>> \in R
      /\ \A m \in under[i] : <<m, y>> \in R
      /\ \A m \in under[r] : <<y, m>> \in R
  BY <1>1 DEF Tree
<1>5. x # y /\ l # x /\ l # y /\ i # x /\ i # y /\ r # x /\ r # y
  BY <1>1, <1>2, <1>3, <1>4 DEF StrictOrder
<1>6. up # x /\ up # y /\ (i # 0 => up # i)
  \* The parent is on one side of all that is below x.
  <2>1. CASE up = 0
    BY <1>2, <2>1, <1>1
  <2>2. CASE up # 0
    <3>1. up \in 1..c
      BY <1>1, <1>2, <2>2
    <3>2. x = a[up] \/ x = b[up]
      BY DEF Tree
    <3>3. up \notin under[x]
      BY <3>1, <3>2 DEF Tree, StrictOrder
    <3> QED
      BY <1>1, <1>2, <1>3, <3>3
  <2> QED
    BY <2>1, <2>2
<1>7. p[y] = x
  BY <1>1, <1>2 DEF Tree
<1> QED
  BY <1>1, <1>5, <1>6, <1>7

\* A rotation keeps the order of the nodes.
LEMMA RotationKeepsTree ==
  ASSUME NEW c \in Nat, NEW R, StrictOrder(R, c),
         NEW a, NEW b, NEW p, NEW under, Tree(c, R, a, b, p, under),
         NEW x \in 1..c, NEW y, y = b[x], y # 0,
         NEW a2, NEW b2, NEW p2, Turned(c, a, b, p, x, y, a2, b2, p2)
  PROVE  \E v : Tree(c, R, a2, b2, p2, v)
<1> DEFINE up == p[x]
           i == a[y]
           l == a[x]
           r == b[y]
           v == [n \in 0..c |-> IF n = y THEN under[x]
                                ELSE IF n = x THEN {x} \cup under[l] \cup under[i] ELSE under[n]]
<1>0. /\ a \in [0..c -> 0..c] /\ b \in [0..c -> 0..c] /\ p \in [0..c -> 0..c]
      /\ \A n \in 1..c : n \in {n} /\ under[n] = {n} \cup under[a[n]] \cup under[b[n]]
  BY DEF Tree, Links
<1>2. /\ \A n \in 1..c : n \in 0..c /\ n # 0 /\ n \in under[n]
      /\ \A n \in 0..c : n # 0 => n \in 1..c
      /\ \A n \in 0..c : a[n] \in 0..c /\ b[n] \in 0..c /\ p[n] \in 0..c
  <2>1. \A n \in 1..c : n \in under[n]
    <3> TAKE n \in 1..c
    <3>1. under[n] = {n} \cup under[a[n]] \cup under[b[n]]
      BY <1>0
    <3> QED
      BY <3>1
  <2>2. \A n \in 1..c : n \in 0..c /\ n # 0
    OBVIOUS
  <2>3. \A n \in 0..c : n # 0 => n \in 1..c
    OBVIOUS
  <2> QED
    BY <1>0, <2>1, <2>2, <2>3
<1>1. /\ y \in 1..c /\ up \in 0..c /\ i \in 0..c /\ l \in 0..c /\ r \in 0..c /\ 0 \in 0..c
      /\ a \in Links(c) /\ b \in Links(c) /\ p \in Links(c)
  <2>1. x \in 0..c /\ y \in 0..c /\ 0 \in 0..c
    BY <1>2
  <2> QED
    BY <1>0, <1>2, <2>1 DEF Links
<1>3. /\ under[x] = {x} \cup under[l] \cup under[y]
      /\ under[y] = {y} \cup under[i] \cup under[r]
      /\ under[0] = {}
      /\ under \in [0..c -> SUBSET (1..c)]
  BY <1>1 DEF Tree
<1>4. /\ \A m \in under[l] : <<m, x>> \in R
      /\ \A m \in under[y] : <<x, m>> \in R
      /\ \A m \in under[i] : <<m, y>> \in R
      /\ \A m \in under[r] : <<y, m>> \in R
  BY <1>1 DEF Tree
<1>5. x # y /\ l # x /\ l # y /\ i # x /\ i # y /\ r # x /\ r # y
  BY Neighbours
<1>6. up # x /\ up # y /\ (i # 0 => up # i)
  BY Neighbours
<1>7. \A n \in 0..c : /\ a[n] # 0 => p[a[n]] = n
                      /\ b[n] # 0 => p[b[n]] = n
  BY DEF Tree
<1>8. p[y] = x /\ (i # 0 => p[i] = y)
  BY <1>1, <1>2, <1>7
<1>9. a2 \in Links(c) /\ b2 \in Links(c) /\ p2 \in Links(c)
  BY <1>1, <1>2 DEF Links, Turned
<1>10. /\ a2[x] = l /\ b2[x] = i /\ a2[y] = x /\ b2[y] = r
       /\ p2[x] = y /\ p2[y] = up /\ (i # 0 => p2[i] = x)
  BY <1>1, <1>2, <1>5, <1>6 DEF Turned
<1>11. \A n \in 0..c : n # x /\ n # y /\ n # up => a2[n] = a[n] /\ b2[n] = b[n]
  BY DEF Turned
<1>12. /\ a[up] = x => a2[up] = y
       /\ a[up] # x => a2[up] = a[up]
       /\ b[up] = x => b2[up] = y
       /\ b[up] # x => b2[up] = b[up]
  BY <1>1, <1>6 DEF Turned
<1>13. \A n \in 0..c : n # x /\ n # y /\ n # i => p2[n] = p[n]
  BY DEF Turned
<1>14. /\ v \in [0..c -> SUBSET (1..c)]
       /\ v[0] = {}
       /\ v[y] = under[x]
       /\ v[x] = {x} \cup under[l] \cup under[i]
       /\ \A n \in 0..c : n # x /\ n # y => v[n] = under[n]
  BY <1>1, <1>2, <1>3, <1>5
<1> HIDE DEF v
\* Who has neither x nor y for a child.
<1>15. \A n \in 0..c : n # x /\ n # up => /\ a[n] # x /\ b[n] # x /\ a[n] # y /\ b[n] # y
  BY <1>1, <1>2, <1>7, <1>8
<1>16. a[up] # y /\ b[up] # y
  BY <1>1, <1>2, <1>6, <1>7, <1>8
<1>17. ASSUME NEW n \in 1..c
       PROVE  /\ v[n] = {n} \cup v[a2[n]] \cup v[b2[n]]
              /\ \A m \in v[a2[n]] : <<m, n>> \in R
              /\ \A m \in v[b2[n]] : <<n, m>> \in R
  <2>0. n \in 0..c /\ n # 0
    BY <1>2
  <2>1. CASE n = x
    <3>1. v[l] = under[l] /\ v[i] = under[i]
      BY <1>1, <1>5, <1>14
    <3>2. \A m \in under[i] : m \in under[y]
      BY <1>3
    <3> QED
      BY <1>4, <1>10, <1>14, <2>1, <3>1, <3>2
  <2>2. CASE n = y
    <3>1. v[r] = under[r]
      BY <1>1, <1>5, <1>14
    <3>2. v[y] = {y} \cup v[x] \cup v[r]
      BY <1>3, <1>14, <3>1
    <3>3. <<x, y>> \in R
      BY <1>1, <1>2, <1>4
    <3>4. \A m \in v[x] : <<m, y>> \in R
      <4> TAKE m \in v[x]
      <4>1. CASE m \in under[l]
        <5>1. m \in 1..c /\ <<m, x>> \in R
          BY <1>1, <1>3, <1>4, <4>1
        <5> QED
          BY <1>1, <3>3, <5>1 DEF StrictOrder
      <4> QED
        BY <1>4, <1>14, <3>3, <4>1
    <3> QED
      BY <1>4, <1>10, <2>2, <3>1, <3>2, <3>4
  <2>3. CASE n = up
    <3>1. n # x /\ n # y /\ v[n] = under[n]
      BY <1>6, <1>14, <2>0, <2>3
    <3>2. v[a2[n]] = under[a[n]] /\ v[b2[n]] = under[b[n]]
      BY <1>2, <1>12, <1>14, <1>16, <2>0, <2>3
    <3> QED
      BY <3>1, <3>2 DEF Tree
  <2>4. CASE n # x /\ n # y /\ n # up
    <3>1. v[n] = under[n] /\ a2[n] = a[n] /\ b2[n] = b[n]
      BY <1>11, <1>14, <2>0, <2>4
    <3>2. v[a[n]] = under[a[n]] /\ v[b[n]] = under[b[n]]
      BY <1>2, <1>14, <1>15, <2>0, <2>4
    <3> QED
      BY <3>1, <3>2 DEF Tree
  <2> QED
    BY <2>1, <2>2, <2>3, <2>4
<1>18. ASSUME NEW n \in 1..c PROVE n \in {a2[p2[n]], b2[p2[n]]}
  <2>0. n \in 0..c /\ p[n] \in 0..c /\ n \in {a[p[n]], b[p[n]]}
    BY <1>2 DEF Tree
  <2>1. CASE n = x
    BY <1>10, <2>1
  <2>2. CASE n = y
    <3>1. x \in {a[up], b[up]}
      BY DEF Tree
    <3> QED
      BY <1>10, <1>12, <2>2, <3>1
  <2>3. CASE n = i
    BY <1>2, <1>10, <2>3
  <2>4. CASE n # x /\ n # y /\ n # i
    <3>1. p2[n] = p[n]
      BY <1>13, <2>0, <2>4
    <3>2. CASE p[n] = x
      \* It is the other child of x.
      BY <1>10, <2>0, <2>4, <3>1, <3>2
    <3>3. CASE p[n] = y
      BY <1>10, <2>0, <2>4, <3>1, <3>3
    <3>4. CASE p[n] = up
      BY <1>12, <2>0, <2>4, <3>1, <3>4
    <3>5. CASE p[n] # x /\ p[n] # y /\ p[n] # up
      BY <1>11, <2>0, <3>1, <3>5
    <3> QED
      BY <3>2, <3>3, <3>4, <3>5
  <2> QED
    BY <2>1, <2>2, <2>3, <2>4
<1>19. ASSUME NEW n \in 0..c
       PROVE  /\ a2[n] # 0 => p2[a2[n]] = n
              /\ b2[n] # 0 => p2[b2[n]] = n
  <2>1. CASE n = x
    <3>1. l # 0 => l # i
      BY <1>1, <1>5, <1>7, <1>8
    <3>2. l # 0 => p2[l] = x
      BY <1>1, <1>5, <1>7, <1>13, <3>1
    <3> QED
      BY <1>10, <2>1, <3>2
  <2>2. CASE n = y
    <3>1. r # 0 => r # i
      <4>1. r \in under[r] => r \notin under[i]
        BY <1>1, <1>3, <1>4 DEF StrictOrder
      <4> QED
        BY <1>1, <1>2, <4>1
    <3>2. r # 0 => p2[r] = y
      BY <1>1, <1>5, <1>7, <1>13, <3>1
    <3> QED
      BY <1>10, <2>2, <3>2
  <2>3. CASE n # x /\ n # y
    <3>1. \A k \in 0..c : k # 0 /\ k # x /\ k # y /\ (a[n] = k \/ b[n] = k) => p2[k] = n
      BY <1>7, <1>8, <1>13, <2>3
    <3>2. CASE n = up
      BY <1>2, <1>10, <1>12, <1>16, <2>3, <3>1, <3>2
    <3>3. CASE n # up
      BY <1>2, <1>11, <1>15, <2>3, <3>1, <3>3
    <3> QED
      BY <3>2, <3>3
  <2> QED
    BY <2>1, <2>2, <2>3
<1>20. v[a2[0]] = 1..c /\ b2[0] = 0
  <2>0. 0 # x /\ 0 # y /\ under[a[0]] = 1..c /\ b[0] = 0
    BY <1>1, <1>2 DEF Tree
  <2>1. CASE up = 0
    BY <1>1, <1>2, <1>12, <1>14, <1>16, <2>0, <2>1
  <2>2. CASE up # 0
    BY <1>1, <1>2, <1>11, <1>14, <1>15, <2>0, <2>2
  <2> QED
    BY <2>1, <2>2
<1>21. Tree(c, R, a2, b2, p2, v)
  <2>1. \A n \in 1..c : /\ v[n] = {n} \cup v[a2[n]] \cup v[b2[n]]
                        /\ \A m \in v[a2[n]] : <<m, n>> \in R
                        /\ \A m \in v[b2[n]] : <<n, m>> \in R
                        /\ n \in {a2[p2[n]], b2[p2[n]]}
    BY <1>17, <1>18
  <2>2. \A n \in 0..c : /\ a2[n] # 0 => p2[a2[n]] = n
                        /\ b2[n] # 0 => p2[b2[n]] = n
    BY <1>19
  <2> QED
    BY <1>9, <1>14, <1>20, <2>1, <2>2, Zenon DEF Tree
<1> QED
  BY <1>21

Less == {e \in Nat \X Nat : e[1] < e[2]}

NodeEntries(c) == [left : 0..c, right : 0..c, parent : 0..c, red : BOOLEAN]

LeftOf(t) == [n \in DOMAIN t |-> t[n].left]
RightOf(t) == [n \in DOMAIN t |-> t[n].right]
ParentOf(t) == [n \in DOMAIN t |-> t[n].parent]

\* The nodes of t in the order of their numbers.
SearchTree(t, c, under) ==
  /\ t \in [0..c -> NodeEntries(c)]
  /\ Tree(c, Less, LeftOf(t), RightOf(t), ParentOf(t), under)

\* The order of numbers is one for Tree.
LEMMA LessIsStrict ==
  ASSUME NEW c \in Nat
  PROVE  StrictOrder(Less, c) /\ \A l, m \in Nat : <<l, m>> \in Less <=> l < m
<1>1. \A l, m \in Nat : <<l, m>> \in Less <=> l < m
  BY DEF Less
<1>2. \A n \in 1..c : n \in Nat
  OBVIOUS
<1> QED
  BY <1>1, <1>2 DEF StrictOrder

\* What a search tree is, node by node.
LEMMA InSearchTree ==
  ASSUME NEW c \in Nat, NEW t, NEW under, SearchTree(t, c, under)
  PROVE  /\ DOMAIN t = 0..c /\ 0 \in 0..c
         /\ \A n \in 0..c : /\ t[n].left \in 0..c /\ t[n].right \in 0..c
                            /\ t[n].parent \in 0..c /\ t[n].red \in BOOLEAN
         /\ \A n \in 0..c : /\ t[n].left # 0 => t[t[n].left].parent = n
                            /\ t[n].right # 0 => t[t[n].right].parent = n
                            /\ t[n].left # 0 => t[n].left # t[n].right
         /\ \A n \in 1..c : t[t[n].parent].left = n \/ t[t[n].parent].right = n
         /\ t[0].right = 0
         /\ under \in [0..c -> SUBSET (1..c)] /\ under[0] = {} /\ under[t[0].left] = 1..c
         /\ \A n \in 1..c : /\ under[n] = {n} \cup under[t[n].left] \cup under[t[n].right]
                            /\ \A m \in under[t[n].left] : m < n
                            /\ \A m \in under[t[n].right] : n < m
<1>1. /\ t \in [0..c -> NodeEntries(c)] /\ DOMAIN t = 0..c /\ 0 \in 0..c
      /\ \A n \in 1..c : n \in 0..c
  BY DEF SearchTree
<1>2. \A n \in 0..c : /\ t[n].left \in 0..c /\ t[n].right \in 0..c
                      /\ t[n].parent \in 0..c /\ t[n].red \in BOOLEAN
  BY <1>1 DEF NodeEntries
<1>3. \A n \in 0..c : /\ LeftOf(t)[n] = t[n].left /\ RightOf(t)[n] = t[n].right
                      /\ ParentOf(t)[n] = t[n].parent
  BY <1>1 DEF LeftOf, RightOf, ParentOf
<1>4. Tree(c, Less, LeftOf(t), RightOf(t), ParentOf(t), under)
  BY DEF SearchTree
<1>5. \A n \in 0..c : /\ t[n].left # 0 => t[t[n].left].parent = n
                      /\ t[n].right # 0 => t[t[n].right].parent = n
  BY <1>2, <1>3, <1>4 DEF Tree
<1>6. \A n \in 1..c : t[t[n].parent].left = n \/ t[t[n].parent].right = n
  BY <1>1, <1>2, <1>3, <1>4 DEF Tree
<1>7. t[0].right = 0 /\ under[0] = {} /\ under[t[0].left] = 1..c
      /\ under \in [0..c -> SUBSET (1..c)]
  BY <1>1, <1>3, <1>4 DEF Tree
<1>8. \A n \in 1..c : under[n] = {n} \cup under[t[n].left] \cup under[t[n].right]
  BY <1>1, <1>3, <1>4 DEF Tree
<1>9. ASSUME NEW n \in 1..c
      PROVE  /\ \A m \in under[t[n].left] : m < n
             /\ \A m \in under[t[n].right] : n < m
  <2>1. /\ \A m \in under[t[n].left] : <<m, n>> \in Less
        /\ \A m \in under[t[n].right] : <<n, m>> \in Less
    BY <1>1, <1>3, <1>4 DEF Tree
  <2>2. \A m \in under[t[n].left] \cup under[t[n].right] : m \in 1..c
    BY <1>1, <1>2, <1>7
  <2>3. \A m \in 1..c : m \in Nat
    OBVIOUS
  <2> QED
    BY <2>1, <2>2, <2>3, LessIsStrict
<1>10. ASSUME NEW n \in 0..c, t[n].left # 0 PROVE t[n].left # t[n].right
  <2>1. t[n].left \in 1..c
    BY <1>2, <1>10
  <2>2. t[n].left \in under[t[n].left]
    BY <1>8, <2>1
  <2>3. CASE n = 0
    BY <1>7, <1>10, <2>3
  <2>4. CASE n # 0
    <3>1. n \in 1..c
      BY <2>4
    <3>2. t[n].left < n
      BY <1>9, <2>2, <3>1
    <3>3. t[n].left \in under[t[n].right] => n < t[n].left
      BY <1>9, <3>1
    <3> QED
      BY <2>1, <2>2, <3>1, <3>2, <3>3
  <2> QED
    BY <2>3, <2>4
<1> QED
  BY <1>1, <1>2, <1>5, <1>6, <1>7, <1>8, <1>9, <1>10

\* The other direction: what has these links is a search tree.
LEMMA IsSearchTree ==
  ASSUME NEW c \in Nat, NEW t, NEW under, t \in [0..c -> NodeEntries(c)],
         \A n \in 0..c : /\ t[n].left # 0 => t[t[n].left].parent = n
                         /\ t[n].right # 0 => t[t[n].right].parent = n,
         \A n \in 1..c : t[t[n].parent].left = n \/ t[t[n].parent].right = n,
         t[0].right = 0,
         under \in [0..c -> SUBSET (1..c)], under[0] = {}, under[t[0].left] = 1..c,
         \A n \in 1..c : /\ under[n] = {n} \cup under[t[n].left] \cup under[t[n].right]
                         /\ \A m \in under[t[n].left] : m < n
                         /\ \A m \in under[t[n].right] : n < m
  PROVE  SearchTree(t, c, under)
<1>1. /\ DOMAIN t = 0..c /\ 0 \in 0..c
      /\ \A n \in 1..c : n \in 0..c
  OBVIOUS
<1>2. \A n \in 0..c : /\ t[n].left \in 0..c /\ t[n].right \in 0..c
                      /\ t[n].parent \in 0..c
  BY DEF NodeEntries
<1>3. \A n \in 0..c : /\ LeftOf(t)[n] = t[n].left /\ RightOf(t)[n] = t[n].right
                      /\ ParentOf(t)[n] = t[n].parent
  BY <1>1 DEF LeftOf, RightOf, ParentOf
<1>4. LeftOf(t) \in Links(c) /\ RightOf(t) \in Links(c) /\ ParentOf(t) \in Links(c)
  BY <1>1, <1>2 DEF LeftOf, RightOf, ParentOf, Links
<1>5. \A n \in 1..c : /\ \A m \in under[t[n].left] : <<m, n>> \in Less
                      /\ \A m \in under[t[n].right] : <<n, m>> \in Less
  <2>1. \A n \in 1..c : \A m \in under[t[n].left] \cup under[t[n].right] : m \in 1..c
    BY <1>1, <1>2
  <2>2. \A m \in 1..c : m \in Nat
    OBVIOUS
  <2> QED
    BY <2>1, <2>2, LessIsStrict
<1>6. \A n \in 1..c : /\ under[n] = {n} \cup under[LeftOf(t)[n]] \cup under[RightOf(t)[n]]
                      /\ \A m \in under[LeftOf(t)[n]] : <<m, n>> \in Less
                      /\ \A m \in under[RightOf(t)[n]] : <<n, m>> \in Less
                      /\ n \in {LeftOf(t)[ParentOf(t)[n]], RightOf(t)[ParentOf(t)[n]]}
  <2> TAKE n \in 1..c
  <2>1. n \in 0..c /\ t[n].parent \in 0..c
    BY <1>1, <1>2
  <2>2. LeftOf(t)[n] = t[n].left /\ RightOf(t)[n] = t[n].right /\ ParentOf(t)[n] = t[n].parent
    BY <1>3, <2>1
  <2>3. /\ LeftOf(t)[t[n].parent] = t[t[n].parent].left
        /\ RightOf(t)[t[n].parent] = t[t[n].parent].right
    BY <1>3, <2>1
  <2> QED
    BY <1>5, <2>2, <2>3
<1>7. \A n \in 0..c : /\ LeftOf(t)[n] # 0 => ParentOf(t)[LeftOf(t)[n]] = n
                      /\ RightOf(t)[n] # 0 => ParentOf(t)[RightOf(t)[n]] = n
  <2> TAKE n \in 0..c
  <2>1. /\ LeftOf(t)[n] = t[n].left /\ RightOf(t)[n] = t[n].right
        /\ ParentOf(t)[t[n].left] = t[t[n].left].parent
        /\ ParentOf(t)[t[n].right] = t[t[n].right].parent
    BY <1>2, <1>3
  <2> QED
    BY <2>1
<1>8. under[LeftOf(t)[0]] = 1..c /\ RightOf(t)[0] = 0
  BY <1>1, <1>3
<1> QED
  BY <1>4, <1>6, <1>7, <1>8, Zenon DEF SearchTree, Tree

\* The tree with the leaf that Grown hangs under the last node.
WithLeaf(t, c) ==
  [n \in 0..(c + 1) |->
     CASE n = c + 1 -> Leaf(c, TRUE)
       [] n = c -> [t[n] EXCEPT ![IF c = 0 THEN "left" ELSE "right"] = c + 1]
       [] OTHER -> t[n]]

LeafAt(t, leaf, c) ==
  /\ leaf[c + 1].left = 0 /\ leaf[c + 1].right = 0 /\ leaf[c + 1].parent = c
  /\ leaf[c + 1].red = TRUE
  /\ leaf[c].left = IF c = 0 THEN 1 ELSE t[c].left
  /\ leaf[c].right = IF c = 0 THEN 0 ELSE c + 1
  /\ leaf[c].parent = t[c].parent /\ leaf[c].red = t[c].red
  /\ \A n \in 0..c : n # c => leaf[n] = t[n]

\* A leaf behind the last node keeps the order of the nodes.
LEMMA LeafKeepsTree ==
  ASSUME NEW c \in Nat, NEW t, NEW under, SearchTree(t, c, under),
         IF c = 0 THEN t[0].left = 0 ELSE t[c].right = 0,
         NEW leaf, leaf = WithLeaf(t, c)
  PROVE  LeafAt(t, leaf, c) /\ \E v : SearchTree(leaf, c + 1, v)
<1> DEFINE v == [n \in 0..(c + 1) |-> IF n = c + 1 THEN {c + 1}
                                      ELSE IF c \in under[n]
                                      THEN under[n] \cup {c + 1} ELSE under[n]]
<1> HIDE DEF v
<1>1. /\ DOMAIN t = 0..c /\ 0 \in 0..c
      /\ \A n \in 0..c : /\ t[n].left \in 0..c /\ t[n].right \in 0..c
                         /\ t[n].parent \in 0..c /\ t[n].red \in BOOLEAN
      /\ \A n \in 0..c : /\ t[n].left # 0 => t[t[n].left].parent = n
                         /\ t[n].right # 0 => t[t[n].right].parent = n
      /\ \A n \in 1..c : t[t[n].parent].left = n \/ t[t[n].parent].right = n
      /\ t[0].right = 0
  BY InSearchTree
<1>2. /\ under \in [0..c -> SUBSET (1..c)] /\ under[0] = {} /\ under[t[0].left] = 1..c
      /\ \A n \in 1..c : /\ under[n] = {n} \cup under[t[n].left] \cup under[t[n].right]
                         /\ \A m \in under[t[n].left] : m < n
                         /\ \A m \in under[t[n].right] : n < m
  BY InSearchTree
<1>3. /\ leaf[c + 1].left = 0 /\ leaf[c + 1].right = 0 /\ leaf[c + 1].parent = c
      /\ leaf[c + 1].red = TRUE
  BY DEF Leaf, WithLeaf
<1>4. \A n \in 0..c : n # c => leaf[n] = t[n]
  <2> TAKE n \in 0..c
  <2>1. n \in 0..(c + 1) /\ n # c + 1
    OBVIOUS
  <2> QED
    BY <2>1 DEF WithLeaf
<1>5. t[c] \in NodeEntries(c)
  BY DEF SearchTree
<1>6. /\ leaf[c].left = IF c = 0 THEN 1 ELSE t[c].left
      /\ leaf[c].right = IF c = 0 THEN 0 ELSE c + 1
      /\ leaf[c].parent = t[c].parent /\ leaf[c].red = t[c].red
  BY <1>1, <1>5 DEF NodeEntries, WithLeaf
<1>7. leaf \in [0..(c + 1) -> NodeEntries(c + 1)]
  <2>1. \A n \in 0..c : t[n] \in NodeEntries(c)
    BY DEF SearchTree
  <2>2. Leaf(c, TRUE) \in NodeEntries(c + 1)
    BY DEF Leaf, NodeEntries
  <2>3. \A n \in 0..c : t[n] \in NodeEntries(c + 1)
    BY <2>1 DEF NodeEntries
  <2>4. [t[c] EXCEPT ![IF c = 0 THEN "left" ELSE "right"] = c + 1] \in NodeEntries(c + 1)
    BY <2>3 DEF NodeEntries
  <2> QED
    <3>1. leaf[c + 1] = Leaf(c, TRUE)
      <4>1. c + 1 \in 0..(c + 1) /\ c + 1 # c
        OBVIOUS
      <4> QED
        BY <4>1, Zenon DEF WithLeaf
    <3>2. leaf[c] = [t[c] EXCEPT ![IF c = 0 THEN "left" ELSE "right"] = c + 1]
      <4>1. c \in 0..(c + 1) /\ c # c + 1
        OBVIOUS
      <4> QED
        BY <4>1, Zenon DEF WithLeaf
    <3>3. \A n \in 0..(c + 1) : n = c + 1 \/ n = c \/ (n \in 0..c /\ n # c)
      OBVIOUS
    <3>4. \A n \in 0..(c + 1) : leaf[n] \in NodeEntries(c + 1)
      BY <1>4, <2>2, <2>3, <2>4, <3>1, <3>2, <3>3
    <3>5. leaf = [n \in 0..(c + 1) |-> leaf[n]]
      BY DEF WithLeaf
    <3> QED
      BY <3>4, <3>5
<1>8. \A n \in 0..(c + 1) : n = c + 1 \/ n \in 0..c
  OBVIOUS
<1>9. ASSUME NEW n \in 0..(c + 1)
      PROVE  /\ leaf[n].left # 0 => leaf[leaf[n].left].parent = n
             /\ leaf[n].right # 0 => leaf[leaf[n].right].parent = n
  <2>1. \A m \in 0..c : leaf[m].parent = t[m].parent
    BY <1>4, <1>6
  <2>2. CASE n = c + 1
    BY <1>3, <2>2
  <2>3. CASE n = c
    BY <1>1, <1>3, <1>6, <2>1, <2>3
  <2>4. CASE n \in 0..c /\ n # c
    BY <1>1, <1>4, <2>1, <2>4
  <2> QED
    BY <1>8, <2>2, <2>3, <2>4
<1>10. ASSUME NEW n \in 1..(c + 1)
       PROVE  leaf[leaf[n].parent].left = n \/ leaf[leaf[n].parent].right = n
  <2>1. CASE n = c + 1
    BY <1>3, <1>6, <2>1
  <2>2. CASE n \in 1..c
    <3>1. leaf[n].parent = t[n].parent /\ t[n].parent \in 0..c
      BY <1>1, <1>4, <1>6, <2>2
    <3>2. CASE t[n].parent = c
      \* The last node had no right child.
      BY <1>1, <1>6, <2>2, <3>1, <3>2
    <3>3. CASE t[n].parent # c
      BY <1>1, <1>4, <2>2, <3>1, <3>3
    <3> QED
      BY <3>2, <3>3
  <2> QED
    BY <2>1, <2>2
<1>11. leaf[0].right = 0
  BY <1>1, <1>4, <1>6
<1>12. v \in [0..(c + 1) -> SUBSET (1..(c + 1))] /\ v[0] = {} /\ v[c + 1] = {c + 1}
       /\ \A n \in 0..c : v[n] = IF c \in under[n] THEN under[n] \cup {c + 1} ELSE under[n]
  <2>1. \A n \in 0..c : under[n] \in SUBSET (1..(c + 1))
    BY <1>2
  <2>2. c \notin under[0] /\ 0 # c + 1
    BY <1>2
  <2>3. {c + 1} \in SUBSET (1..(c + 1))
    OBVIOUS
  <2> QED
    BY <1>2, <2>1, <2>2, <2>3 DEF v
<1>13. v[leaf[0].left] = 1..(c + 1)
  <2>1. CASE c = 0
    BY <1>6, <1>12, <2>1
  <2>2. CASE c # 0
    <3>1. c \in 1..c
      BY <2>2
    <3>2. leaf[0].left = t[0].left
      BY <1>4, <2>2
    <3>3. v[t[0].left] = 1..c \cup {c + 1}
      BY <1>1, <1>2, <1>12, <3>1
    <3> QED
      BY <3>2, <3>3
  <2> QED
    BY <2>1, <2>2
<1>14. ASSUME NEW n \in 1..(c + 1)
       PROVE  /\ v[n] = {n} \cup v[leaf[n].left] \cup v[leaf[n].right]
              /\ \A m \in v[leaf[n].left] : m < n
              /\ \A m \in v[leaf[n].right] : n < m
  <2>1. CASE n = c + 1
    BY <1>3, <1>12, <2>1
  <2>2. CASE n \in 1..c /\ n = c
    <3>1. leaf[n].left = t[n].left /\ leaf[n].right = c + 1 /\ t[n].right = 0
      BY <1>6, <2>2
    <3>2. c \in under[n] /\ c \notin under[t[n].left]
      BY <1>1, <1>2, <2>2
    <3>3. v[n] = under[n] \cup {c + 1} /\ v[t[n].left] = under[t[n].left]
      <4>1. n \in 0..c /\ t[n].left \in 0..c
        BY <1>1, <2>2
      <4> QED
        BY <1>12, <2>2, <3>2, <4>1
    <3>4. v[leaf[n].right] = {c + 1}
      BY <1>12, <3>1
    <3>5. under[n] = {n} \cup under[t[n].left]
      BY <1>2, <2>2, <3>1
    <3> QED
      BY <1>2, <2>2, <3>1, <3>3, <3>4, <3>5
  <2>3. CASE n \in 1..c /\ n # c
    <3>1. leaf[n] = t[n] /\ t[n].left \in 0..c /\ t[n].right \in 0..c
      BY <1>1, <1>4, <2>3
    <3>2. c \notin under[t[n].left]
      BY <1>2, <2>3
    <3>3. v[t[n].left] = under[t[n].left]
      BY <1>12, <3>1, <3>2
    <3>4. c \in under[n] <=> c \in under[t[n].right]
      BY <1>2, <2>3, <3>2
    <3>5. v[t[n].right] = IF c \in under[n] THEN under[t[n].right] \cup {c + 1}
                          ELSE under[t[n].right]
      BY <1>12, <3>1, <3>4
    <3>6. \A m \in v[t[n].right] : n < m
      <4>1. \A m \in under[t[n].right] : n < m
        BY <1>2, <2>3
      <4>2. n < c + 1
        BY <2>3
      <4> QED
        BY <3>5, <4>1, <4>2
    <3>7. v[n] = IF c \in under[n] THEN under[n] \cup {c + 1} ELSE under[n]
      <4>1. n \in 0..c
        BY <2>3
      <4> QED
        BY <1>12, <4>1
    <3>8. under[n] = {n} \cup under[t[n].left] \cup under[t[n].right]
          /\ \A m \in under[t[n].left] : m < n
      BY <1>2, <2>3
    <3>9. v[n] = {n} \cup v[t[n].left] \cup v[t[n].right]
      BY <3>3, <3>5, <3>7, <3>8
    <3> QED
      BY <3>1, <3>3, <3>6, <3>8, <3>9
  <2> QED
    BY <2>1, <2>2, <2>3
<1>15. SearchTree(leaf, c + 1, v)
  <2>1. c + 1 \in Nat
    OBVIOUS
  <2> QED
    BY <1>7, <1>9, <1>10, <1>11, <1>12, <1>13, <1>14, <2>1, IsSearchTree
<1> QED
  BY <1>3, <1>4, <1>6, <1>15 DEF LeafAt

-----------------------------------------------------------------------------
(* Ways down from the root (Way), and the turns on them (LastTurn, Find).  *)

\* A number for each node that gets smaller on the way down.
LEMMA Ranks ==
  ASSUME NEW c \in Nat, NEW t, NEW under, SearchTree(t, c, under)
  PROVE  \E r \in [0..c -> 0..c] :
           \A n \in 1..c : r[t[n].left] < r[n] /\ r[t[n].right] < r[n]
<1> DEFINE r == [n \in 0..c |-> Cardinality(under[n])]
<1>1. /\ under \in [0..c -> SUBSET (1..c)]
      /\ \A n \in 0..c : t[n].left \in 0..c /\ t[n].right \in 0..c
      /\ \A n \in 1..c : /\ under[n] = {n} \cup under[t[n].left] \cup under[t[n].right]
                         /\ \A m \in under[t[n].left] : m < n
                         /\ \A m \in under[t[n].right] : n < m
  BY InSearchTree
<1>2. IsFiniteSet(1..c) /\ Cardinality(1..c) = c
  BY FS_Interval
<1>3. ASSUME NEW n \in 0..c
      PROVE  IsFiniteSet(under[n]) /\ Cardinality(under[n]) \in 0..c
  <2>1. under[n] \in SUBSET (1..c)
    BY <1>1
  <2> QED
    BY <1>2, <2>1, FS_Subset, FS_CardinalityType
<1>4. r \in [0..c -> 0..c]
  BY <1>3
<1>5. ASSUME NEW n \in 1..c, NEW m \in 0..c, m = t[n].left \/ m = t[n].right
      PROVE  r[m] < r[n]
  <2>1. under[m] \in SUBSET under[n] /\ n \in under[n] /\ n \notin under[m] /\ n \in 0..c
    BY <1>1, <1>5
  <2>2. IsFiniteSet(under[n])
    BY <1>3, <2>1
  <2>3. Cardinality(under[m]) <= Cardinality(under[n])
        /\ (Cardinality(under[m]) = Cardinality(under[n]) => under[m] = under[n])
    BY <2>1, <2>2, FS_Subset
  <2>4. Cardinality(under[m]) \in 0..c /\ Cardinality(under[n]) \in 0..c
    BY <1>3, <2>1
  <2> QED
    BY <2>1, <2>3, <2>4
<1> HIDE DEF r
<1>6. \A n \in 1..c : r[t[n].left] < r[n] /\ r[t[n].right] < r[n]
  <2> TAKE n \in 1..c
  <2>1. t[n].left \in 0..c /\ t[n].right \in 0..c
    <3>1. n \in 0..c
      OBVIOUS
    <3> QED
      BY <1>1, <3>1
  <2> QED
    BY <1>5, <2>1
<1> QED
  BY <1>4, <1>6

\* The ways down from all nodes, if next is the node to go on with.
Ways(f, c, next) == f = [n \in 0..c |-> IF n = 0 THEN <<>> ELSE <<n>> \o f[next[n]]]

\* The ways down from all nodes exist: each is longer than those below.
LEMMA WaysExist ==
  ASSUME NEW c \in Nat, NEW r \in [0..c -> 0..c], NEW next \in [1..c -> 0..c],
         \A n \in 1..c : r[next[n]] < r[n]
  PROVE  \E f : Ways(f, c, next)
<1> DEFINE Far(g, k) == \A n \in 0..c :
                          r[n] < k => g[n] = IF n = 0 THEN <<>> ELSE <<n>> \o g[next[n]]
           S == {k \in Nat : \E g : Far(g, k) /\ g = [n \in 0..c |-> g[n]]}
<1>1. 0 \in S
  <2> DEFINE g == [n \in 0..c |-> <<>>]
  <2>1. g = [n \in 0..c |-> g[n]]
    OBVIOUS
  <2>2. \A n \in 0..c : r[n] \in Nat
    OBVIOUS
  <2>3. Far(g, 0)
    BY <2>2
  <2> HIDE DEF g, Far
  <2> QED
    BY <2>1, <2>3
<1>2. ASSUME NEW k \in Nat, k \in S PROVE k + 1 \in S
  <2>1. PICK g : Far(g, k) /\ g = [n \in 0..c |-> g[n]]
    BY <1>2
  <2> DEFINE h == [n \in 0..c |-> IF r[n] < k THEN g[n]
                                  ELSE IF n = 0 THEN <<>> ELSE <<n>> \o g[next[n]]]
  <2>3. h = [n \in 0..c |-> h[n]]
    OBVIOUS
  <2>4. \A n \in 0..c : h[n] = IF r[n] < k THEN g[n]
                               ELSE IF n = 0 THEN <<>> ELSE <<n>> \o g[next[n]]
    OBVIOUS
  <2> HIDE DEF h
  <2>2. ASSUME NEW n \in 0..c, r[n] < k + 1
        PROVE  h[n] = IF n = 0 THEN <<>> ELSE <<n>> \o h[next[n]]
    <3>1. h[n] = IF n = 0 THEN <<>> ELSE <<n>> \o g[next[n]]
      BY <2>1, <2>4
    <3>2. CASE n = 0
      BY <3>1, <3>2
    <3>3. CASE n # 0
      <4>0. n \in 1..c
        BY <3>3
      <4>1. n \in 1..c /\ next[n] \in 0..c
        BY <4>0
      <4>2. r[next[n]] < r[n] /\ r[n] \in Nat /\ r[next[n]] \in Nat
        BY <4>1
      <4>3. r[next[n]] < k
        <5>1. \A x, y \in Nat : x < y /\ y < k + 1 => x < k
          OBVIOUS
        <5> QED
          BY <2>2, <4>2, <5>1
      <4>4. h[next[n]] = g[next[n]]
        BY <2>4, <4>1, <4>3
      <4> QED
        BY <3>1, <3>3, <4>4
    <3> QED
      BY <3>2, <3>3
  <2>5. Far(h, k + 1)
    BY <2>2
  <2> HIDE DEF Far
  <2> QED
    BY <2>3, <2>5
<1>3. c + 1 \in S
  <2>1. \A k \in Nat : k \in S
    <3> HIDE DEF S
    <3> QED
      BY <1>1, <1>2, Induction
  <2> QED
    BY <2>1
<1>4. PICK g : Far(g, c + 1) /\ g = [n \in 0..c |-> g[n]]
  BY <1>3
<1>5. \A n \in 0..c : g[n] = IF n = 0 THEN <<>> ELSE <<n>> \o g[next[n]]
  <2>1. \A n \in 0..c : r[n] < c + 1
    OBVIOUS
  <2> QED
    BY <1>4, <2>1
<1>6. g = [n \in 0..c |-> IF n = 0 THEN <<>> ELSE <<n>> \o g[next[n]]]
  BY <1>4, <1>5
<1> QED
  BY <1>6 DEF Ways

\* What Way goes down.
LEMMA WayDown ==
  ASSUME NEW c \in Nat, NEW under, SearchTree(dict, c, under), NEW goesLeft
  PROVE  \E f : /\ Way(goesLeft) = f[dict[0].left]
                /\ f \in [0..c -> Seq(1..c)] /\ f[0] = <<>>
                /\ \A n \in 1..c :
                     f[n] = <<n>> \o f[IF goesLeft[n] THEN dict[n].left ELSE dict[n].right]
<1> DEFINE next == [n \in 1..c |-> IF goesLeft[n] THEN dict[n].left ELSE dict[n].right]
           from == CHOOSE f : Ways(f, c, next)
           Is(f) == f = [n \in DOMAIN dict |->
                           IF n = 0 THEN <<>>
                           ELSE <<n>> \o f[IF goesLeft[n] THEN dict[n].left ELSE dict[n].right]]
<1>1. /\ DOMAIN dict = 0..c /\ 0 \in 0..c
      /\ \A n \in 0..c : dict[n].left \in 0..c /\ dict[n].right \in 0..c
  BY InSearchTree
<1>2. PICK r \in [0..c -> 0..c] :
        \A n \in 1..c : r[dict[n].left] < r[n] /\ r[dict[n].right] < r[n]
  BY Ranks
<1>3. next \in [1..c -> 0..c]
  <2>1. \A n \in 1..c : n \in 0..c
    OBVIOUS
  <2> QED
    BY <1>1, <2>1
<1>4. \A n \in 1..c : r[next[n]] < r[n]
  BY <1>2
<1>5. \A n \in 1..c : next[n] = IF goesLeft[n] THEN dict[n].left ELSE dict[n].right
  OBVIOUS
<1>6. ASSUME NEW f PROVE Is(f) <=> Ways(f, c, next)
  <2>1. \A n \in 0..c : (IF n = 0 THEN <<>> ELSE <<n>> \o f[next[n]])
                        = IF n = 0 THEN <<>>
                          ELSE <<n>> \o f[IF goesLeft[n] THEN dict[n].left ELSE dict[n].right]
    <3> TAKE n \in 0..c
    <3>1. CASE n = 0
      BY <3>1
    <3>2. CASE n # 0
      <4>1. n \in 1..c
        BY <3>2
      <4>2. next[n] = IF goesLeft[n] THEN dict[n].left ELSE dict[n].right
        BY <1>5, <4>1
      <4>3. f[next[n]] = f[IF goesLeft[n] THEN dict[n].left ELSE dict[n].right]
        BY <4>2
      <4> QED
        BY <4>3
    <3> QED
      BY <3>1, <3>2
  <2> HIDE DEF next
  <2>2. [n \in 0..c |-> IF n = 0 THEN <<>> ELSE <<n>> \o f[next[n]]]
        = [n \in 0..c |->
             IF n = 0 THEN <<>>
             ELSE <<n>> \o f[IF goesLeft[n] THEN dict[n].left ELSE dict[n].right]]
    BY <2>1, Zenon
  <2> QED
    BY <1>1, <2>2 DEF Ways
<1> HIDE DEF next, Is
<1>7. Ways(from, c, next)
  BY <1>2, <1>3, <1>4, WaysExist
<1>8. (CHOOSE f : Is(f)) = from
  BY <1>6
<1>9. Way(goesLeft) = from[dict[0].left]
  BY <1>8 DEF Way, Is
<1> HIDE DEF from
<1>10. /\ from = [n \in 0..c |-> from[n]] /\ from[0] = <<>>
       /\ \A n \in 1..c : from[n] = <<n>> \o from[next[n]]
  <2>1. \A n \in 1..c : n \in 0..c /\ n # 0
    OBVIOUS
  <2>2. from = [n \in 0..c |-> IF n = 0 THEN <<>> ELSE <<n>> \o from[next[n]]]
    BY <1>7 DEF Ways
  <2>3. \A n \in 0..c : from[n] = IF n = 0 THEN <<>> ELSE <<n>> \o from[next[n]]
    BY <2>2
  <2> QED
    BY <1>1, <2>1, <2>2, <2>3
<1>11. \A n \in 0..c : from[n] \in Seq(1..c)
  <2> DEFINE S == {k \in Nat : \A n \in 0..c : r[n] < k => from[n] \in Seq(1..c)}
  <2>1. 0 \in S
    OBVIOUS
  <2>2. ASSUME NEW k \in Nat, k \in S PROVE k + 1 \in S
    <3>1. ASSUME NEW n \in 0..c, r[n] < k + 1 PROVE from[n] \in Seq(1..c)
      <4>1. CASE n = 0
        BY <1>10, <4>1
      <4>2. CASE n # 0
        <5>1. n \in 1..c
          BY <4>2
        <5>2. next[n] \in 0..c /\ r[next[n]] < r[n]
          BY <1>3, <1>4, <5>1
        <5>3. from[next[n]] \in Seq(1..c)
          <6>1. r[next[n]] < k
            <7>1. r[n] \in Nat /\ r[next[n]] \in Nat
              BY <5>2
            <7>2. \A x, y \in Nat : x < y /\ y < k + 1 => x < k
              OBVIOUS
            <7> QED
              BY <3>1, <5>2, <7>1, <7>2
          <6> QED
            BY <2>2, <5>2, <6>1
        <5> QED
          <6>1. <<n>> \in Seq(1..c)
            BY <5>1
          <6>2. from[n] = <<n>> \o from[next[n]]
            BY <1>10, <5>1
          <6> QED
            BY <5>3, <6>1, <6>2
      <4> QED
        BY <4>1, <4>2
    <3> QED
      BY <3>1
  <2>3. \A k \in Nat : k \in S
    <3> HIDE DEF S
    <3> QED
      BY <2>1, <2>2, Induction
  <2>4. c + 1 \in S /\ \A n \in 0..c : r[n] < c + 1
    BY <2>3
  <2> QED
    BY <2>4
<1>12. \A n \in 1..c :
         from[n] = <<n>> \o from[IF goesLeft[n] THEN dict[n].left ELSE dict[n].right]
  BY <1>5, <1>10
<1>13. from \in [0..c -> Seq(1..c)]
  BY <1>10, <1>11
<1> QED
  BY <1>9, <1>10, <1>12, <1>13

-----------------------------------------------------------------------------
\* A set of numbers up to n has a greatest one.
LEMMA GreatestOf ==
  ASSUME NEW n \in Nat, NEW I \in SUBSET (1..n), I # {}
  PROVE  Max(I) \in I /\ \A i \in I : i <= Max(I)
<1> DEFINE T == {n - i : i \in I}
<1>1. T \in SUBSET Nat /\ T # {}
  <2>1. \A i \in I : n - i \in Nat
    OBVIOUS
  <2> QED
    BY <2>1
<1>2. PICK x \in T : \A y \in T : x <= y
  BY <1>1, LeastNumber
<1>3. PICK m \in I : x = n - m
  OBVIOUS
<1>4. \A i \in I : m >= i
  <2> TAKE i \in I
  <2>1. n - i \in T /\ i \in Int /\ m \in Int
    OBVIOUS
  <2> QED
    BY <1>2, <1>3, <2>1
<1>5. \E k \in I : \A i \in I : k >= i
  BY <1>4
<1>6. Max(I) \in I /\ \A i \in I : Max(I) >= i
  BY <1>5 DEF Max
<1>7. Max(I) \in Int /\ \A i \in I : i \in Int
  <2>1. \A i \in I : i \in Int
    OBVIOUS
  <2> QED
    BY <1>6, <2>1
<1> QED
  BY <1>6, <1>7

\* The last turn of a way, in terms of the places at which it is taken.
TurnsAt(w, goesLeft, is) == {i \in 1..Len(w) : goesLeft[w[i]] = is}

\* LastTurn has the node at the greatest place of a turn.
LEMMA LastTurnIs ==
  ASSUME NEW S, NEW w \in Seq(S), NEW goesLeft, NEW is, NEW I, I = TurnsAt(w, goesLeft, is)
  PROVE  /\ I = {} => LastTurn(w, goesLeft, is) = 0
         /\ I # {} => /\ Max(I) \in I /\ \A i \in I : i <= Max(I)
                      /\ LastTurn(w, goesLeft, is) = w[Max(I)]
<1>1. LastTurn(w, goesLeft, is)
      = LET i == IF I # {} THEN Max(I) ELSE 0 IN IF i = 0 THEN 0 ELSE w[i]
  BY DEF LastTurn, SelectLastInSeq, TurnsAt
<1>2. I # {} => Max(I) \in I /\ \A i \in I : i <= Max(I)
  <2>1. I \in SUBSET (1..Len(w)) /\ Len(w) \in Nat
    BY DEF TurnsAt
  <2> QED
    BY <2>1, GreatestOf
<1>3. I # {} => Max(I) # 0
  <2>1. \A i \in I : i # 0
    BY DEF TurnsAt
  <2> QED
    BY <1>2, <2>1
<1>4. /\ I = {} => LastTurn(w, goesLeft, is) = 0
      /\ I # {} => LastTurn(w, goesLeft, is) = w[Max(I)]
  BY <1>1, <1>3
<1> QED
  BY <1>2, <1>4

\* An empty way has no turn.
LEMMA NoTurn == ASSUME NEW goesLeft, NEW is PROVE LastTurn(<<>>, goesLeft, is) = 0
<1>1. <<>> \in Seq({}) /\ TurnsAt(<<>>, goesLeft, is) = {}
  BY DEF TurnsAt
<1> QED
  BY <1>1, LastTurnIs

\* The last turn of a longer way is that of its rest, if there is one.
LEMMA TurnBehind ==
  ASSUME NEW c \in Nat, NEW n \in 1..c, NEW w \in Seq(1..c), NEW goesLeft, NEW is
  PROVE  LastTurn(<<n>> \o w, goesLeft, is)
         = IF LastTurn(w, goesLeft, is) # 0 THEN LastTurn(w, goesLeft, is)
           ELSE IF TurnsAt(<<n>>, goesLeft, is) # {} THEN n ELSE 0
<1> DEFINE S == 1..c
           v == <<n>> \o w
           I(s) == TurnsAt(s, goesLeft, is)
<1>0. 0 \notin S /\ n \in S /\ w \in Seq(S)
  OBVIOUS
<1> HIDE DEF S
<1>1. /\ v \in Seq(S) /\ Len(v) = Len(w) + 1 /\ v[1] = n /\ Len(w) \in Nat
      /\ \A i \in 1..Len(w) : v[i + 1] = w[i] /\ w[i] \in S
  BY <1>0
<1>2. ASSUME NEW s \in Seq(S)
      PROVE  /\ I(s) = {} => LastTurn(s, goesLeft, is) = 0
             /\ I(s) # {} => /\ Max(I(s)) \in I(s) /\ \A i \in I(s) : i <= Max(I(s))
                             /\ LastTurn(s, goesLeft, is) = s[Max(I(s))]
  BY LastTurnIs
<1> HIDE DEF v
<1>3. \A s, i : i \in I(s) <=> i \in 1..Len(s) /\ goesLeft[s[i]] = is
  BY DEF TurnsAt
<1> HIDE DEF I
<1> SUFFICES LastTurn(v, goesLeft, is)
             = IF LastTurn(w, goesLeft, is) # 0 THEN LastTurn(w, goesLeft, is)
               ELSE IF TurnsAt(<<n>>, goesLeft, is) # {} THEN n ELSE 0
  BY DEF v
<1>4. \A i \in 1..Len(v) : i = 1 \/ (i - 1 \in 1..Len(w) /\ v[i] = w[i - 1])
  <2> TAKE i \in 1..Len(v)
  <2>1. i = 1 \/ i - 1 \in 1..Len(w)
    BY <1>1
  <2>2. (i - 1) + 1 = i
    OBVIOUS
  <2> QED
    BY <1>1, <2>1, <2>2
<1>7. TurnsAt(<<n>>, goesLeft, is) # {} <=> goesLeft[n] = is
  BY DEF TurnsAt
<1>5. CASE I(w) = {}
  <2>1. LastTurn(w, goesLeft, is) = 0
    BY <1>0, <1>2, <1>5
  <2>2. \A i \in I(v) : i = 1
    <3> TAKE i \in I(v)
    <3>1. i \in 1..Len(v) /\ goesLeft[v[i]] = is
      BY <1>3
    <3>2. i # 1 => i - 1 \in I(w)
      BY <1>3, <1>4, <3>1
    <3> QED
      BY <1>5, <3>2
  <2>3. 1 \in I(v) <=> goesLeft[n] = is
    <3>1. 1 \in 1..Len(v)
      BY <1>1
    <3> QED
      BY <1>1, <1>3, <3>1
  <2>4. CASE goesLeft[n] = is
    <3>1. Max(I(v)) = 1 /\ LastTurn(v, goesLeft, is) = v[Max(I(v))]
      BY <1>1, <1>2, <2>2, <2>3, <2>4
    <3> QED
      BY <1>1, <1>7, <2>1, <2>4, <3>1
  <2>5. CASE goesLeft[n] # is
    <3>1. I(v) = {}
      BY <2>2, <2>3, <2>5
    <3>2. LastTurn(v, goesLeft, is) = 0
      BY <1>1, <1>2, <3>1
    <3> QED
      BY <1>7, <2>1, <2>5, <3>2
  <2> QED
    BY <2>4, <2>5
<1>6. CASE I(w) # {}
  <2>1. /\ Max(I(w)) \in I(w) /\ \A i \in I(w) : i <= Max(I(w))
        /\ LastTurn(w, goesLeft, is) = w[Max(I(w))]
    BY <1>0, <1>2, <1>6
  <2>2. Max(I(w)) + 1 \in I(v)
    <3>1. Max(I(w)) \in 1..Len(w) /\ goesLeft[w[Max(I(w))]] = is
      BY <1>3, <2>1
    <3>2. Max(I(w)) + 1 \in 1..Len(v)
      BY <1>1, <3>1
    <3> QED
      BY <1>1, <1>3, <3>1, <3>2
  <2>3. /\ Max(I(v)) \in I(v) /\ \A i \in I(v) : i <= Max(I(v))
        /\ LastTurn(v, goesLeft, is) = v[Max(I(v))]
    BY <1>1, <1>2, <2>2
  <2> DEFINE k == Max(I(w))
             m == Max(I(v))
  <2>4. k \in 1..Len(w) /\ m \in 1..Len(v) /\ k + 1 <= m
    BY <1>3, <2>1, <2>2, <2>3
  <2>5. m # 1
    BY <1>1, <2>4
  <2>6. m - 1 \in 1..Len(w) /\ v[m] = w[m - 1] /\ goesLeft[v[m]] = is
    BY <1>3, <1>4, <2>3, <2>4, <2>5
  <2>7. m - 1 <= k
    BY <1>3, <2>1, <2>6
  <2>8. m - 1 = k
    BY <1>1, <2>4, <2>7
  <2>9. LastTurn(v, goesLeft, is) = LastTurn(w, goesLeft, is)
    BY <2>1, <2>3, <2>6, <2>8
  <2>10. LastTurn(w, goesLeft, is) \in S
    BY <1>1, <2>1, <2>4
  <2> QED
    BY <1>0, <2>9, <2>10
<1> QED
  BY <1>5, <1>6

\* The same for the turns to the left.
LEMMA LeftTurns ==
  ASSUME NEW c \in Nat, NEW goesLeft \in [1..c -> BOOLEAN]
  PROVE  \A n \in 1..c, w \in Seq(1..c) :
           LastTurn(<<n>> \o w, goesLeft, TRUE)
           = IF LastTurn(w, goesLeft, TRUE) # 0 THEN LastTurn(w, goesLeft, TRUE)
             ELSE IF goesLeft[n] THEN n ELSE 0
<1> TAKE n \in 1..c, w \in Seq(1..c)
<1>1. LastTurn(<<n>> \o w, goesLeft, TRUE)
      = IF LastTurn(w, goesLeft, TRUE) # 0 THEN LastTurn(w, goesLeft, TRUE)
        ELSE IF TurnsAt(<<n>>, goesLeft, TRUE) # {} THEN n ELSE 0
  BY TurnBehind
<1>2. TurnsAt(<<n>>, goesLeft, TRUE) # {} <=> goesLeft[n]
  BY DEF TurnsAt
<1> QED
  BY <1>1, <1>2

\* With a node, all behind it are in s.
Upwards(s, c) == \A m, n \in 1..c : m < n /\ s[m] => s[n]

\* The first node that is not less, where the nodes that are not less are all nodes
\* from one on.
LEMMA FirstOfUpper ==
  ASSUME NEW c \in Nat, NEW under, SearchTree(dict, c, under),
         NEW goesLeft \in [1..c -> BOOLEAN],
         Upwards(goesLeft, c),
         NEW n0, n0 = LastTurn(Way(goesLeft), goesLeft, TRUE)
  PROVE  /\ n0 = 0 => \A m \in 1..c : ~goesLeft[m]
         /\ n0 # 0 => n0 \in 1..c /\ goesLeft[n0] /\ \A m \in 1..c : goesLeft[m] => n0 <= m
         /\ (\E m \in 1..c : goesLeft[m]) => n0 # 0
<1>1. PICK f : /\ Way(goesLeft) = f[dict[0].left]
               /\ f \in [0..c -> Seq(1..c)] /\ f[0] = <<>>
               /\ \A n \in 1..c :
                    f[n] = <<n>> \o f[IF goesLeft[n] THEN dict[n].left ELSE dict[n].right]
  BY WayDown
<1>2. PICK r \in [0..c -> 0..c] :
        \A n \in 1..c : r[dict[n].left] < r[n] /\ r[dict[n].right] < r[n]
  BY Ranks
<1>3. /\ \A n \in 0..c : dict[n].left \in 0..c /\ dict[n].right \in 0..c
      /\ under \in [0..c -> SUBSET (1..c)] /\ under[0] = {} /\ under[dict[0].left] = 1..c
      /\ \A n \in 1..c : /\ under[n] = {n} \cup under[dict[n].left] \cup under[dict[n].right]
                         /\ \A m \in under[dict[n].left] : m < n
                         /\ \A m \in under[dict[n].right] : n < m
      /\ 0 \in 0..c
  BY InSearchTree
<1>0. \A n \in 1..c, w \in Seq(1..c) :
        LastTurn(<<n>> \o w, goesLeft, TRUE)
        = IF LastTurn(w, goesLeft, TRUE) # 0 THEN LastTurn(w, goesLeft, TRUE)
          ELSE IF goesLeft[n] THEN n ELSE 0
  BY LeftTurns
<1> DEFINE last(n) == LastTurn(f[n], goesLeft, TRUE)
           First(n) == /\ last(n) = 0 => \A m \in under[n] : ~goesLeft[m]
                       /\ last(n) # 0 => /\ last(n) \in under[n] /\ goesLeft[last(n)]
                                         /\ \A m \in under[n] : goesLeft[m] => last(n) <= m
           S == {k \in Nat : \A n \in 0..c : r[n] < k => First(n)}
<1>4. 0 \in S
  <2>1. \A n \in 0..c : ~(r[n] < 0)
    BY <1>2
  <2> HIDE DEF First
  <2> QED
    BY <2>1
<1>5. ASSUME NEW k \in Nat, k \in S PROVE k + 1 \in S
  <2>1. ASSUME NEW n \in 0..c, r[n] < k + 1 PROVE First(n)
    <3>1. CASE n = 0
      <4>1. last(n) = 0
        BY <1>1, <3>1, NoTurn
      <4>2. under[n] = {}
        BY <1>3, <3>1
      <4> HIDE DEF last
      <4> QED
        BY <4>1, <4>2
    <3>2. CASE n # 0
      <4> DEFINE d == IF goesLeft[n] THEN dict[n].left ELSE dict[n].right
      <4>1. n \in 1..c
        BY <3>2
      <4>2. d \in 0..c
        BY <1>3, <4>1
      <4>3. r[d] < r[n] /\ r[d] \in Nat /\ r[n] \in Nat
        <5>1. r[dict[n].left] < r[n] /\ r[dict[n].right] < r[n]
          BY <1>2, <4>1
        <5>2. \A m \in 0..c : r[m] \in Nat
          BY <1>2
        <5> QED
          BY <4>2, <5>1, <5>2
      <4>4. \A x, y \in Nat : x < y /\ y < k + 1 => x < k
        OBVIOUS
      <4>5. First(d)
        BY <1>5, <2>1, <4>2, <4>3, <4>4
      <4>6. last(n) = IF last(d) # 0 THEN last(d) ELSE IF goesLeft[n] THEN n ELSE 0
        <5>2. f[n] = <<n>> \o f[d]
          BY <1>1, <4>1
        <5> HIDE DEF d
        <5>1. f[d] \in Seq(1..c) /\ 0 \notin 1..c
          BY <1>1, <4>2
        <5> QED
          BY <1>0, <4>1, <5>1, <5>2
      <4>7. /\ under[n] = {n} \cup under[dict[n].left] \cup under[dict[n].right]
            /\ \A m \in under[dict[n].left] : m < n
            /\ \A m \in under[dict[n].right] : n < m
            /\ under[dict[n].left] \in SUBSET (1..c) /\ under[dict[n].right] \in SUBSET (1..c)
            /\ n \in Int
        <5>1. dict[n].left \in 0..c /\ dict[n].right \in 0..c /\ n \in 0..c
          BY <1>3, <4>1
        <5>2. under[dict[n].left] \in SUBSET (1..c) /\ under[dict[n].right] \in SUBSET (1..c)
          BY <1>3, <5>1
        <5>3. n \in Int
          BY <4>1
        <5>4. /\ under[n] = {n} \cup under[dict[n].left] \cup under[dict[n].right]
              /\ \A m \in under[dict[n].left] : m < n
              /\ \A m \in under[dict[n].right] : n < m
          BY <1>3, <4>1
        <5> QED
          BY <5>2, <5>3, <5>4
      <4>10. \A m \in under[n] : m \in Int
        <5>1. \A m \in 1..c : m \in Int
          OBVIOUS
        <5> QED
          BY <4>7, <5>1
      <4> HIDE DEF last
      <4>8. CASE goesLeft[n]
        <5>1. d = dict[n].left
          BY <4>8
        <5>2. CASE last(d) # 0
          <6>1. last(n) = last(d) /\ last(d) \in under[d] /\ goesLeft[last(d)]
                /\ \A m \in under[d] : goesLeft[m] => last(d) <= m
            BY <4>5, <4>6, <5>2
          <6>2. \A m \in under[n] : m \in under[d] \/ n <= m
            <7> TAKE m \in under[n]
            <7>1. m = n \/ m \in under[d] \/ n < m
              BY <4>7, <5>1
            <7>2. m \in Int /\ n \in Int
              BY <4>7, <4>10
            <7>3. n < m \/ m = n => n <= m
              BY <7>2
            <7> QED
              BY <7>1, <7>3
          <6>3. last(d) < n /\ last(d) \in Int
            <7>1. last(d) \in under[dict[n].left]
              BY <5>1, <6>1
            <7>2. last(d) \in under[n]
              BY <4>7, <7>1
            <7> QED
              BY <4>7, <4>10, <7>1, <7>2
          <6>4. \A m \in under[n] : goesLeft[m] => last(d) <= m
            <7> TAKE m \in under[n]
            <7>1. m \in Int /\ n \in Int /\ last(d) \in Int
              BY <4>7, <4>10, <6>3
            <7>2. CASE m \in under[d]
              BY <6>1, <7>2
            <7>3. CASE n <= m
              BY <6>3, <7>1, <7>3
            <7> QED
              BY <6>2, <7>2, <7>3
          <6> QED
            BY <4>7, <5>1, <5>2, <6>1, <6>4
        <5>3. CASE last(d) = 0
          <6>1. last(n) = n /\ \A m \in under[d] : ~goesLeft[m]
            BY <4>5, <4>6, <4>8, <5>3
          <6>2. \A m \in under[n] : goesLeft[m] => n <= m
            <7> TAKE m \in under[n]
            <7>1. m = n \/ m \in under[d] \/ n < m
              BY <4>7, <5>1
            <7>2. m \in Int /\ n \in Int
              BY <4>7, <4>10
            <7>3. n < m \/ m = n => n <= m
              BY <7>2
            <7> QED
              BY <6>1, <7>1, <7>3
          <6> QED
            BY <3>2, <4>7, <4>8, <6>1, <6>2
        <5> QED
          BY <5>2, <5>3
      <4>9. CASE ~goesLeft[n]
        <5>1. d = dict[n].right
          BY <4>9
        \* Those before a node that is less are less as well.
        <5>2. \A m \in under[dict[n].left] : ~goesLeft[m]
          BY <4>1, <4>7, <4>9 DEF Upwards
        <5>3. last(n) = last(d)
          BY <4>6, <4>9
        <5> QED
          BY <4>5, <4>7, <4>9, <5>1, <5>2, <5>3
      <4> QED
        BY <4>8, <4>9
    <3> QED
      BY <3>1, <3>2
  <2>2. k + 1 \in Nat
    OBVIOUS
  <2> HIDE DEF First
  <2> QED
    BY <2>1, <2>2
<1>6. \A n \in 0..c : First(n)
  <2>1. \A k \in Nat : k \in S
    <3> HIDE DEF S
    <3> QED
      BY <1>4, <1>5, Induction
  <2>2. c + 1 \in S /\ \A n \in 0..c : r[n] < c + 1
    <3>1. \A n \in 0..c : r[n] < c + 1
      BY <1>2
    <3>2. c + 1 \in Nat
      OBVIOUS
    <3> HIDE DEF S
    <3> QED
      BY <2>1, <3>1, <3>2
  <2> HIDE DEF First
  <2> QED
    BY <2>2
<1> DEFINE root == dict[0].left
<1>7. First(root) /\ under[root] = 1..c /\ n0 = last(root)
  BY <1>1, <1>3, <1>6
<1> HIDE DEF last, root
<1> QED
  BY <1>7

-----------------------------------------------------------------------------
(* The keys of the table.                                                  *)

Size == 458

\* The ids that the key of a node stands for.
RangeNodes == {66, 102, 458}
Low(n) == IF n <= 65 THEN n - 1 ELSE IF n = 66 THEN 65
          ELSE IF n <= 102 THEN n + 3 ELSE n + 25
High(n) == IF n <= 65 THEN n - 1 ELSE IF n = 66 THEN 69
           ELSE IF n <= 101 THEN n + 3 ELSE IF n = 102 THEN 127
           ELSE IF n <= 457 THEN n + 25 ELSE 32767
KeyAt(n) == DictKey(Low(n), IF n \in RangeNodes THEN High(n) ELSE 0, 0)

Keys == [first : Nat, second : Nat, number : Nat]

Join(w, s, m, t, n) ==
  /\ w \in Seq(Keys) /\ Len(w) = m + n
  /\ \A i \in 1..m : w[i] = s[i]
  /\ \A i \in (m + 1)..(m + n) : w[i] = t[i - m]

\* What stands where in two sequences one after the other.
LEMMA Joined ==
  ASSUME NEW s \in Seq(Keys), NEW t \in Seq(Keys)
  PROVE  Join(s \o t, s, Len(s), t, Len(t))
<1> DEFINE w == s \o t
           m == Len(s)
           n == Len(t)
<1>0. m \in Nat /\ n \in Nat
  OBVIOUS
<1>1. \A i \in 1..(m + n) : w[i] = IF i <= m THEN s[i] ELSE t[i - m]
  BY ConcatProperties
<1>2. w \in Seq(Keys) /\ Len(w) = m + n
  BY ConcatProperties
<1> HIDE DEF w, m, n
<1>3. ASSUME NEW i \in 1..m PROVE w[i] = s[i]
  BY <1>0, <1>1
<1>4. ASSUME NEW i \in (m + 1)..(m + n) PROVE w[i] = t[i - m]
  BY <1>0, <1>1
<1> QED
  BY <1>2, <1>3, <1>4 DEF Join, w, m, n

\* One part of the table: single ids from a on, and a range.
Part(s, a, c, k) ==
  /\ s \in Seq(Keys) /\ Len(s) = c + 1
  /\ \A i \in 1..c : s[i] = Single(a + i - 1, 0)
  /\ s[c + 1] = k

PartOf(a, c, k) == Singles(a, a + c - 1) \o <<k>>

\* What the parts of the table are.
LEMMA SinglesAre ==
  ASSUME NEW a \in Nat, NEW c \in Nat, NEW k \in Keys
  PROVE  Part(PartOf(a, c, k), a, c, k)
<1> DEFINE r == Singles(a, a + c - 1)
           s == PartOf(a, c, k)
<1>1. r = [i \in 1..c |-> Single(a + i - 1, 0)]
  BY DEF Singles
<1>2. \A i \in 1..c : Single(a + i - 1, 0) \in Keys
  BY DEF Single, DictKey, Keys
<1>4. s = r \o <<k>>
  BY DEF PartOf
<1> HIDE DEF r, s
<1>3. r \in Seq(Keys) /\ Len(r) = c
  BY <1>1, <1>2
<1>5. <<k>> \in Seq(Keys) /\ Len(<<k>>) = 1
  OBVIOUS
<1>6. /\ s \in Seq(Keys) /\ Len(s) = c + 1
      /\ \A i \in 1..c : s[i] = r[i]
      /\ \A i \in (c + 1)..(c + 1) : s[i] = <<k>>[i - c]
  <2>1. Join(s, r, c, <<k>>, 1)
    BY <1>3, <1>4, <1>5, Joined
  <2> QED
    BY <2>1 DEF Join
<1>7. \A i \in 1..c : s[i] = Single(a + i - 1, 0)
  BY <1>1, <1>6
<1>8. s[c + 1] = k
  <2>1. c + 1 \in (c + 1)..(c + 1) /\ (c + 1) - c = 1
    OBVIOUS
  <2>2. s[c + 1] = <<k>>[1]
    BY <1>6, <2>1
  <2> QED
    BY <2>2
<1> QED
  BY <1>6, <1>7, <1>8 DEF Part, s

\* The single ids of a part.
LEMMA SinglesOfPart ==
  ASSUME NEW s, NEW a, NEW c, NEW k, Part(s, a, c, k), NEW i \in 1..c
  PROVE  s[i] = Single(a + i - 1, 0)
BY DEF Part

\* The table of ipfix_dict_iana_init, key by key.
LEMMA TableIs ==
  /\ Len(Table) = Size
  /\ \A n \in 1..Size : Table[n] = KeyAt(n)
<1> DEFINE first == AncientElements
           middle == MiddleElements
           later == LaterElements
<1>0. DictKey(65, 69, 0) \in Keys /\ DictKey(105, 127, 0) \in Keys
      /\ DictKey(483, 32767, 0) \in Keys
  BY DEF DictKey, Keys
<1>1. /\ first \in Seq(Keys) /\ Len(first) = 66
      /\ \A i \in 1..65 : first[i] = Single(0 + i - 1, 0)
      /\ first[66] = DictKey(65, 69, 0)
  <2>1. Part(first, 0, 65, DictKey(65, 69, 0))
    <3>1. first = PartOf(0, 65, DictKey(65, 69, 0))
      <4>1. 0 + 65 - 1 = 64
        OBVIOUS
      <4> QED
        BY <4>1 DEF PartOf, AncientElements
    <3> HIDE DEF first, middle, later
    <3> QED
      BY <1>0, <3>1, SinglesAre
  <2> HIDE DEF first, middle, later
  <2> QED
    BY <2>1 DEF Part
<1>2. /\ middle \in Seq(Keys) /\ Len(middle) = 36
      /\ \A i \in 1..35 : middle[i] = Single(70 + i - 1, 0)
      /\ middle[36] = DictKey(105, 127, 0)
  <2>1. Part(middle, 70, 35, DictKey(105, 127, 0))
    <3>1. middle = PartOf(70, 35, DictKey(105, 127, 0))
      <4>1. 70 + 35 - 1 = 104
        OBVIOUS
      <4> QED
        BY <4>1 DEF PartOf, MiddleElements
    <3> HIDE DEF first, middle, later
    <3> QED
      BY <1>0, <3>1, SinglesAre
  <2> HIDE DEF first, middle, later
  <2> QED
    BY <2>1 DEF Part
<1>3. Part(later, 128, 355, DictKey(483, 32767, 0))
  <2>1. Part(later, 128, 355, DictKey(483, 32767, 0))
    <3>1. later = PartOf(128, 355, DictKey(483, 32767, 0))
      <4>1. 128 + 355 - 1 = 482
        OBVIOUS
      <4> QED
        BY <4>1 DEF PartOf, LaterElements
    <3> HIDE DEF first, middle, later
    <3> QED
      BY <1>0, <3>1, SinglesAre
  <2> HIDE DEF first, middle, later
  <2> QED
    BY <2>1
<1> HIDE DEF later
<1>8. later \in Seq(Keys) /\ Len(later) = 355 + 1
  BY <1>3 DEF Part
<1>9. ASSUME NEW i \in 1..355 PROVE later[i] = Single(128 + i - 1, 0)
  BY <1>3, SinglesOfPart
<1>10. later[355 + 1] = DictKey(483, 32767, 0)
  BY <1>3 DEF Part
<1> DEFINE front == first \o middle
<1>4. Table = front \o later
  BY DEF Table, later
<1> HIDE DEF first, middle, later
<1>5. /\ front \in Seq(Keys) /\ Len(front) = 102
      /\ \A i \in 1..66 : front[i] = first[i]
      /\ \A i \in 67..102 : front[i] = middle[i - 66]
  <2>1. first \in Seq(Keys) /\ Len(first) = 66 /\ middle \in Seq(Keys) /\ Len(middle) = 36
    BY <1>1, <1>2
  <2>2. /\ front \in Seq(Keys) /\ Len(front) = 66 + 36
        /\ \A i \in 1..66 : front[i] = first[i]
        /\ \A i \in (66 + 1)..(66 + 36) : front[i] = middle[i - 66]
    <3>1. Join(front, first, 66, middle, 36)
      <4>1. Join(front, first, Len(first), middle, Len(middle))
        BY <2>1, Joined
      <4> QED
        BY <2>1, <4>1
    <3> HIDE DEF front
    <3> QED
      BY <3>1 DEF Join
  <2> HIDE DEF front
  <2> QED
    BY <2>2
<1> HIDE DEF front
<1>6. /\ Len(Table) = 458
      /\ \A i \in 1..102 : Table[i] = front[i]
      /\ \A i \in 103..458 : Table[i] = later[i - 102]
  <2>1. front \in Seq(Keys) /\ Len(front) = 102 /\ later \in Seq(Keys) /\ Len(later) = 356
    BY <1>5, <1>8
  <2>2. /\ Table \in Seq(Keys) /\ Len(Table) = 102 + 356
        /\ \A i \in 1..102 : Table[i] = front[i]
        /\ \A i \in (102 + 1)..(102 + 356) : Table[i] = later[i - 102]
    <3>1. Join(Table, front, 102, later, 356)
      <4>1. Join(front \o later, front, Len(front), later, Len(later))
        <5>1. front \in Seq(Keys) /\ later \in Seq(Keys)
          BY <2>1
        <5> QED
          BY <5>1, Joined
      <4> QED
        BY <1>4, <2>1, <4>1
    <3> QED
      BY <3>1 DEF Join
  <2> QED
    BY <2>2
<1>7. ASSUME NEW n \in 1..458 PROVE Table[n] = KeyAt(n)
  <2>1. CASE n \in 1..65
    <3>0. Table[n] = front[n] /\ front[n] = first[n]
      <4>1. n \in 1..66 /\ n \in 1..102
        BY <2>1
      <4> QED
        BY <1>5, <1>6, <4>1
    <3>1. Table[n] = Single(0 + n - 1, 0)
      BY <1>1, <2>1, <3>0
    <3> QED
      BY <2>1, <3>1 DEF KeyAt, Low, High, RangeNodes, Single
  <2>2. CASE n = 66
    <3>1. Table[66] = DictKey(65, 69, 0)
      BY <1>1, <1>5, <1>6
    <3> QED
      BY <2>2, <3>1 DEF KeyAt, Low, High, RangeNodes
  <2>3. CASE n \in 67..101
    <3>1. Table[n] = middle[n - 66] /\ n - 66 \in 1..35
      <4>1. n \in 1..102 /\ n \in 67..102
        BY <2>3
      <4>2. Table[n] = front[n] /\ front[n] = middle[n - 66]
        BY <1>5, <1>6, <4>1
      <4>3. n - 66 \in 1..35
        BY <2>3
      <4> QED
        BY <4>2, <4>3
    <3>2. Table[n] = Single(n + 3, 0)
      <4>1. middle[n - 66] = Single(70 + (n - 66) - 1, 0)
        BY <1>2, <3>1
      <4>2. 70 + (n - 66) - 1 = n + 3
        BY <2>3
      <4> QED
        BY <3>1, <4>1, <4>2
    <3> QED
      BY <2>3, <3>2 DEF KeyAt, Low, High, RangeNodes, Single
  <2>4. CASE n = 102
    <3>1. Table[102] = DictKey(105, 127, 0)
      BY <1>2, <1>5, <1>6
    <3> QED
      BY <2>4, <3>1 DEF KeyAt, Low, High, RangeNodes
  <2>5. CASE n \in 103..457
    <3>1. Table[n] = later[n - 102] /\ n - 102 \in 1..355
      BY <1>6, <2>5
    <3>2. Table[n] = Single(n + 25, 0)
      <4>1. later[n - 102] = Single(128 + (n - 102) - 1, 0)
        BY <1>9, <3>1
      <4>2. 128 + (n - 102) - 1 = n + 25
        BY <2>5
      <4> QED
        BY <3>1, <4>1, <4>2
    <3> QED
      BY <2>5, <3>2 DEF KeyAt, Low, High, RangeNodes, Single
  <2>6. CASE n = 458
    <3>1. Table[458] = DictKey(483, 32767, 0)
      BY <1>6, <1>10
    <3> QED
      BY <2>6, <3>1 DEF KeyAt, Low, High, RangeNodes
  <2> QED
    BY <2>1, <2>2, <2>3, <2>4, <2>5, <2>6
<1> QED
  BY <1>6, <1>7 DEF Size

\* The parts of the keys.
LEMMA KeyParts ==
  ASSUME NEW n \in 1..Size
  PROVE  /\ Table[n].number = 0
         /\ Table[n].first = Low(n)
         /\ Table[n].second = IF n \in RangeNodes THEN High(n) ELSE 0
         /\ n \notin RangeNodes => High(n) = Low(n)
         /\ n \in RangeNodes => High(n) > Low(n)
         /\ Low(n) \in Nat /\ High(n) \in Nat
<1>1. Table[n] = KeyAt(n)
  BY TableIs
<1>2. n \in Nat /\ n <= 458 /\ n >= 1
  BY DEF Size
<1>3. /\ n \notin RangeNodes => High(n) = Low(n)
      /\ n \in RangeNodes => High(n) > Low(n)
      /\ Low(n) \in Nat /\ High(n) \in Nat
  BY <1>2 DEF Low, High, RangeNodes
<1> QED
  BY <1>1, <1>3 DEF KeyAt, DictKey

\* The keys follow each other and leave no id out.
LEMMA KeysAscend ==
  /\ \A m, n \in 1..Size : m < n => High(m) < Low(n)
  /\ \A n \in 2..Size : Low(n) = High(n - 1) + 1
  /\ Low(1) = 0 /\ High(Size) = 32767
BY DEF Size, Low, High

\* Of two keys that are not both ranges, the later one is greater for operator <.
LEMMA NewKeyIsGreater ==
  ASSUME NEW m \in 1..Size, NEW n \in 1..Size, m < n,
         m \notin RangeNodes \/ n \notin RangeNodes
  PROVE  ~Precedes(Table[n], Table[m]) /\ Precedes(Table[m], Table[n])
<1>1. High(m) < Low(n) /\ Low(m) <= High(m) /\ Low(n) <= High(n)
  BY KeysAscend, KeyParts
<1> QED
  BY <1>1, KeyParts DEF Precedes

\* Which keys are less than a single id, and which is not different from it.
LEMMA KeysAndIds ==
  ASSUME NEW n \in 1..Size, NEW id \in Nat, NEW k, k = Single(id, 0)
  PROVE  /\ Precedes(Table[n], k) <=> High(n) < id
         /\ Precedes(k, Table[n]) <=> id < Low(n)
         /\ Covers(Table[n], id) <=> Low(n) <= id /\ id <= High(n)
<1>1. k.first = id /\ k.second = 0 /\ k.number = 0
  BY DEF Single, DictKey
<1>2. Covers(Table[n], id) <=> Low(n) <= id /\ id <= High(n)
  BY KeyParts DEF Covers
<1> QED
  BY <1>1, <1>2, KeyParts DEF Precedes

-----------------------------------------------------------------------------
(* The numbers of the right edge.  Keys in ascending order make a tree in  *)
(* which the levels of the edge count the nodes as the digits of a binary  *)
(* number do, and a new node goes up the edge as a carry does.             *)

\* The right edge of a tree of n nodes that were inserted in ascending order.  At each
\* level from 0 at its lower end it has two nodes, at the top level one or two: the
\* subtree on the left of the lower one, and of the upper one unless its root is red,
\* has as many nodes as a binary number of level digits can count.
Weight(h) == <<1, 2, 4, 8, 16, 32, 64, 128, 256>>[h + 1]
Halves(n, h) == (n + 2) \div Weight(h)
Lower(n, h) == Weight(h) * (Halves(n, h) - 2)
Upper(n, h) == Weight(h) * (Halves(n, h) - 3)

\* The level has a node that the next one does not count.
Odd(n, h) == Halves(n, h) = 2 * Halves(n, h + 1) + 1

\* With one more node, the nodes up to level h move up by one.
Carries(n, h) == (n + 3) % Weight(h) = 0
\* The node that gets to level h then.
Incoming(n, h) == Lower(n, h) + Weight(h)

Levels == 0..8

\* The weights are the powers of two.
LEMMA Weights ==
  /\ \A h \in Levels : Weight(h) \in Nat \ {0}
  /\ Weight(0) = 1 /\ Weight(8) = 256
  /\ \A h \in 0..7 : Weight(h + 1) = 2 * Weight(h)
  /\ \A g, h \in Levels : g < h => Weight(h) >= 2 * Weight(g)
<1>1. /\ Weight(0) = 1 /\ Weight(1) = 2 /\ Weight(2) = 4 /\ Weight(3) = 8 /\ Weight(4) = 16
      /\ Weight(5) = 32 /\ Weight(6) = 64 /\ Weight(7) = 128 /\ Weight(8) = 256
  BY DEF Weight
<1>2. \A h \in Levels : h \in {0, 1, 2, 3, 4, 5, 6, 7, 8}
  BY DEF Levels
<1>3. \A h \in 0..7 : h \in {0, 1, 2, 3, 4, 5, 6, 7}
  OBVIOUS
<1>4. \A h \in 0..7 : Weight(h + 1) = 2 * Weight(h)
  BY <1>1, <1>3
<1>5. \A h \in Levels : Weight(h) \in Nat \ {0}
  BY <1>1, <1>2
<1>6. \A g, h \in Levels : g < h => Weight(h) >= 2 * Weight(g)
  BY <1>1, <1>2
<1> QED
  BY <1>1, <1>4, <1>5, <1>6

\* What is left of n + 2 when it is divided by the weight of a level.
LEMMA LevelNumbers ==
  ASSUME NEW n \in 0..Size, NEW h \in Levels
  PROVE  /\ Halves(n, h) \in Nat /\ Lower(n, h) \in Int /\ Upper(n, h) \in Int
         /\ Incoming(n, h) \in Int
         /\ n + 2 - Weight(h) < Lower(n, h) + 2 * Weight(h)
         /\ Lower(n, h) + 2 * Weight(h) <= n + 2
         /\ Upper(n, h) = Lower(n, h) - Weight(h)
         /\ Halves(n, h) >= 3 => Lower(n, h) > 0 /\ Upper(n, h) >= 0
         /\ Halves(n, h) = 3 => Upper(n, h) = 0
         /\ Halves(n, h) >= 4 => Upper(n, h) > 0
         /\ Halves(n, h) = 2 => Lower(n, h) = 0
         /\ h = 8 => Halves(n, h) <= 1
         /\ h = 0 => Halves(n, h) = n + 2 /\ Lower(n, h) = n /\ Incoming(n, h) = n + 1
<1>1. h \in {0, 1, 2, 3, 4, 5, 6, 7, 8} /\ n \in Nat /\ n <= 458
  BY DEF Levels, Size
<1>2. /\ Weight(0) = 1 /\ Weight(1) = 2 /\ Weight(2) = 4 /\ Weight(3) = 8 /\ Weight(4) = 16
      /\ Weight(5) = 32 /\ Weight(6) = 64 /\ Weight(7) = 128 /\ Weight(8) = 256
  BY DEF Weight
<1>3. CASE h = 0
  BY <1>1, <1>2, <1>3 DEF Halves, Lower, Upper, Incoming
<1>4. CASE h = 1
  BY <1>1, <1>2, <1>4 DEF Halves, Lower, Upper, Incoming
<1>5. CASE h = 2
  BY <1>1, <1>2, <1>5 DEF Halves, Lower, Upper, Incoming
<1>6. CASE h = 3
  BY <1>1, <1>2, <1>6 DEF Halves, Lower, Upper, Incoming
<1>7. CASE h = 4
  BY <1>1, <1>2, <1>7 DEF Halves, Lower, Upper, Incoming
<1>8. CASE h = 5
  BY <1>1, <1>2, <1>8 DEF Halves, Lower, Upper, Incoming
<1>9. CASE h = 6
  BY <1>1, <1>2, <1>9 DEF Halves, Lower, Upper, Incoming
<1>10. CASE h = 7
  BY <1>1, <1>2, <1>10 DEF Halves, Lower, Upper, Incoming
<1>11. CASE h = 8
  BY <1>1, <1>2, <1>11 DEF Halves, Lower, Upper, Incoming
<1> QED
  BY <1>1, <1>3, <1>4, <1>5, <1>6, <1>7, <1>8, <1>9, <1>10, <1>11

\* A level counts twice what the next one does, and one more when it is odd.
LEMMA NextLevel ==
  ASSUME NEW n \in 0..Size, NEW h \in 0..7
  PROVE  /\ h \in Levels /\ h + 1 \in Levels
         /\ ~Odd(n, h) => Halves(n, h) = 2 * Halves(n, h + 1)
<1>1. h \in {0, 1, 2, 3, 4, 5, 6, 7} /\ n \in Nat
  OBVIOUS
<1>2. /\ Weight(0) = 1 /\ Weight(1) = 2 /\ Weight(2) = 4 /\ Weight(3) = 8 /\ Weight(4) = 16
      /\ Weight(5) = 32 /\ Weight(6) = 64 /\ Weight(7) = 128 /\ Weight(8) = 256
  BY DEF Weight
<1>3. CASE h = 0
  BY <1>1, <1>2, <1>3 DEF Halves, Levels, Odd
<1>4. CASE h = 1
  BY <1>1, <1>2, <1>4 DEF Halves, Levels, Odd
<1>5. CASE h = 2
  BY <1>1, <1>2, <1>5 DEF Halves, Levels, Odd
<1>6. CASE h = 3
  BY <1>1, <1>2, <1>6 DEF Halves, Levels, Odd
<1>7. CASE h = 4
  BY <1>1, <1>2, <1>7 DEF Halves, Levels, Odd
<1>8. CASE h = 5
  BY <1>1, <1>2, <1>8 DEF Halves, Levels, Odd
<1>9. CASE h = 6
  BY <1>1, <1>2, <1>9 DEF Halves, Levels, Odd
<1>10. CASE h = 7
  BY <1>1, <1>2, <1>10 DEF Halves, Levels, Odd
<1> QED
  BY <1>1, <1>3, <1>4, <1>5, <1>6, <1>7, <1>8, <1>9, <1>10

\* The higher the level, the smaller the nodes.
LEMMA LevelsDescend ==
  ASSUME NEW n \in 0..Size, NEW g \in Levels, NEW h \in Levels, g < h
  PROVE  Lower(n, h) < Upper(n, g)
<1>1. /\ n + 2 - Weight(g) < Lower(n, g) + 2 * Weight(g)
      /\ Upper(n, g) = Lower(n, g) - Weight(g)
      /\ Lower(n, h) + 2 * Weight(h) <= n + 2
      /\ Lower(n, h) \in Int /\ Lower(n, g) \in Int /\ Upper(n, g) \in Int /\ n \in Int
  BY LevelNumbers
<1>2. Weight(h) >= 2 * Weight(g) /\ Weight(g) \in Nat /\ Weight(h) \in Nat
  BY Weights
<1> QED
  BY <1>1, <1>2

\* What one more node does to the levels.
LEMMA OneMore ==
  ASSUME NEW n \in 0..(Size - 1), NEW h \in Levels
  PROVE  /\ Carries(n, h) => /\ Halves(n + 1, h) = Halves(n, h) + 1
                             /\ Upper(n + 1, h) = Lower(n, h)
                             /\ Lower(n + 1, h) = Incoming(n, h)
         /\ ~Carries(n, h) => /\ Halves(n + 1, h) = Halves(n, h)
                              /\ Upper(n + 1, h) = Upper(n, h)
                              /\ Lower(n + 1, h) = Lower(n, h)
         /\ h = 0 => Carries(n, h)
<1>1. h \in {0, 1, 2, 3, 4, 5, 6, 7, 8} /\ n \in Nat
  BY DEF Levels
<1>2. /\ Weight(0) = 1 /\ Weight(1) = 2 /\ Weight(2) = 4 /\ Weight(3) = 8 /\ Weight(4) = 16
      /\ Weight(5) = 32 /\ Weight(6) = 64 /\ Weight(7) = 128 /\ Weight(8) = 256
  BY DEF Weight
<1>3. CASE h = 0
  BY <1>1, <1>2, <1>3 DEF Halves, Lower, Upper, Incoming, Carries
<1>4. CASE h = 1
  BY <1>1, <1>2, <1>4 DEF Halves, Lower, Upper, Incoming, Carries
<1>5. CASE h = 2
  BY <1>1, <1>2, <1>5 DEF Halves, Lower, Upper, Incoming, Carries
<1>6. CASE h = 3
  BY <1>1, <1>2, <1>6 DEF Halves, Lower, Upper, Incoming, Carries
<1>7. CASE h = 4
  BY <1>1, <1>2, <1>7 DEF Halves, Lower, Upper, Incoming, Carries
<1>8. CASE h = 5
  BY <1>1, <1>2, <1>8 DEF Halves, Lower, Upper, Incoming, Carries
<1>9. CASE h = 6
  BY <1>1, <1>2, <1>9 DEF Halves, Lower, Upper, Incoming, Carries
<1>10. CASE h = 7
  BY <1>1, <1>2, <1>10 DEF Halves, Lower, Upper, Incoming, Carries
<1>11. CASE h = 8
  BY <1>1, <1>2, <1>11 DEF Halves, Lower, Upper, Incoming, Carries
<1> QED
  BY <1>1, <1>3, <1>4, <1>5, <1>6, <1>7, <1>8, <1>9, <1>10, <1>11

\* The next number is a multiple of the weight.
LEMMA CarryIs ==
  ASSUME NEW n \in 0..(Size - 1), NEW h \in Levels
  PROVE  Carries(n, h) <=> n + 3 = Lower(n, h) + 3 * Weight(h)
<1>1. h \in {0, 1, 2, 3, 4, 5, 6, 7, 8} /\ n \in Nat
  BY DEF Levels
<1>2. /\ Weight(0) = 1 /\ Weight(1) = 2 /\ Weight(2) = 4 /\ Weight(3) = 8 /\ Weight(4) = 16
      /\ Weight(5) = 32 /\ Weight(6) = 64 /\ Weight(7) = 128 /\ Weight(8) = 256
  BY DEF Weight
<1>3. CASE h = 0
  <2>1. (n + 3) % 1 = 0 <=> n + 3 = 1 * ((n + 2) \div 1 - 2) + 3 * 1
    BY <1>1
  <2> QED
    BY <1>2, <1>3, <2>1 DEF Halves, Lower, Carries
<1>4. CASE h = 1
  <2>1. (n + 3) % 2 = 0 <=> n + 3 = 2 * ((n + 2) \div 2 - 2) + 3 * 2
    BY <1>1
  <2> QED
    BY <1>2, <1>4, <2>1 DEF Halves, Lower, Carries
<1>5. CASE h = 2
  <2>1. (n + 3) % 4 = 0 <=> n + 3 = 4 * ((n + 2) \div 4 - 2) + 3 * 4
    BY <1>1
  <2> QED
    BY <1>2, <1>5, <2>1 DEF Halves, Lower, Carries
<1>6. CASE h = 3
  <2>1. (n + 3) % 8 = 0 <=> n + 3 = 8 * ((n + 2) \div 8 - 2) + 3 * 8
    BY <1>1
  <2> QED
    BY <1>2, <1>6, <2>1 DEF Halves, Lower, Carries
<1>7. CASE h = 4
  <2>1. (n + 3) % 16 = 0 <=> n + 3 = 16 * ((n + 2) \div 16 - 2) + 3 * 16
    BY <1>1
  <2> QED
    BY <1>2, <1>7, <2>1 DEF Halves, Lower, Carries
<1>8. CASE h = 5
  <2>1. (n + 3) % 32 = 0 <=> n + 3 = 32 * ((n + 2) \div 32 - 2) + 3 * 32
    BY <1>1
  <2> QED
    BY <1>2, <1>8, <2>1 DEF Halves, Lower, Carries
<1>9. CASE h = 6
  <2>1. (n + 3) % 64 = 0 <=> n + 3 = 64 * ((n + 2) \div 64 - 2) + 3 * 64
    BY <1>1
  <2> QED
    BY <1>2, <1>9, <2>1 DEF Halves, Lower, Carries
<1>10. CASE h = 7
  <2>1. (n + 3) % 128 = 0 <=> n + 3 = 128 * ((n + 2) \div 128 - 2) + 3 * 128
    BY <1>1
  <2> QED
    BY <1>2, <1>10, <2>1 DEF Halves, Lower, Carries
<1>11. CASE h = 8
  <2>1. (n + 3) % 256 = 0 <=> n + 3 = 256 * ((n + 2) \div 256 - 2) + 3 * 256
    BY <1>1
  <2> QED
    BY <1>2, <1>11, <2>1 DEF Halves, Lower, Carries
<1> QED
  BY <1>1, <1>3, <1>4, <1>5, <1>6, <1>7, <1>8, <1>9, <1>10, <1>11

\* A node goes on from an odd level to the next one, as a carry does.
LEMMA CarryGoesOn ==
  ASSUME NEW n \in 0..(Size - 1), NEW h \in 0..7
  PROVE  /\ Carries(n, h + 1) <=> Carries(n, h) /\ Odd(n, h)
         /\ Carries(n, h + 1) => Incoming(n, h + 1) = Upper(n, h)
<1>1. h \in {0, 1, 2, 3, 4, 5, 6, 7} /\ n \in Nat /\ n \in 0..Size
  BY DEF Size
<1>2. /\ Weight(0) = 1 /\ Weight(1) = 2 /\ Weight(2) = 4 /\ Weight(3) = 8 /\ Weight(4) = 16
      /\ Weight(5) = 32 /\ Weight(6) = 64 /\ Weight(7) = 128 /\ Weight(8) = 256
  BY DEF Weight
<1> DEFINE a == Halves(n, h)
           b == Halves(n, h + 1)
           w == Weight(h)
<1>3. h \in Levels /\ h + 1 \in Levels
  BY NextLevel, <1>1
<1>4. a \in Nat /\ b \in Nat /\ (a = 2 * b \/ a = 2 * b + 1) /\ (Odd(n, h) <=> a = 2 * b + 1)
  BY <1>1, <1>3, LevelNumbers, NextLevel DEF Odd
<1>5. /\ n + 2 - w < Lower(n, h) + 2 * w /\ Lower(n, h) + 2 * w <= n + 2
      /\ Carries(n, h) <=> n + 3 = Lower(n, h) + 3 * w
      /\ Carries(n, h + 1) <=> n + 3 = Lower(n, h + 1) + 3 * (2 * w)
      /\ w \in {1, 2, 4, 8, 16, 32, 64, 128} /\ Weight(h + 1) = 2 * w
  <2>1. Weight(h + 1) = 2 * w /\ w \in {1, 2, 4, 8, 16, 32, 64, 128}
    BY <1>1, <1>2, Weights
  <2>2. /\ Carries(n, h) <=> n + 3 = Lower(n, h) + 3 * w
        /\ Carries(n, h + 1) <=> n + 3 = Lower(n, h + 1) + 3 * Weight(h + 1)
    BY <1>3, CarryIs
  <2>3. /\ n + 2 - w < Lower(n, h) + 2 * w /\ Lower(n, h) + 2 * w <= n + 2
    BY <1>1, <1>3, LevelNumbers
  <2> QED
    BY <2>1, <2>2, <2>3
<1>6. /\ Lower(n, h) = w * (a - 2) /\ Upper(n, h) = w * (a - 3)
      /\ Lower(n, h + 1) = (2 * w) * (b - 2) /\ Incoming(n, h + 1) = Lower(n, h + 1) + 2 * w
  BY <1>5 DEF Lower, Upper, Incoming
<1> HIDE DEF a, b, w
<1>7. CASE w = 1
  BY <1>1, <1>4, <1>5, <1>6, <1>7
<1>8. CASE w = 2
  BY <1>1, <1>4, <1>5, <1>6, <1>8
<1>9. CASE w = 4
  BY <1>1, <1>4, <1>5, <1>6, <1>9
<1>10. CASE w = 8
  BY <1>1, <1>4, <1>5, <1>6, <1>10
<1>11. CASE w = 16
  BY <1>1, <1>4, <1>5, <1>6, <1>11
<1>12. CASE w = 32
  BY <1>1, <1>4, <1>5, <1>6, <1>12
<1>13. CASE w = 64
  BY <1>1, <1>4, <1>5, <1>6, <1>13
<1>14. CASE w = 128
  BY <1>1, <1>4, <1>5, <1>6, <1>14
<1> QED
  BY <1>5, <1>7, <1>8, <1>9, <1>10, <1>11, <1>12, <1>13, <1>14

\* The ranges are not on the edge when another range is inserted.
LEMMA RangesOffEdge ==
  ASSUME NEW h \in Levels
  PROVE  /\ Lower(101, h) # 66 /\ Upper(101, h) # 66
         /\ Lower(457, h) \notin {66, 102} /\ Upper(457, h) \notin {66, 102}
<1>1. h \in {0, 1, 2, 3, 4, 5, 6, 7, 8}
  BY DEF Levels
<1>2. /\ Weight(0) = 1 /\ Weight(1) = 2 /\ Weight(2) = 4 /\ Weight(3) = 8 /\ Weight(4) = 16
      /\ Weight(5) = 32 /\ Weight(6) = 64 /\ Weight(7) = 128 /\ Weight(8) = 256
  BY DEF Weight
<1> QED
  BY <1>1, <1>2 DEF Halves, Lower, Upper

\* The level of the root.
LEMMA TopLevel ==
  ASSUME NEW n \in 1..Size
  PROVE  \E h \in 0..7 : Halves(n, h) \in 3..5
<1>1. n \in Nat /\ n >= 1 /\ n <= 458
  BY DEF Size
<1>2. /\ Weight(0) = 1 /\ Weight(1) = 2 /\ Weight(2) = 4 /\ Weight(3) = 8 /\ Weight(4) = 16
      /\ Weight(5) = 32 /\ Weight(6) = 64 /\ Weight(7) = 128 /\ Weight(8) = 256
  BY DEF Weight
<1> QED
  BY <1>1, <1>2 DEF Halves

-----------------------------------------------------------------------------
(* Colours and rotations.                                                  *)

\* A tree in which only colours have changed.
LEMMA ColoursDoNotMatter ==
  ASSUME NEW c \in Nat, NEW t, NEW under, SearchTree(t, c, under),
         NEW t2 \in [0..c -> NodeEntries(c)],
         \A n \in 0..c : /\ t2[n].left = t[n].left /\ t2[n].right = t[n].right
                         /\ t2[n].parent = t[n].parent
  PROVE  SearchTree(t2, c, under)
<1>1. DOMAIN t = 0..c /\ DOMAIN t2 = 0..c
  BY DEF SearchTree
<1>2. LeftOf(t2) = LeftOf(t) /\ RightOf(t2) = RightOf(t) /\ ParentOf(t2) = ParentOf(t)
  BY <1>1 DEF LeftOf, RightOf, ParentOf
<1> QED
  BY <1>2 DEF SearchTree

\* r is t after a rotation to the left at g.
TurnedLeft(t, r, c, g) ==
  LET up == t[g].parent
      p  == t[g].right
      i  == t[p].left
  IN  \A n \in 0..c :
        /\ r[n].red = t[n].red
        /\ r[n].left = IF n = p THEN g ELSE IF n = up /\ t[n].left = g THEN p ELSE t[n].left
        /\ r[n].right = IF n = g THEN i ELSE IF n = up /\ t[n].right = g THEN p ELSE t[n].right
        /\ r[n].parent = IF n = g THEN p ELSE IF n = p THEN up
                         ELSE IF n = i /\ n # 0 THEN g ELSE t[n].parent

\* Rotated to the left: what each node has then, and that the order is kept.
LEMMA LeftRotation ==
  ASSUME NEW c \in Nat, NEW t, NEW under, SearchTree(t, c, under),
         NEW g \in 1..c, t[g].right # 0, NEW r, r = Rotated(t, g, "left")
  PROVE  TurnedLeft(t, r, c, g) /\ \E v : SearchTree(r, c, v)
<1> DEFINE up == t[g].parent
           p == t[g].right
           i == t[p].left
<1>1. /\ DOMAIN t = 0..c /\ 0 \in 0..c /\ g \in 0..c
      /\ \A n \in 0..c : /\ t[n].left \in 0..c /\ t[n].right \in 0..c
                         /\ t[n].parent \in 0..c /\ t[n].red \in BOOLEAN
      /\ \A n \in 0..c : /\ t[n].left # 0 => t[t[n].left].parent = n
                         /\ t[n].right # 0 => t[t[n].right].parent = n
                         /\ t[n].left # 0 => t[n].left # t[n].right
      /\ \A n \in 1..c : t[t[n].parent].left = n \/ t[t[n].parent].right = n
  BY InSearchTree
<1>2. /\ Tree(c, Less, LeftOf(t), RightOf(t), ParentOf(t), under) /\ StrictOrder(Less, c)
      /\ t \in [0..c -> NodeEntries(c)]
  BY LessIsStrict DEF SearchTree
<1>3. \A n \in 0..c : LeftOf(t)[n] = t[n].left /\ RightOf(t)[n] = t[n].right
                      /\ ParentOf(t)[n] = t[n].parent
  BY <1>1 DEF LeftOf, RightOf, ParentOf
<1>4. p \in 0..c /\ up \in 0..c /\ p = RightOf(t)[g] /\ p # 0
  BY <1>1, <1>3
<1>5. i \in 0..c /\ i = LeftOf(t)[p] /\ up = ParentOf(t)[g]
  BY <1>1, <1>3, <1>4
<1>6. /\ p \in 1..c /\ t[p].parent = g /\ g # p /\ i # g /\ i # p /\ up # g /\ up # p
      /\ i # 0 => up # i
  <2>1. /\ p \in 1..c /\ ParentOf(t)[p] = g /\ g # p /\ i # g /\ i # p /\ up # g /\ up # p
        /\ i # 0 => up # i
    BY <1>2, <1>4, <1>5, Neighbours
  <2> QED
    BY <1>3, <1>4, <2>1
<1>7. \E o : /\ o = "right"
             /\ r = [n \in 0..c |->
                      CASE n = g -> [t[n] EXCEPT ![o] = i, !.parent = p]
                        [] n = p -> [t[n] EXCEPT !["left"] = g, !.parent = up]
                        [] n = i /\ n # 0 -> [t[n] EXCEPT !.parent = g]
                        [] n = up -> [t[n] EXCEPT ![Side(t, g)] = p]
                        [] OTHER -> t[n]]
  <2> DEFINE R(o, d) == r = [n \in d |->
                 CASE n = g -> [t[n] EXCEPT ![o] = i, !.parent = p]
                   [] n = p -> [t[n] EXCEPT !["left"] = g, !.parent = up]
                   [] n = i /\ n # 0 -> [t[n] EXCEPT !.parent = g]
                   [] n = up -> [t[n] EXCEPT ![Side(t, g)] = p]
                   [] OTHER -> t[n]]
  <2>1. Other("left") = "right"
    BY DEF Other
  <2>2. r = [n \in DOMAIN t |->
               CASE n = g -> [t[n] EXCEPT ![Other("left")] = t[t[g][Other("left")]]["left"],
                                          !.parent = t[g][Other("left")]]
                 [] n = t[g][Other("left")] -> [t[n] EXCEPT !["left"] = g, !.parent = t[g].parent]
                 [] n = t[t[g][Other("left")]]["left"] /\ n # 0 -> [t[n] EXCEPT !.parent = g]
                 [] n = t[g].parent -> [t[n] EXCEPT ![Side(t, g)] = t[g][Other("left")]]
                 [] OTHER -> t[n]]
    BY Zenon DEF Rotated
  <2>3. t[g][Other("left")] = p /\ t[p]["left"] = i /\ t[g].parent = up
    BY <2>1
  <2> HIDE DEF i, p, up
  <2>4. R(Other("left"), DOMAIN t)
    BY <2>2, <2>3, Zenon
  <2>5. ASSUME NEW o, NEW d, R(o, d) PROVE d = 0..c => R(o, 0..c)
    BY <2>5, Zenon
  <2>6. R(Other("left"), 0..c)
    <3> HIDE DEF R
    <3> QED
      BY <1>1, <2>4, <2>5
  <2> QED
    BY <2>1, <2>6, Zenon
<1>8. /\ r[g] = [t[g] EXCEPT !["right"] = i, !.parent = p]
      /\ r[p] = [t[p] EXCEPT !["left"] = g, !.parent = up]
      /\ i # 0 => r[i] = [t[i] EXCEPT !.parent = g]
      /\ r[up] = [t[up] EXCEPT ![Side(t, g)] = p]
      /\ \A n \in 0..c : n \notin {g, p, up} /\ (n # i \/ n = 0) => r[n] = t[n]
      /\ r = [n \in 0..c |-> r[n]]
  <2> HIDE DEF i, p, up
  <2>0. PICK o : /\ o = "right"
                 /\ r = [n \in 0..c |->
                      CASE n = g -> [t[n] EXCEPT ![o] = i, !.parent = p]
                        [] n = p -> [t[n] EXCEPT !["left"] = g, !.parent = up]
                        [] n = i /\ n # 0 -> [t[n] EXCEPT !.parent = g]
                        [] n = up -> [t[n] EXCEPT ![Side(t, g)] = p]
                        [] OTHER -> t[n]]
    BY <1>7
  <2>1. r[g] = [t[g] EXCEPT !["right"] = i, !.parent = p]
    <3>1. r[g] = [t[g] EXCEPT ![o] = i, !.parent = p]
      BY <1>1, <1>6, <2>0
    <3> QED
      BY <2>0, <3>1
  <2>2. r[p] = [t[p] EXCEPT !["left"] = g, !.parent = up]
    BY <1>4, <1>6, <2>0
  <2>3. i # 0 => r[i] = [t[i] EXCEPT !.parent = g]
    BY <1>5, <1>6, <2>0
  <2>4. r[up] = [t[up] EXCEPT ![Side(t, g)] = p]
    BY <1>4, <1>6, <2>0
  <2>5. \A n \in 0..c : n \notin {g, p, up} /\ (n # i \/ n = 0) => r[n] = t[n]
    BY <2>0
  <2>6. r = [n \in 0..c |-> r[n]]
    BY <2>0
  <2> QED
    BY <2>1, <2>2, <2>3, <2>4, <2>5, <2>6
<1>9. \A n \in 0..c : t[n] \in NodeEntries(c)
  BY <1>2
<1>10. /\ r[g].left = t[g].left /\ r[g].right = i /\ r[g].parent = p /\ r[g].red = t[g].red
       /\ r[p].left = g /\ r[p].right = t[p].right /\ r[p].parent = up /\ r[p].red = t[p].red
       /\ i # 0 => /\ r[i].left = t[i].left /\ r[i].right = t[i].right /\ r[i].parent = g
                   /\ r[i].red = t[i].red
  <2> HIDE DEF i, p, up
  <2>1. t[g] \in NodeEntries(c) /\ t[p] \in NodeEntries(c) /\ t[i] \in NodeEntries(c)
    BY <1>1, <1>4, <1>5, <1>9
  <2> QED
    BY <1>8, <2>1 DEF NodeEntries
<1>11. /\ r[up].parent = t[up].parent /\ r[up].red = t[up].red
       /\ r[up].left = IF t[up].left = g THEN p ELSE t[up].left
       /\ r[up].right = IF t[up].right = g THEN p ELSE t[up].right
  <2>1. t[up] \in NodeEntries(c) /\ (t[up].left = g \/ t[up].right = g)
        /\ (t[up].left = g => t[up].right # g)
    <3>1. t[up] \in NodeEntries(c)
      BY <1>1, <1>4, <1>9
    <3>2. t[up].left = g \/ t[up].right = g
      BY <1>1, <1>4
    <3>3. t[up].left = g => t[up].right # g
      BY <1>1, <1>4
    <3> QED
      BY <3>1, <3>2, <3>3
  <2> HIDE DEF i, p
  <2>2. Side(t, g) = IF t[up].left = g THEN "left" ELSE "right"
    BY DEF Side
  <2> HIDE DEF up
  <2>3. CASE t[up].left = g
    BY <1>8, <2>1, <2>2, <2>3 DEF NodeEntries
  <2>4. CASE t[up].left # g
    BY <1>8, <2>1, <2>2, <2>4 DEF NodeEntries
  <2> QED
    BY <2>3, <2>4
<1>12. TurnedLeft(t, r, c, g)
  <2> SUFFICES ASSUME NEW n \in 0..c
               PROVE  /\ r[n].red = t[n].red
                      /\ r[n].left = IF n = p THEN g ELSE IF n = up /\ t[n].left = g THEN p
                                     ELSE t[n].left
                      /\ r[n].right = IF n = g THEN i ELSE IF n = up /\ t[n].right = g THEN p
                                      ELSE t[n].right
                      /\ r[n].parent = IF n = g THEN p ELSE IF n = p THEN up
                                       ELSE IF n = i /\ n # 0 THEN g ELSE t[n].parent
    BY DEF TurnedLeft
  <2> HIDE DEF i, p, up
  <2>1. CASE n = g
    BY <1>6, <1>10, <2>1
  <2>2. CASE n = p
    BY <1>6, <1>10, <2>2
  <2>3. CASE n = i /\ n # 0
    BY <1>6, <1>10, <2>3
  <2>4. CASE n = up
    BY <1>6, <1>11, <2>4
  <2>5. CASE n \notin {g, p, up} /\ (n # i \/ n = 0)
    <3>1. r[n] = t[n]
      BY <1>8, <2>5
    <3> QED
      BY <2>5, <3>1
  <2> QED
    BY <2>1, <2>2, <2>3, <2>4, <2>5
<1>13. r \in [0..c -> NodeEntries(c)]
  <2>1. p \in 0..c /\ i \in 0..c /\ up \in 0..c /\ g \in 0..c
    BY <1>1, <1>4, <1>5
  <2> HIDE DEF i, p, up
  <2>2. t[g] \in NodeEntries(c) /\ t[p] \in NodeEntries(c) /\ t[up] \in NodeEntries(c)
        /\ t[i] \in NodeEntries(c)
    BY <1>9, <2>1
  <2>3. r[g] \in NodeEntries(c) /\ r[p] \in NodeEntries(c)
    BY <1>8, <2>1, <2>2 DEF NodeEntries
  <2>4. i # 0 => r[i] \in NodeEntries(c)
    BY <1>8, <2>1, <2>2 DEF NodeEntries
  <2>5. r[up] \in NodeEntries(c)
    <3>1. Side(t, g) \in {"left", "right"}
      BY DEF Side
    <3>2. CASE Side(t, g) = "left"
      BY <1>8, <2>1, <2>2, <3>2 DEF NodeEntries
    <3>3. CASE Side(t, g) = "right"
      BY <1>8, <2>1, <2>2, <3>3 DEF NodeEntries
    <3> QED
      BY <3>1, <3>2, <3>3
  <2>6. \A n \in 0..c : r[n] \in NodeEntries(c)
    BY <1>8, <1>9, <2>3, <2>4, <2>5
  <2>7. r = [n \in 0..c |-> r[n]]
    BY <1>8
  <2> QED
    BY <2>6, <2>7
<1>14. Turned(c, LeftOf(t), RightOf(t), ParentOf(t), g, p, LeftOf(r), RightOf(r), ParentOf(r))
  <2>1. DOMAIN r = 0..c
    BY <1>13
  <2> HIDE DEF i, p, up
  <2>2. \A n \in 0..c :
          /\ r[n].left = IF n = p THEN g ELSE IF n = up /\ t[n].left = g THEN p ELSE t[n].left
          /\ r[n].right = IF n = g THEN i ELSE IF n = up /\ t[n].right = g THEN p ELSE t[n].right
          /\ r[n].parent = IF n = g THEN p ELSE IF n = p THEN up
                           ELSE IF n = i /\ n # 0 THEN g ELSE t[n].parent
    BY <1>12 DEF TurnedLeft, i, p, up
  <2>3. LeftOf(r) = [n \in 0..c |-> IF n = p THEN g
                                    ELSE IF n = ParentOf(t)[g] /\ LeftOf(t)[n] = g THEN p
                                    ELSE LeftOf(t)[n]]
    <3>1. LeftOf(r) = [n \in 0..c |-> r[n].left]
      BY <2>1 DEF LeftOf
    <3>2. \A n \in 0..c : r[n].left = IF n = p THEN g
                                      ELSE IF n = ParentOf(t)[g] /\ LeftOf(t)[n] = g THEN p
                                      ELSE LeftOf(t)[n]
      BY <1>3, <1>5, <2>2
    <3> QED
      BY <3>1, <3>2
  <2>4. RightOf(r) = [n \in 0..c |-> IF n = g THEN LeftOf(t)[p]
                                     ELSE IF n = ParentOf(t)[g] /\ RightOf(t)[n] = g THEN p
                                     ELSE RightOf(t)[n]]
    BY <1>3, <1>5, <2>1, <2>2 DEF RightOf
  <2>5. ParentOf(r) = [n \in 0..c |-> IF n = g THEN p ELSE IF n = p THEN ParentOf(t)[g]
                                      ELSE IF n = LeftOf(t)[p] /\ n # 0 THEN g
                                      ELSE ParentOf(t)[n]]
    BY <1>3, <1>5, <2>1, <2>2 DEF ParentOf
  <2> QED
    BY <2>3, <2>4, <2>5 DEF Turned
<1>15. \E v : Tree(c, Less, LeftOf(r), RightOf(r), ParentOf(r), v)
  BY <1>2, <1>4, <1>14, RotationKeepsTree
<1> QED
  BY <1>12, <1>13, <1>15 DEF SearchTree

-----------------------------------------------------------------------------
(* The right edge of the tree, and a new node on its way up.               *)

\* v is the child of u on the right edge, which begins at the left of the header.
Below(t, u, v) == /\ IF u = 0 THEN t[0].left = v ELSE t[u].right = v
                  /\ v # 0 => t[v].parent = u

\* The nodes of a level and their colours, in a tree of n nodes.
LevelOf(t, n, h) ==
  Halves(n, h) >= 3 =>
    /\ Below(t, Upper(n, h), Lower(n, h))
    /\ t[Lower(n, h)].red <=> Halves(n, h) >= 4
    /\ ~t[t[Lower(n, h)].left].red
    /\ Halves(n, h) >= 4 => /\ ~t[Upper(n, h)].red
                            /\ t[t[Upper(n, h)].left].red <=> Odd(n, h)

\* What comes below a level.
LinkTo(t, n, h) ==
  Halves(n, h) >= 2 => Below(t, Lower(n, h), IF h = 0 THEN 0 ELSE Upper(n, h - 1))

Spine(t, n) == /\ ~t[0].red
               /\ \A h \in Levels : LevelOf(t, n, h) /\ LinkTo(t, n, h)

\* On its way up a new node has got to level i as the red node s.node.
Growing(s, n, i) ==
  /\ i \in Levels /\ Carries(n, i) /\ Halves(n, i) >= 2
  /\ s.node = Incoming(n, i)
  /\ ~s.tree[0].red
  /\ \A h \in Levels : h < i => LevelOf(s.tree, n + 1, h) /\ LinkTo(s.tree, n + 1, h)
  /\ \A h \in Levels : h >= i => LevelOf(s.tree, n, h)
  /\ \A h \in Levels : h > i => LinkTo(s.tree, n, h)
  /\ Below(s.tree, Lower(n, i), s.node)
  /\ Below(s.tree, s.node, IF i = 0 THEN 0 ELSE Upper(n + 1, i - 1))
  /\ s.tree[s.node].red /\ ~s.tree[s.tree[s.node].left].red

Blackened(t) == [t EXCEPT ![t[0].left].red = FALSE]

\* There is nothing to do any more but to make the root black.
Finished(s, n) == /\ Rebalanced(s) = s
                  /\ \E v : SearchTree(Blackened(s.tree), n + 1, v)
                  /\ Spine(Blackened(s.tree), n + 1)

\* t2 has the node s as t has it but for what is on its right, and a left child of the
\* same colour.
LooksAs(t, t2, s) ==
  /\ t2[s].left = t[s].left
  /\ s # 0 => /\ t2[s].parent = t[s].parent
              /\ t2[s].red <=> t[s].red
              /\ t2[t2[s].left].red <=> t[t[s].left].red

Alike(t, t2, s) == LooksAs(t, t2, s) /\ t2[s].right = t[s].right

\* A level stays when its nodes stay.
LEMMA AlikeLevels ==
  ASSUME NEW n \in 0..Size, NEW h \in Levels, NEW t, NEW t2,
         Halves(n, h) >= 3 => LooksAs(t, t2, Lower(n, h)) /\ Alike(t, t2, Upper(n, h)),
         LevelOf(t, n, h)
  PROVE  LevelOf(t2, n, h)
<1> SUFFICES ASSUME Halves(n, h) >= 3
             PROVE  LevelOf(t2, n, h)
  BY DEF LevelOf
<1>1. /\ LooksAs(t, t2, Lower(n, h)) /\ Alike(t, t2, Upper(n, h))
      /\ Lower(n, h) # 0 /\ Halves(n, h) \in Nat
      /\ Halves(n, h) >= 4 => Upper(n, h) # 0
  <2>1. /\ Halves(n, h) \in Nat /\ Lower(n, h) \in Int /\ Upper(n, h) \in Int
        /\ Lower(n, h) > 0 /\ (Halves(n, h) >= 4 => Upper(n, h) > 0)
    BY LevelNumbers
  <2> QED
    BY <2>1
<1> QED
  BY <1>1 DEF LevelOf, Below, Alike, LooksAs

\* A link of the edge stays when its nodes stay.
LEMMA AlikeLinks ==
  ASSUME NEW t, NEW t2, NEW u, NEW v, Alike(t, t2, u), v # 0 => LooksAs(t, t2, v),
         Below(t, u, v)
  PROVE  Below(t2, u, v)
BY DEF Below, Alike, LooksAs

\* The higher the level, the smaller the numbers.
LEMMA HalvesFall ==
  ASSUME NEW n \in 0..Size
  PROVE  /\ \A h \in 0..7 : 2 * Halves(n, h + 1) <= Halves(n, h)
         /\ \A g, h \in Levels : g < h => 2 * Halves(n, h) <= Halves(n, g)
<1>1. \A h \in Levels : Halves(n, h) \in Nat
  BY LevelNumbers
<1>2. \A h \in 0..7 : 2 * Halves(n, h + 1) <= Halves(n, h)
  <2> TAKE h \in 0..7
  <2>1. h \in Levels /\ h + 1 \in Levels
    BY NextLevel
  <2>2. Halves(n, h) = 2 * Halves(n, h + 1) + 1 \/ Halves(n, h) = 2 * Halves(n, h + 1)
    BY NextLevel DEF Odd
  <2> QED
    BY <1>1, <2>1, <2>2
<1>3. /\ 2 * Halves(n, 1) <= Halves(n, 0) /\ 2 * Halves(n, 2) <= Halves(n, 1)
      /\ 2 * Halves(n, 3) <= Halves(n, 2) /\ 2 * Halves(n, 4) <= Halves(n, 3)
      /\ 2 * Halves(n, 5) <= Halves(n, 4) /\ 2 * Halves(n, 6) <= Halves(n, 5)
      /\ 2 * Halves(n, 7) <= Halves(n, 6) /\ 2 * Halves(n, 8) <= Halves(n, 7)
  BY <1>2
<1>4. \A h \in Levels : h \in {0, 1, 2, 3, 4, 5, 6, 7, 8}
  BY DEF Levels
<1>5. \A g, h \in Levels : g < h => 2 * Halves(n, h) <= Halves(n, g)
  <2> TAKE g, h \in Levels
  <2>1. /\ Halves(n, 0) \in Nat /\ Halves(n, 1) \in Nat /\ Halves(n, 2) \in Nat
        /\ Halves(n, 3) \in Nat /\ Halves(n, 4) \in Nat /\ Halves(n, 5) \in Nat
        /\ Halves(n, 6) \in Nat /\ Halves(n, 7) \in Nat /\ Halves(n, 8) \in Nat
    BY <1>1 DEF Levels
  <2>2. CASE g = 0
    BY <1>3, <1>4, <2>1, <2>2
  <2>3. CASE g = 1
    BY <1>3, <1>4, <2>1, <2>3
  <2>4. CASE g = 2
    BY <1>3, <1>4, <2>1, <2>4
  <2>5. CASE g = 3
    BY <1>3, <1>4, <2>1, <2>5
  <2>6. CASE g = 4
    BY <1>3, <1>4, <2>1, <2>6
  <2>7. CASE g = 5
    BY <1>3, <1>4, <2>1, <2>7
  <2>8. CASE g = 6
    BY <1>3, <1>4, <2>1, <2>8
  <2>9. CASE g = 7
    BY <1>3, <1>4, <2>1, <2>9
  <2>10. CASE g = 8
    BY <1>3, <1>4, <2>1, <2>10
  <2> QED
    BY <1>4, <2>2, <2>3, <2>4, <2>5, <2>6, <2>7, <2>8, <2>9, <2>10
<1> QED
  BY <1>2, <1>5

\* What is carried to a level was carried through those below it.
LEMMA CarriesBelow ==
  ASSUME NEW n \in 0..(Size - 1), NEW g \in Levels, NEW h \in Levels, g < h, Carries(n, h)
  PROVE  Carries(n, g)
<1>1. \A k \in 0..7 : Carries(n, k + 1) => Carries(n, k)
  BY CarryGoesOn
<1>2. /\ Carries(n, 1) => Carries(n, 0)
      /\ Carries(n, 2) => Carries(n, 1)
      /\ Carries(n, 3) => Carries(n, 2)
      /\ Carries(n, 4) => Carries(n, 3)
      /\ Carries(n, 5) => Carries(n, 4)
      /\ Carries(n, 6) => Carries(n, 5)
      /\ Carries(n, 7) => Carries(n, 6)
      /\ Carries(n, 8) => Carries(n, 7)
  BY <1>1
<1>3. g \in {0, 1, 2, 3, 4, 5, 6, 7, 8} /\ h \in {0, 1, 2, 3, 4, 5, 6, 7, 8}
  BY DEF Levels
<1> QED
  BY <1>2, <1>3

\* Where the nodes about level i are when a new node has got there, and the nodes of the
\* edge above and below them.
LEMMA EdgePlaces ==
  ASSUME NEW n \in 0..(Size - 1), NEW i \in Levels, Carries(n, i), Halves(n, i) >= 2
  PROVE  /\ i \in 0..7 /\ i + 1 \in Levels
         /\ n \in 0..Size /\ n + 1 \in 0..Size
         /\ Lower(n, i) \in 0..n /\ Incoming(n, i) \in 1..(n + 1) /\ Lower(n, i) < Incoming(n, i)
         /\ Halves(n, i) \in Nat
         /\ Halves(n, i) = 2 => Lower(n, i) = 0
         /\ Halves(n, i) >= 3 => /\ Lower(n, i) > 0 /\ Upper(n, i) \in 0..n
                                 /\ Upper(n, i) < Lower(n, i)
         /\ Halves(n, i) = 3 => Upper(n, i) = 0
         /\ Halves(n, i) >= 4 => /\ Upper(n, i) > 0 /\ Lower(n, i + 1) \in 0..n
                                 /\ Lower(n, i + 1) < Upper(n, i) /\ Halves(n, i + 1) >= 2
         /\ \A h \in Levels : h < i => /\ Incoming(n, i) < Upper(n + 1, h)
                                       /\ Incoming(n, i) < Lower(n + 1, h)
                                       /\ Upper(n + 1, h) \in 0..(n + 1)
                                       /\ Lower(n + 1, h) \in 0..(n + 1)
         /\ \A h \in Levels : h > i => /\ Lower(n, h) <= Lower(n, i + 1)
                                       /\ Upper(n, h) < Lower(n, i + 1)
         /\ \A h \in Levels : h > i + 1 => /\ Lower(n, h) < Lower(n, i + 1)
                                           /\ Upper(n, h - 1) < Lower(n, i + 1)
<1>1. /\ n \in 0..Size /\ n + 1 \in 0..Size /\ n \in Nat
  BY DEF Size
<1>2. i \in 0..7 /\ i + 1 \in Levels
  <2>1. i # 8
    BY <1>1, LevelNumbers
  <2> QED
    BY <2>1 DEF Levels
<1>3. /\ \A h \in Levels : /\ Halves(n, h) \in Nat /\ Lower(n, h) \in Int /\ Upper(n, h) \in Int
                           /\ Halves(n + 1, h) \in Nat
                           /\ Lower(n + 1, h) \in Int /\ Upper(n + 1, h) \in Int
                           /\ Upper(n, h) = Lower(n, h) - Weight(h)
                           /\ Upper(n + 1, h) = Lower(n + 1, h) - Weight(h)
                           /\ Lower(n, h) + 2 * Weight(h) <= n + 2
                           /\ Lower(n + 1, h) + 2 * Weight(h) <= n + 3
                           /\ Weight(h) \in Nat \ {0}
  BY <1>1, LevelNumbers, Weights
<1>4. /\ Halves(n, i) >= 3 => Lower(n, i) > 0 /\ Upper(n, i) >= 0
      /\ Halves(n, i) = 3 => Upper(n, i) = 0
      /\ Halves(n, i) >= 4 => Upper(n, i) > 0
      /\ Halves(n, i) = 2 => Lower(n, i) = 0
      /\ Incoming(n, i) = Lower(n, i) + Weight(i)
  BY <1>1, LevelNumbers DEF Incoming
<1>5. /\ Lower(n, i) \in 0..n /\ Incoming(n, i) \in 1..(n + 1) /\ Lower(n, i) < Incoming(n, i)
      /\ Halves(n, i) >= 3 => Upper(n, i) \in 0..n /\ Upper(n, i) < Lower(n, i)
  <2>1. /\ Halves(n, i) \in Nat /\ Lower(n, i) \in Int /\ Upper(n, i) \in Int
        /\ Upper(n, i) = Lower(n, i) - Weight(i)
        /\ Lower(n, i) + 2 * Weight(i) <= n + 2 /\ Weight(i) \in Nat \ {0}
    BY <1>3
  <2>2. Lower(n, i) >= 0
    <3>1. Halves(n, i) = 2 \/ Halves(n, i) >= 3
      BY <2>1
    <3> QED
      BY <1>4, <2>1, <3>1
  <2> QED
    BY <1>1, <1>4, <2>1, <2>2
<1>6. Halves(n, i) >= 4 => /\ Lower(n, i + 1) \in 0..n /\ Lower(n, i + 1) < Upper(n, i)
                           /\ Halves(n, i + 1) >= 2
  <2>1. Lower(n, i + 1) < Upper(n, i)
    BY <1>1, <1>2, LevelsDescend
  <2>2. Halves(n, i) >= 4 => Halves(n, i + 1) >= 2
    <3>1. Halves(n, i) = 2 * Halves(n, i + 1) + 1 \/ Halves(n, i) = 2 * Halves(n, i + 1)
      BY <1>1, <1>2, NextLevel DEF Odd
    <3> QED
      BY <1>2, <1>3, <3>1
  <2>3. Halves(n, i + 1) >= 2 => Lower(n, i + 1) >= 0
    <3>1. /\ Halves(n, i + 1) >= 3 => Lower(n, i + 1) > 0
          /\ Halves(n, i + 1) = 2 => Lower(n, i + 1) = 0
      BY <1>1, <1>2, LevelNumbers
    <3> QED
      BY <1>2, <1>3, <3>1
  <2> QED
    BY <1>1, <1>2, <1>3, <2>1, <2>2, <2>3
<1>7. ASSUME NEW h \in Levels, h < i
      PROVE  /\ Incoming(n, i) < Upper(n + 1, h) /\ Incoming(n, i) < Lower(n + 1, h)
             /\ Upper(n + 1, h) \in 0..(n + 1) /\ Lower(n + 1, h) \in 0..(n + 1)
  <2>1. Lower(n + 1, i) = Incoming(n, i)
    BY OneMore
  <2>2. Lower(n + 1, i) < Upper(n + 1, h)
    BY <1>1, <1>7, LevelsDescend
  <2> QED
    BY <1>1, <1>3, <1>5, <2>1, <2>2
<1>8. ASSUME NEW h \in Levels, h > i + 1
      PROVE  Lower(n, h) < Lower(n, i + 1) /\ Upper(n, h) < Lower(n, i + 1)
  <2>1. Lower(n, h) < Upper(n, i + 1)
    BY <1>1, <1>2, <1>8, LevelsDescend
  <2> QED
    BY <1>1, <1>2, <1>3, <2>1
<1>9. Upper(n, i + 1) < Lower(n, i + 1)
  BY <1>1, <1>2, <1>3
<1>10. \A h \in Levels : h > i => Lower(n, h) <= Lower(n, i + 1) /\ Upper(n, h) < Lower(n, i + 1)
  <2> TAKE h \in Levels
  <2>1. h > i => h = i + 1 \/ h > i + 1
    BY <1>2 DEF Levels
  <2> QED
    BY <1>2, <1>3, <1>8, <1>9, <2>1
<1>11. \A h \in Levels : h > i + 1 => /\ Lower(n, h) < Lower(n, i + 1)
                                      /\ Upper(n, h - 1) < Lower(n, i + 1)
  <2> TAKE h \in Levels
  <2>1. h > i + 1 => h - 1 \in Levels /\ h - 1 > i
    BY <1>2 DEF Levels
  <2> QED
    BY <1>8, <1>10, <2>1
<1> QED
  BY <1>1, <1>2, <1>3, <1>4, <1>5, <1>6, <1>7, <1>10, <1>11

\* The levels below one that a new node has got to stay when the nodes there stay.
LEMMA LowerLevelsKept ==
  ASSUME NEW n \in 0..(Size - 1), NEW i \in Levels, Carries(n, i), Halves(n, i) >= 2,
         NEW t, NEW t2, \A m \in 0..(n + 1) : m > Incoming(n, i) => Alike(t, t2, m),
         NEW h \in Levels, h < i, LevelOf(t, n + 1, h), LinkTo(t, n + 1, h)
  PROVE  LevelOf(t2, n + 1, h) /\ LinkTo(t2, n + 1, h)
<1>1. /\ Incoming(n, i) < Upper(n + 1, h) /\ Incoming(n, i) < Lower(n + 1, h)
      /\ Upper(n + 1, h) \in 0..(n + 1) /\ Lower(n + 1, h) \in 0..(n + 1)
      /\ n + 1 \in 0..Size
  BY EdgePlaces
<1>2. Alike(t, t2, Lower(n + 1, h)) /\ Alike(t, t2, Upper(n + 1, h))
  BY <1>1
<1>3. LevelOf(t2, n + 1, h)
  BY <1>1, <1>2, AlikeLevels DEF Alike
<1>4. h # 0 => Alike(t, t2, Upper(n + 1, h - 1))
  <2>1. h # 0 => h - 1 \in Levels /\ h - 1 < i
    BY DEF Levels
  <2>2. h # 0 => /\ Incoming(n, i) < Upper(n + 1, h - 1)
                 /\ Upper(n + 1, h - 1) \in 0..(n + 1)
    BY <2>1, EdgePlaces
  <2> QED
    BY <2>2
<1>5. LinkTo(t2, n + 1, h)
  <2>1. CASE h = 0
    BY <1>2, <2>1, AlikeLinks DEF LinkTo
  <2>2. CASE h # 0
    BY <1>2, <1>4, <2>2, AlikeLinks DEF LinkTo, Alike
  <2> QED
    BY <2>1, <2>2
<1> QED
  BY <1>3, <1>5

\* The levels above one that a new node has got to stay likewise.
LEMMA UpperLevelsKept ==
  ASSUME NEW n \in 0..(Size - 1), NEW i \in Levels, Carries(n, i), Halves(n, i) >= 2,
         NEW t, NEW t2, \A m \in 0..n : m < Lower(n, i + 1) => Alike(t, t2, m),
         Halves(n, i + 1) >= 3 => LooksAs(t, t2, Lower(n, i + 1)),
         NEW h \in Levels, h > i
  PROVE  /\ LevelOf(t, n, h) => LevelOf(t2, n, h)
         /\ h > i + 1 /\ LinkTo(t, n, h) => LinkTo(t2, n, h)
<1>1. /\ Lower(n, h) <= Lower(n, i + 1) /\ Upper(n, h) < Lower(n, i + 1)
      /\ h > i + 1 => /\ Lower(n, h) < Lower(n, i + 1)
                      /\ Upper(n, h - 1) < Lower(n, i + 1)
      /\ n \in 0..Size /\ i + 1 \in Levels
  BY EdgePlaces
<1>2. /\ Halves(n, h) \in Nat /\ Lower(n, h) \in Int /\ Upper(n, h) \in Int
      /\ Lower(n, h) <= n /\ Upper(n, h) <= n
      /\ Halves(n, h) >= 3 => Lower(n, h) > 0 /\ Upper(n, h) >= 0
      /\ Halves(n, h) = 2 => Lower(n, h) = 0
  <2>1. /\ Halves(n, h) \in Nat /\ Lower(n, h) \in Int /\ Upper(n, h) \in Int
        /\ Halves(n, h) >= 3 => Lower(n, h) > 0 /\ Upper(n, h) >= 0
        /\ Halves(n, h) = 2 => Lower(n, h) = 0
        /\ Upper(n, h) = Lower(n, h) - Weight(h)
        /\ Lower(n, h) + 2 * Weight(h) <= n + 2
    BY <1>1, LevelNumbers
  <2>2. Weight(h) \in Nat \ {0}
    BY Weights
  <2> QED
    BY <2>1, <2>2
<1>3. LevelOf(t, n, h) => LevelOf(t2, n, h)
  <2>1. ASSUME Halves(n, h) >= 3
        PROVE  LooksAs(t, t2, Lower(n, h)) /\ Alike(t, t2, Upper(n, h))
    <3>1. Upper(n, h) \in 0..n /\ Lower(n, h) \in 0..n
      BY <1>2, <2>1
    <3>2. Alike(t, t2, Upper(n, h))
      BY <1>1, <3>1
    <3>3. CASE h = i + 1
      BY <2>1, <3>2, <3>3
    <3>4. CASE h > i + 1
      BY <1>1, <3>1, <3>2, <3>4 DEF Alike
    <3> QED
      BY <3>3, <3>4 DEF Levels
  <2> QED
    BY <1>1, <2>1, AlikeLevels
<1>4. ASSUME h > i + 1, LinkTo(t, n, h)
      PROVE  LinkTo(t2, n, h)
  <2> SUFFICES ASSUME Halves(n, h) >= 2
               PROVE  LinkTo(t2, n, h)
    BY DEF LinkTo
  <2>1. h # 0 /\ h - 1 \in 0..7 /\ h - 1 \in Levels /\ (h - 1) + 1 = h
    BY <1>4 DEF Levels
  <2>2. Lower(n, h) \in 0..n /\ Upper(n, h - 1) \in 0..n
    <3>1. 2 * Halves(n, h) <= Halves(n, h - 1)
      BY <1>1, <2>1, HalvesFall
    <3>2. /\ Halves(n, h - 1) \in Nat /\ Upper(n, h - 1) \in Int
          /\ Halves(n, h - 1) >= 3 => Upper(n, h - 1) >= 0
      BY <1>1, <2>1, LevelNumbers
    <3>3. Upper(n, h - 1) < Lower(n, i + 1) /\ Lower(n, i + 1) <= n /\ Lower(n, i + 1) \in Int
      <4>1. /\ Lower(n, i + 1) + 2 * Weight(i + 1) <= n + 2 /\ Lower(n, i + 1) \in Int
            /\ Weight(i + 1) \in Nat \ {0}
        BY <1>1, LevelNumbers, Weights
      <4> QED
        BY <1>1, <1>4, <4>1
    <3>4. Halves(n, h - 1) >= 3
      BY <1>2, <3>1, <3>2
    <3>5. Lower(n, h) >= 0
      BY <1>2
    <3> QED
      BY <1>2, <3>2, <3>3, <3>4, <3>5
  <2>3. Alike(t, t2, Lower(n, h)) /\ Alike(t, t2, Upper(n, h - 1))
    BY <1>1, <1>4, <2>2
  <2> QED
    BY <1>4, <2>1, <2>3, AlikeLinks DEF LinkTo, Alike
<1> QED
  BY <1>3, <1>4

\* A node gets another colour.
PaintedAs(t, t2, c, x, b) ==
  /\ t2 \in [0..c -> NodeEntries(c)]
  /\ \A n \in 0..c : /\ t2[n].left = t[n].left /\ t2[n].right = t[n].right
                     /\ t2[n].parent = t[n].parent
                     /\ t2[n].red = IF n = x THEN b ELSE t[n].red

\* What EXCEPT does to the colour of a node.
LEMMA Painted ==
  ASSUME NEW c \in Nat, NEW t \in [0..c -> NodeEntries(c)], NEW x \in 0..c, NEW b \in BOOLEAN,
         NEW t2, t2 = [t EXCEPT ![x].red = b]
  PROVE  PaintedAs(t, t2, c, x, b)
<1>1. t2[x] = [t[x] EXCEPT !.red = b] /\ \A n \in 0..c : n # x => t2[n] = t[n]
  OBVIOUS
<1>2. t[x] \in NodeEntries(c)
  OBVIOUS
<1>3. /\ t2[x].left = t[x].left /\ t2[x].right = t[x].right /\ t2[x].parent = t[x].parent
      /\ t2[x].red = b /\ t2[x] \in NodeEntries(c)
  BY <1>1, <1>2 DEF NodeEntries
<1> QED
  BY <1>1, <1>3 DEF PaintedAs

\* What Growing says of the nodes about the new one.
NodesAbout(s, n, i) ==
  LET t == s.tree
      x == s.node
      p == Lower(n, i)
  IN  /\ Carries(n, i) /\ Halves(n, i) >= 2 /\ Halves(n, i) \in Nat
      /\ x = Incoming(n, i) /\ x \in 1..(n + 1)
      /\ t[x].parent = p /\ p \in 0..n
      /\ p # 0 => t[p].right = x
      /\ p = 0 => t[0].left = x
      /\ n + 1 \in Nat /\ t \in [0..(n + 1) -> NodeEntries(n + 1)]
      /\ ~t[0].red /\ t[x].red /\ ~t[t[x].left].red
      /\ Upper(n + 1, i) = p /\ Lower(n + 1, i) = x
      /\ Halves(n + 1, i) = Halves(n, i) + 1
      /\ LinkTo(t, n + 1, i)

\* Growing says what NodesAbout says.
LEMMA GrowingNodes ==
  ASSUME NEW n \in 0..(Size - 1), NEW i \in Levels, NEW s, Growing(s, n, i),
         NEW under, SearchTree(s.tree, n + 1, under)
  PROVE  NodesAbout(s, n, i)
<1>1. /\ Carries(n, i) /\ Halves(n, i) >= 2
      /\ s.node = Incoming(n, i)
      /\ Below(s.tree, Lower(n, i), s.node)
      /\ Below(s.tree, s.node, IF i = 0 THEN 0 ELSE Upper(n + 1, i - 1))
      /\ ~s.tree[0].red /\ s.tree[s.node].red /\ ~s.tree[s.tree[s.node].left].red
  BY DEF Growing
<1>2. Incoming(n, i) \in 1..(n + 1) /\ Lower(n, i) \in 0..n /\ Halves(n, i) \in Nat
  BY <1>1, EdgePlaces
<1>3. /\ Upper(n + 1, i) = Lower(n, i) /\ Lower(n + 1, i) = s.node
      /\ Halves(n + 1, i) = Halves(n, i) + 1
  BY <1>1, OneMore
<1>4. /\ s.tree[s.node].parent = Lower(n, i)
      /\ Lower(n, i) # 0 => s.tree[Lower(n, i)].right = s.node
      /\ Lower(n, i) = 0 => s.tree[0].left = s.node
  BY <1>1, <1>2 DEF Below
<1>5. LinkTo(s.tree, n + 1, i)
  BY <1>1, <1>3 DEF LinkTo
<1>6. n + 1 \in Nat /\ s.tree \in [0..(n + 1) -> NodeEntries(n + 1)]
  BY DEF SearchTree
<1> QED
  BY <1>1, <1>2, <1>3, <1>4, <1>5, <1>6 DEF NodesAbout

\* The new node has got to the root.
LEMMA RootReached ==
  ASSUME NEW n \in 0..(Size - 1), NEW i \in Levels, NEW s, Growing(s, n, i),
         NEW under, SearchTree(s.tree, n + 1, under), Halves(n, i) = 2
  PROVE  Finished(s, n)
<1> DEFINE t == s.tree
           x == s.node
           t2 == Blackened(t)
<1>1. /\ Carries(n, i) /\ Halves(n, i) >= 2
      /\ x = Incoming(n, i) /\ x \in 1..(n + 1)
      /\ n + 1 \in Nat /\ t \in [0..(n + 1) -> NodeEntries(n + 1)]
      /\ ~t[0].red /\ ~t[t[x].left].red
      /\ Upper(n + 1, i) = 0 /\ Lower(n + 1, i) = x /\ Halves(n + 1, i) = 3
      /\ t[0].left = x /\ t[x].parent = 0 /\ LinkTo(t, n + 1, i)
  <2>1. Lower(n, i) = 0
    BY LevelNumbers DEF Size
  <2>2. NodesAbout(s, n, i)
    BY GrowingNodes
  <2> HIDE DEF t, x, t2
  <2>3. NodesAbout(s, n, i) => NodesAbout([tree |-> t, node |-> x], n, i)
    BY DEF NodesAbout, t, x
  <2> QED
    BY <2>1, <2>2, <2>3 DEF NodesAbout
<1>2. /\ t2 \in [0..(n + 1) -> NodeEntries(n + 1)]
      /\ \A m \in 0..(n + 1) : /\ t2[m].left = t[m].left /\ t2[m].right = t[m].right
                               /\ t2[m].parent = t[m].parent
                               /\ t2[m].red = IF m = x THEN FALSE ELSE t[m].red
  <2>1. t2 = [t EXCEPT ![x].red = FALSE]
    BY <1>1 DEF Blackened
  <2>2. x \in 0..(n + 1)
    BY <1>1
  <2> HIDE DEF t2, t, x
  <2> QED
    <3>1. PaintedAs(t, t2, n + 1, x, FALSE)
      BY <1>1, <2>1, <2>2, Painted
    <3> QED
      BY <3>1 DEF PaintedAs
<1>3. SearchTree(t2, n + 1, under)
  <2>1. n + 1 \in Nat /\ SearchTree(t, n + 1, under)
    BY <1>1
  <2>2. /\ t2 \in [0..(n + 1) -> NodeEntries(n + 1)]
        /\ \A m \in 0..(n + 1) : /\ t2[m].left = t[m].left /\ t2[m].right = t[m].right
                                 /\ t2[m].parent = t[m].parent
    BY <1>2
  <2> HIDE DEF t2, t
  <2> QED
    BY <2>1, <2>2, ColoursDoNotMatter
<1>4. Rebalanced(s) = s
  BY <1>1 DEF Rebalanced
<1>5. /\ \A m \in 0..(n + 1) : /\ t[m].left \in 0..(n + 1)
                               /\ t[m].left # 0 => t[t[m].left].parent = m
      /\ 0 \in 0..(n + 1) /\ x \in 0..(n + 1)
  BY <1>1, InSearchTree
<1> HIDE DEF t2, t, x
<1>6. \A m \in 0..(n + 1) : m > Incoming(n, i) => Alike(t, t2, m)
  <2> SUFFICES ASSUME NEW m \in 0..(n + 1), m > x
               PROVE  Alike(t, t2, m)
    BY <1>1
  <2>1. m # x /\ m # 0
    BY <1>1
  <2>2. t[m].left # x
    BY <1>1, <1>5, <2>1
  <2> QED
    BY <1>2, <1>5, <2>1, <2>2 DEF Alike, LooksAs
<1>7. ASSUME NEW h \in Levels
      PROVE  LevelOf(t2, n + 1, h) /\ LinkTo(t2, n + 1, h)
  <2>1. CASE h < i
    <3>1. LevelOf(t, n + 1, h) /\ LinkTo(t, n + 1, h)
      BY <2>1 DEF Growing, t
    <3> QED
      BY <1>1, <1>6, <2>1, <3>1, LowerLevelsKept
  <2>2. CASE h = i
    <3>1. Below(t2, 0, x)
      BY <1>1, <1>2, <1>5 DEF Below
    <3>2. ~t2[x].red /\ ~t2[t2[x].left].red
      <4>1. t2[x].red = FALSE /\ t2[x].left = t[x].left
        BY <1>2, <1>5
      <4>2. t2[t[x].left].red = IF t[x].left = x THEN FALSE ELSE t[t[x].left].red
        BY <1>2, <1>5
      <4> QED
        BY <1>1, <4>1, <4>2
    <3>3. LevelOf(t2, n + 1, i)
      BY <1>1, <3>1, <3>2 DEF LevelOf
    <3>4. LinkTo(t2, n + 1, i)
      <4>1. i # 0 => Upper(n + 1, i - 1) \in 0..(n + 1)
        <5>1. i # 0 => i - 1 \in Levels /\ i - 1 < i
          BY DEF Levels
        <5> QED
          BY <1>1, <5>1, EdgePlaces
      <4>2. Below(t, x, IF i = 0 THEN 0 ELSE Upper(n + 1, i - 1))
        BY <1>1 DEF LinkTo
      <4>3. Below(t2, x, IF i = 0 THEN 0 ELSE Upper(n + 1, i - 1))
        BY <1>1, <1>2, <1>5, <4>1, <4>2 DEF Below
      <4> QED
        BY <1>1, <4>3 DEF LinkTo
    <3> QED
      BY <2>2, <3>3, <3>4
  <2>3. CASE h > i
    <3>1. 2 * Halves(n + 1, h) <= 3 /\ Halves(n + 1, h) \in Nat
      <4>1. n + 1 \in 0..Size
        BY DEF Size
      <4> QED
        BY <1>1, <2>3, <4>1, HalvesFall, LevelNumbers
    <3>2. ~(Halves(n + 1, h) >= 2)
      BY <3>1
    <3>3. ~(Halves(n + 1, h) >= 3)
      BY <3>1
    <3> QED
      BY <3>2, <3>3 DEF LevelOf, LinkTo
  <2> QED
    BY <2>1, <2>2, <2>3 DEF Levels
<1>8. ~t2[0].red
  BY <1>1, <1>2, <1>5
<1> QED
  BY <1>3, <1>4, <1>7, <1>8 DEF Finished, Spine, t, t2

\* The new node has got to the second level of a tree with a single node there.
LEMMA BelowRoot ==
  ASSUME NEW n \in 0..(Size - 1), NEW i \in Levels, NEW s, Growing(s, n, i),
         NEW under, SearchTree(s.tree, n + 1, under), Halves(n, i) = 3
  PROVE  Finished(s, n)
<1> DEFINE t == s.tree
           x == s.node
           p == Lower(n, i)
           t2 == Blackened(t)
<1>0. i \in 0..7 /\ n \in 0..Size /\ n + 1 \in 0..Size /\ i + 1 \in Levels
  BY EdgePlaces DEF Growing
<1>1. /\ Carries(n, i) /\ Halves(n, i) >= 2
      /\ x = Incoming(n, i) /\ x \in 1..(n + 1)
      /\ n + 1 \in Nat /\ t \in [0..(n + 1) -> NodeEntries(n + 1)]
      /\ ~t[0].red /\ t[x].red /\ ~t[t[x].left].red
      /\ Upper(n + 1, i) = p /\ Lower(n + 1, i) = x /\ Halves(n + 1, i) = 4
      /\ p \in 0..n /\ t[x].parent = p /\ LinkTo(t, n + 1, i)
      /\ p # 0 => t[p].right = x
  <2>1. NodesAbout(s, n, i)
    BY GrowingNodes
  <2> HIDE DEF t2
  <2> QED
    BY <2>1 DEF NodesAbout
<1>2. /\ p # 0 /\ Upper(n, i) = 0 /\ p \in 0..(n + 1)
      /\ t[0].left = p /\ t[p].parent = 0 /\ ~t[p].red /\ ~t[t[p].left].red
  <2>1. p > 0 /\ Upper(n, i) = 0
    BY <1>0, LevelNumbers
  <2>2. LevelOf(t, n, i)
    <3>1. \A h \in Levels : h >= i => LevelOf(s.tree, n, h)
      BY DEF Growing
    <3> QED
      BY <1>0, <3>1
  <2> HIDE DEF p
  <2>3. p \in 0..(n + 1)
    BY <1>1
  <2> QED
    BY <2>1, <2>2, <2>3 DEF LevelOf, Below, p
<1>3. /\ t2 \in [0..(n + 1) -> NodeEntries(n + 1)]
      /\ \A m \in 0..(n + 1) : /\ t2[m].left = t[m].left /\ t2[m].right = t[m].right
                               /\ t2[m].parent = t[m].parent
                               /\ t2[m].red = IF m = p THEN FALSE ELSE t[m].red
  <2>1. t2 = [t EXCEPT ![p].red = FALSE]
    BY <1>2 DEF Blackened
  <2> HIDE DEF t2, t, p
  <2> QED
    <3>1. PaintedAs(t, t2, n + 1, p, FALSE)
      BY <1>1, <1>2, <2>1, Painted
    <3> QED
      BY <3>1 DEF PaintedAs
<1>4. SearchTree(t2, n + 1, under)
  <2>1. n + 1 \in Nat /\ SearchTree(t, n + 1, under)
    BY <1>1
  <2> HIDE DEF t2, t
  <2> QED
    BY <2>1, <1>3, ColoursDoNotMatter
<1>5. Rebalanced(s) = s
  BY <1>1, <1>2 DEF Rebalanced
<1>6. /\ \A m \in 0..(n + 1) : t[m].left \in 0..(n + 1)
      /\ 0 \in 0..(n + 1) /\ x \in 0..(n + 1)
  BY <1>1, InSearchTree
<1> HIDE DEF t2, t, x, p
<1>7. \A m \in 0..(n + 1) : t2[m].red <=> t[m].red
  BY <1>2, <1>3
<1>8. \A m \in 0..(n + 1) : Alike(t, t2, m)
  BY <1>3, <1>6, <1>7 DEF Alike, LooksAs
<1>9. Halves(n + 1, i + 1) = 2 /\ ~Odd(n + 1, i) /\ Lower(n + 1, i + 1) = 0
  <2>1. Odd(n + 1, i) \/ Halves(n + 1, i) = 2 * Halves(n + 1, i + 1)
    BY <1>0, NextLevel
  <2>2. Halves(n + 1, i + 1) \in Nat
        /\ (Halves(n + 1, i + 1) = 2 => Lower(n + 1, i + 1) = 0)
    BY <1>0, LevelNumbers
  <2> QED
    BY <1>1, <2>1, <2>2 DEF Odd
<1>10. ASSUME NEW h \in Levels
       PROVE  LevelOf(t2, n + 1, h) /\ LinkTo(t2, n + 1, h)
  <2>1. CASE h < i
    <3>1. LevelOf(t, n + 1, h) /\ LinkTo(t, n + 1, h)
      BY <2>1 DEF Growing, t
    <3> QED
      BY <1>1, <1>8, <2>1, <3>1, LowerLevelsKept
  <2>2. CASE h = i
    <3>1. Below(t2, p, x)
      BY <1>1, <1>2, <1>3, <1>6 DEF Below
    <3>2. t2[x].red /\ ~t2[t2[x].left].red
      BY <1>1, <1>3, <1>6, <1>7
    <3>3. ~t2[p].red /\ ~t2[t2[p].left].red
      BY <1>2, <1>3, <1>6, <1>7
    <3>4. LevelOf(t2, n + 1, i)
      BY <1>1, <1>9, <3>1, <3>2, <3>3 DEF LevelOf
    <3>5. LinkTo(t2, n + 1, i)
      <4>1. i # 0 => Upper(n + 1, i - 1) \in 0..(n + 1)
        <5>1. i # 0 => i - 1 \in Levels /\ i - 1 < i
          BY DEF Levels
        <5> QED
          BY <1>1, <5>1, EdgePlaces
      <4>2. Below(t, x, IF i = 0 THEN 0 ELSE Upper(n + 1, i - 1))
        BY <1>1 DEF LinkTo
      <4>3. Below(t2, x, IF i = 0 THEN 0 ELSE Upper(n + 1, i - 1))
        BY <1>3, <1>6, <1>1, <4>1, <4>2 DEF Below
      <4> QED
        BY <1>1, <4>3 DEF LinkTo
    <3> QED
      BY <2>2, <3>4, <3>5
  <2>3. CASE h = i + 1
    <3>1. LevelOf(t2, n + 1, i + 1)
      BY <1>9 DEF LevelOf
    <3>2. Below(t2, 0, p)
      BY <1>2, <1>3, <1>6 DEF Below
    <3>3. i + 1 # 0 /\ (i + 1) - 1 = i
      BY <1>0
    <3>4. LinkTo(t2, n + 1, i + 1)
      BY <1>1, <1>9, <3>2, <3>3 DEF LinkTo
    <3> QED
      BY <2>3, <3>1, <3>4
  <2>4. CASE h > i + 1
    <3>1. 2 * Halves(n + 1, h) <= 2 /\ Halves(n + 1, h) \in Nat
      BY <1>0, <1>9, <2>4, HalvesFall, LevelNumbers
    <3>2. ~(Halves(n + 1, h) >= 2)
      BY <3>1
    <3>3. ~(Halves(n + 1, h) >= 3)
      BY <3>1
    <3> QED
      BY <3>2, <3>3 DEF LevelOf, LinkTo
  <2> QED
    BY <1>0, <2>1, <2>2, <2>3, <2>4 DEF Levels
<1>11. ~t2[0].red
  BY <1>1, <1>6, <1>7
<1> QED
  BY <1>4, <1>5, <1>10, <1>11 DEF Finished, Spine, t, t2

-----------------------------------------------------------------------------
(* The rounds of _Rb_tree_insert_and_rebalance on the right edge.          *)

\* A round for a red node that is a right child of a red right child.
RoundFor(s, t, x, p, g) ==
  /\ t[t[g].left].red =>
       Rebalanced(s) = [tree |-> [t EXCEPT ![p].red = FALSE, ![t[g].left].red = FALSE,
                                           ![g].red = TRUE],
                        node |-> g]
  /\ ~t[t[g].left].red =>
       Rebalanced(s) = [tree |-> Rotated([t EXCEPT ![p].red = FALSE, ![g].red = TRUE], g, "left"),
                        node |-> x]

\* On the right edge every round is such a one.
LEMMA RoundOnTheEdge ==
  ASSUME NEW s, NEW t, NEW x, NEW p, NEW g, t = s.tree, x = s.node,
         p = t[x].parent, g = t[p].parent, t[p].red, t[p].left # x, t[g].left # p,
         t[g].right = p
  PROVE  RoundFor(s, t, x, p, g)
<1>1. Side(t, p) = "right" /\ Side(t, x) = "right" /\ Other("right") = "left"
  BY DEF Side, Other
<1>2. t[g]["left"] = t[g].left /\ t[g]["right"] = p
  OBVIOUS
<1> DEFINE u == t[g].left
<1>3. Rebalanced(s) =
        IF ~t[p].red THEN s
        ELSE IF t[t[g][Other(Side(t, p))]].red
        THEN [tree |-> [t EXCEPT ![p].red = FALSE, ![t[g][Other(Side(t, p))]].red = FALSE,
                                 ![g].red = TRUE],
              node |-> g]
        ELSE [tree |-> Rotated([(IF Side(t, x) = Side(t, p) THEN t
                                 ELSE Rotated(t, p, Side(t, p)))
                                EXCEPT ![(IF Side(t, x) = Side(t, p) THEN t
                                          ELSE Rotated(t, p, Side(t, p)))[g][Side(t, p)]].red
                                         = FALSE,
                                       ![g].red = TRUE], g, Other(Side(t, p))),
              node |-> IF Side(t, x) = Side(t, p) THEN x ELSE p]
  BY Zenon DEF Rebalanced
<1>4. t[g][Other(Side(t, p))] = u
  BY <1>1
<1>5. (IF Side(t, x) = Side(t, p) THEN t ELSE Rotated(t, p, Side(t, p))) = t
  BY <1>1
<1>6. t[g][Side(t, p)] = p
  BY <1>1
<1>7. Other(Side(t, p)) = "left" /\ (IF Side(t, x) = Side(t, p) THEN x ELSE p) = x
  BY <1>1
<1> HIDE DEF u
<1>8. Rebalanced(s) =
        IF t[u].red
        THEN [tree |-> [t EXCEPT ![p].red = FALSE, ![u].red = FALSE, ![g].red = TRUE],
              node |-> g]
        ELSE [tree |-> Rotated([t EXCEPT ![p].red = FALSE, ![g].red = TRUE], g, "left"),
              node |-> x]
  BY <1>3, <1>4, <1>5, <1>6, <1>7
<1> QED
  BY <1>8 DEF u, RoundFor

\* What is about a new node with a red parent.
RedParent(s, n, i) ==
  LET t  == s.tree
      x  == s.node
      p  == Lower(n, i)
      g  == Upper(n, i)
      up == Lower(n, i + 1)
      k  == n + 1
  IN  /\ i \in 0..7 /\ i + 1 \in Levels /\ n \in 0..Size /\ k \in 0..Size /\ k \in Nat
      /\ x \in 0..k /\ p \in 0..k /\ g \in 0..k /\ up \in 0..k /\ 0 \in 0..k
      /\ up < g /\ g < p /\ p < x /\ g > 0
      /\ t[x].parent = p /\ t[p].parent = g /\ t[g].parent = up
      /\ t[p].right = x /\ t[g].right = p
      /\ t[p].left # x /\ t[g].left # p
      /\ IF up = 0 THEN t[0].left = g ELSE t[up].right = g
      /\ up # 0 => t[up].left # g
      /\ t[p].red /\ ~t[g].red /\ ~t[t[p].left].red /\ (t[t[g].left].red <=> Odd(n, i))
      /\ t[p].left # 0 => g < t[p].left /\ t[p].left < p
      /\ t[g].left # 0 => up < t[g].left /\ t[g].left < g
      /\ \A m \in 0..k : /\ t[m].left \in 0..k /\ t[m].right \in 0..k /\ t[m].parent \in 0..k
                         /\ t[m].left # 0 => t[t[m].left].parent = m
                         /\ t[m].right # 0 => t[t[m].right].parent = m

\* Growing says what RedParent says.
LEMMA RedParentNodes ==
  ASSUME NEW n \in 0..(Size - 1), NEW i \in Levels, NEW s, Growing(s, n, i),
         NEW under, SearchTree(s.tree, n + 1, under), Halves(n, i) >= 4
  PROVE  RedParent(s, n, i)
<1> DEFINE t == s.tree
           x == s.node
           p == Lower(n, i)
           g == Upper(n, i)
           up == Lower(n, i + 1)
           k == n + 1
<1>1. NodesAbout(s, n, i)
  BY GrowingNodes
<1>2. /\ i \in 0..7 /\ i + 1 \in Levels /\ n \in 0..Size /\ k \in 0..Size
      /\ p \in 0..n /\ x \in 1..k /\ p < x /\ p > 0 /\ g \in 0..n /\ g < p /\ g > 0
      /\ up \in 0..n /\ up < g /\ Halves(n, i + 1) >= 2 /\ Halves(n, i) \in Nat
  <2>1. Carries(n, i) /\ Halves(n, i) >= 2 /\ x = Incoming(n, i) /\ Halves(n, i) >= 3
    BY <1>1 DEF NodesAbout
  <2> QED
    BY <2>1, EdgePlaces
<1>3. k \in Nat /\ x \in 0..k /\ p \in 0..k /\ g \in 0..k /\ up \in 0..k /\ 0 \in 0..k
      /\ p \in 1..k /\ g \in 1..k /\ (up # 0 => up \in 1..k)
  <2> HIDE DEF p, g, x, up
  <2> QED
    BY <1>2
<1>4. t[x].parent = p /\ t[p].right = x
  <2> HIDE DEF p
  <2> QED
    BY <1>1, <1>2 DEF NodesAbout, p
<1>5. LevelOf(t, n, i) /\ LinkTo(t, n, i + 1)
  <2>1. /\ \A h \in Levels : h >= i => LevelOf(t, n, h)
        /\ \A h \in Levels : h > i => LinkTo(t, n, h)
    BY DEF Growing
  <2>2. i + 1 > i /\ i >= i
    BY <1>2
  <2> QED
    BY <1>2, <2>1, <2>2
<1>6. /\ t[g].right = p /\ t[p].parent = g
      /\ t[p].red /\ ~t[t[p].left].red /\ ~t[g].red /\ (t[t[g].left].red <=> Odd(n, i))
  <2>1. Halves(n, i) >= 3
    BY <1>2
  <2> HIDE DEF t, p, g
  <2>2. Below(t, g, p)
    BY <1>5, <2>1 DEF LevelOf, p, g
  <2> QED
    BY <1>2, <1>5, <2>1, <2>2 DEF LevelOf, Below, p, g
<1>7. (IF up = 0 THEN t[0].left = g ELSE t[up].right = g) /\ t[g].parent = up
  <2>1. i + 1 # 0 /\ (i + 1) - 1 = i
    BY <1>2
  <2>2. Below(t, up, g)
    BY <1>2, <1>5, <2>1 DEF LinkTo
  <2> HIDE DEF t, up, g
  <2> QED
    BY <1>2, <2>2 DEF Below
<1> HIDE DEF t, x, p, g, up, k
<1>8. SearchTree(t, k, under)
  BY DEF t, k
<1>9. /\ \A m \in 0..k : /\ t[m].left \in 0..k /\ t[m].right \in 0..k /\ t[m].parent \in 0..k
                         /\ t[m].left # 0 => t[t[m].left].parent = m
                         /\ t[m].right # 0 => t[t[m].right].parent = m
                         /\ t[m].left # 0 => t[m].left # t[m].right
      /\ under \in [0..k -> SUBSET (1..k)]
      /\ \A m \in 1..k : /\ under[m] = {m} \cup under[t[m].left] \cup under[t[m].right]
                         /\ \A l \in under[t[m].left] : l < m
                         /\ \A l \in under[t[m].right] : m < l
  <2>1. k \in Nat
    BY <1>3
  <2> QED
    BY <1>8, <2>1, InSearchTree
<1>10. t[p].left # x /\ t[g].left # p /\ (up # 0 => t[up].left # g)
  <2>1. t[p].left # x
    BY <1>2, <1>3, <1>4, <1>9
  <2>2. t[g].left # p
    BY <1>2, <1>3, <1>6, <1>9
  <2>3. up # 0 => t[up].left # g
    BY <1>2, <1>3, <1>7, <1>9
  <2> QED
    BY <2>1, <2>2, <2>3
<1>11. t[p].left # 0 => g < t[p].left /\ t[p].left < p
  <2> SUFFICES ASSUME t[p].left # 0
               PROVE  g < t[p].left /\ t[p].left < p
    OBVIOUS
  <2>1. t[p].left \in 1..k
    BY <1>3, <1>9
  <2>2. t[p].left \in under[t[p].left]
    BY <1>9, <2>1
  <2>3. t[p].left < p
    BY <1>3, <1>9, <2>2
  <2>4. t[p].left \in under[p]
    BY <1>3, <1>9, <2>2
  <2> QED
    BY <1>3, <1>6, <1>9, <2>3, <2>4
<1>12. t[g].left # 0 => up < t[g].left /\ t[g].left < g
  <2> SUFFICES ASSUME t[g].left # 0
               PROVE  up < t[g].left /\ t[g].left < g
    OBVIOUS
  <2>1. t[g].left \in 1..k
    BY <1>3, <1>9
  <2>2. t[g].left \in under[t[g].left]
    BY <1>9, <2>1
  <2>3. t[g].left < g
    BY <1>3, <1>9, <2>2
  <2>4. t[g].left \in under[g]
    BY <1>3, <1>9, <2>2
  <2>5. up < t[g].left
    <3>1. CASE up = 0
      BY <2>1, <3>1
    <3>2. CASE up # 0
      BY <1>3, <1>7, <1>9, <2>4, <3>2
    <3> QED
      BY <3>1, <3>2
  <2> QED
    BY <2>3, <2>5
<1> QED
  BY <1>2, <1>3, <1>4, <1>6, <1>7, <1>9, <1>10, <1>11, <1>12
     DEF RedParent, t, x, p, g, up, k

\* The root is at the top level, and it is black.
LEMMA RootIs ==
  ASSUME NEW n \in 1..Size, NEW t, Spine(t, n)
  PROVE  /\ ~t[t[0].left].red
         /\ \E h \in 0..7 : \/ Halves(n, h) = 3 /\ t[0].left = Lower(n, h)
                            \/ Halves(n, h) \in 4..5 /\ t[0].left = Upper(n, h)
<1>1. PICK h \in 0..7 : Halves(n, h) \in 3..5
  BY TopLevel
<1>2. h \in Levels /\ h + 1 \in Levels /\ n \in 0..Size /\ h + 1 # 0 /\ (h + 1) - 1 = h
  <2>1. n \in 0..Size
    BY DEF Size
  <2> QED
    BY <2>1, NextLevel
<1>3. LevelOf(t, n, h) /\ LinkTo(t, n, h + 1)
  BY <1>2 DEF Spine
<1>4. CASE Halves(n, h) = 3
  <2>1. Upper(n, h) = 0
    BY <1>2, <1>4, LevelNumbers
  <2>2. t[0].left = Lower(n, h) /\ ~t[Lower(n, h)].red
    BY <1>3, <1>4, <2>1 DEF LevelOf, Below
  <2> QED
    BY <1>4, <2>2
<1>5. CASE Halves(n, h) \in 4..5
  <2>1. Halves(n, h + 1) = 2
    <3>1. Halves(n, h + 1) \in Nat
      BY <1>2, LevelNumbers
    <3>2. Halves(n, h) = 2 * Halves(n, h + 1) + 1 \/ Halves(n, h) = 2 * Halves(n, h + 1)
      BY <1>2, NextLevel DEF Odd
    <3> QED
      BY <1>5, <3>1, <3>2
  <2>2. Lower(n, h + 1) = 0
    BY <1>2, <2>1, LevelNumbers
  <2>3. t[0].left = Upper(n, h)
    BY <1>2, <1>3, <2>1, <2>2 DEF LinkTo, Below
  <2>4. Halves(n, h) >= 3 /\ Halves(n, h) >= 4
    BY <1>5
  <2>5. ~t[Upper(n, h)].red
    BY <1>3, <2>4 DEF LevelOf
  <2> QED
    BY <1>5, <2>3, <2>5
<1> QED
  BY <1>1, <1>4, <1>5

\* t2 is t with p and u black and g red.
PaintedThrice(t, t2, c, p, u, g) ==
  /\ t2 \in [0..c -> NodeEntries(c)]
  /\ \A m \in 0..c : /\ t2[m].left = t[m].left /\ t2[m].right = t[m].right
                     /\ t2[m].parent = t[m].parent
                     /\ t2[m].red = IF m = g THEN TRUE
                                    ELSE IF m = p \/ m = u THEN FALSE ELSE t[m].red

\* A red aunt takes the colour of the parent, and the grandparent goes on.
LEMMA OddLevel ==
  ASSUME NEW n \in 0..(Size - 1), NEW i \in Levels, NEW s, Growing(s, n, i),
         NEW under, SearchTree(s.tree, n + 1, under), Halves(n, i) >= 4, Odd(n, i)
  PROVE  /\ \E v : SearchTree(Rebalanced(s).tree, n + 1, v)
         /\ Growing(Rebalanced(s), n, i + 1)
<1> DEFINE t == s.tree
           x == s.node
           p == Lower(n, i)
           g == Upper(n, i)
           up == Lower(n, i + 1)
           k == n + 1
           u == t[g].left
           t2 == [t EXCEPT ![p].red = FALSE, ![u].red = FALSE, ![g].red = TRUE]
<1>1. RedParent(s, n, i) /\ NodesAbout(s, n, i)
  BY RedParentNodes, GrowingNodes
<1>2. /\ i \in 0..7 /\ i + 1 \in Levels /\ n \in 0..Size /\ k \in 0..Size /\ k \in Nat
      /\ x \in 0..k /\ p \in 0..k /\ g \in 0..k /\ up \in 0..k /\ 0 \in 0..k
      /\ up < g /\ g < p /\ p < x /\ g > 0
      /\ t[x].parent = p /\ t[p].parent = g /\ t[g].parent = up
      /\ t[p].right = x /\ t[g].right = p
      /\ t[p].left # x /\ t[g].left # p
      /\ IF up = 0 THEN t[0].left = g ELSE t[up].right = g
      /\ up # 0 => t[up].left # g
      /\ t[p].red /\ ~t[g].red /\ ~t[t[p].left].red /\ t[t[g].left].red
      /\ t[g].left # 0 => up < t[g].left /\ t[g].left < g
  BY <1>1 DEF RedParent
<1>3. \A m \in 0..k : /\ t[m].left \in 0..k /\ t[m].right \in 0..k /\ t[m].parent \in 0..k
                      /\ t[m].left # 0 => t[t[m].left].parent = m
                      /\ t[m].right # 0 => t[t[m].right].parent = m
  BY <1>1 DEF RedParent
<1>4. /\ Carries(n, i) /\ Halves(n, i) >= 2 /\ Halves(n, i) \in Nat /\ x = Incoming(n, i)
      /\ t \in [0..k -> NodeEntries(k)]
      /\ ~t[0].red /\ t[x].red /\ ~t[t[x].left].red
      /\ Upper(n + 1, i) = p /\ Lower(n + 1, i) = x /\ Halves(n + 1, i) = Halves(n, i) + 1
      /\ LinkTo(t, n + 1, i)
  BY <1>1 DEF NodesAbout
<1>5. Rebalanced(s) = [tree |-> t2, node |-> g]
  <2>1. RoundFor(s, t, x, p, g)
    <3> HIDE DEF p, g, t2
    <3>1. p = t[x].parent /\ g = t[p].parent /\ t[p].red /\ t[p].left # x /\ t[g].left # p
          /\ t[g].right = p
      BY <1>2
    <3> QED
      BY <3>1, RoundOnTheEdge
  <2>2. t[t[g].left].red
    BY <1>2
  <2> QED
    BY <2>1, <2>2 DEF RoundFor
<1>6. /\ Carries(n, i + 1) /\ g = Incoming(n, i + 1) /\ Halves(n, i + 1) >= 2
      /\ ~Odd(n + 1, i)
  <2>1. Carries(n, i + 1) /\ g = Incoming(n, i + 1)
    BY <1>2, <1>4, CarryGoesOn
  <2>2. Halves(n, i + 1) >= 2
    BY <1>4, EdgePlaces
  <2>3. Halves(n + 1, i + 1) = Halves(n, i + 1) + 1 /\ Halves(n, i + 1) \in Nat
    BY <1>2, <2>1, OneMore, LevelNumbers
  <2>4. ~Odd(n + 1, i)
    BY <1>4, <2>3 DEF Odd
  <2> QED
    BY <2>1, <2>2, <2>4
<1> HIDE DEF t, x, p, g, up, k, u
<1>7. u \in 0..k /\ u = t[g].left /\ t[u].red /\ u # 0 /\ up < u /\ u < g /\ t[u].parent = g
  <2>1. u \in 0..k /\ t[u].red /\ u = t[g].left
    BY <1>2, <1>3 DEF u
  <2>2. u # 0
    BY <1>4, <2>1
  <2> QED
    BY <1>2, <1>3, <2>1, <2>2
<1>8. PaintedThrice(t, t2, k, p, u, g)
  <2> DEFINE t0 == [t EXCEPT ![p].red = FALSE]
             t1 == [t0 EXCEPT ![u].red = FALSE]
             t3 == [t1 EXCEPT ![g].red = TRUE]
  <2>1. t2 = t3
    OBVIOUS
  <2>2. PaintedAs(t, t0, k, p, FALSE)
    <3> HIDE DEF t0
    <3>1. t0 = [t EXCEPT ![p].red = FALSE]
      BY DEF t0
    <3> QED
      BY <1>2, <1>4, <3>1, Painted
  <2>3. PaintedAs(t0, t1, k, u, FALSE)
    <3> HIDE DEF t0, t1
    <3>1. t1 = [t0 EXCEPT ![u].red = FALSE]
      BY DEF t1
    <3>2. t0 \in [0..k -> NodeEntries(k)]
      BY <2>2 DEF PaintedAs
    <3> QED
      BY <1>2, <1>7, <3>1, <3>2, Painted
  <2>4. PaintedAs(t1, t3, k, g, TRUE)
    <3> HIDE DEF t0, t1, t3
    <3>1. t3 = [t1 EXCEPT ![g].red = TRUE]
      BY DEF t3
    <3>2. t1 \in [0..k -> NodeEntries(k)]
      BY <2>3 DEF PaintedAs
    <3> QED
      BY <1>2, <3>1, <3>2, Painted
  <2> HIDE DEF t0, t1, t2, t3
  <2>5. t3 \in [0..k -> NodeEntries(k)]
    BY <2>4 DEF PaintedAs
  <2>6. ASSUME NEW m \in 0..k
        PROVE  /\ t3[m].left = t[m].left /\ t3[m].right = t[m].right
               /\ t3[m].parent = t[m].parent
               /\ t3[m].red = IF m = g THEN TRUE
                              ELSE IF m = p \/ m = u THEN FALSE ELSE t[m].red
    <3>1. /\ t0[m].left = t[m].left /\ t0[m].right = t[m].right /\ t0[m].parent = t[m].parent
          /\ t0[m].red = IF m = p THEN FALSE ELSE t[m].red
      BY <2>2 DEF PaintedAs
    <3>2. /\ t1[m].left = t0[m].left /\ t1[m].right = t0[m].right
          /\ t1[m].parent = t0[m].parent
          /\ t1[m].red = IF m = u THEN FALSE ELSE t0[m].red
      BY <2>3 DEF PaintedAs
    <3>3. /\ t3[m].left = t1[m].left /\ t3[m].right = t1[m].right
          /\ t3[m].parent = t1[m].parent
          /\ t3[m].red = IF m = g THEN TRUE ELSE t1[m].red
      BY <2>4 DEF PaintedAs
    <3> QED
      BY <3>1, <3>2, <3>3
  <2> QED
    BY <2>1, <2>5, <2>6 DEF PaintedThrice
<1> HIDE DEF t2
<1>17. /\ t2 \in [0..k -> NodeEntries(k)]
       /\ \A m \in 0..k : /\ t2[m].left = t[m].left /\ t2[m].right = t[m].right
                          /\ t2[m].parent = t[m].parent
  BY <1>8 DEF PaintedThrice
<1>18. \A m \in 0..k : t2[m].red = IF m = g THEN TRUE
                                   ELSE IF m = p \/ m = u THEN FALSE ELSE t[m].red
  BY <1>8 DEF PaintedThrice
<1>9. SearchTree(t2, k, under)
  <2>1. SearchTree(t, k, under)
    BY DEF t, k
  <2>2. \A m \in 0..k : /\ t2[m].left = t[m].left /\ t2[m].right = t[m].right
                        /\ t2[m].parent = t[m].parent
    BY <1>17
  <2>3. k \in Nat /\ t2 \in [0..k -> NodeEntries(k)]
    BY <1>2, <1>17
  <2> QED
    BY <2>1, <2>2, <2>3, ColoursDoNotMatter
<1>19. /\ x \in 0..k /\ p \in 0..k /\ g \in 0..k /\ up \in 0..k /\ 0 \in 0..k
       /\ x # 0 /\ p # 0 /\ g # 0
       /\ t[x].parent = p /\ t[p].parent = g /\ t[g].parent = up
       /\ t[p].right = x /\ t[g].right = p
       /\ (up = 0 => t[0].left = g) /\ (up # 0 => t[up].right = g)
  BY <1>2
<1>10. \A m \in 0..k : m <= up \/ m > p => Alike(t, t2, m)
  <2> SUFFICES ASSUME NEW m \in 0..k, m <= up \/ m > p
               PROVE  Alike(t, t2, m)
    OBVIOUS
  <2>1. m \notin {g, p, u}
    BY <1>2, <1>7
  <2>2. t2[m].left = t[m].left /\ t2[m].right = t[m].right /\ t2[m].parent = t[m].parent
    BY <1>17
  <2>3. t2[m].red <=> t[m].red
    BY <1>18, <2>1
  <2>4. m # 0 => t[m].left \notin {g, p, u}
    <3>1. p # 0 /\ g # 0 /\ u # 0
      BY <1>2, <1>7
    <3>2. m # 0 => t[m].left # g
      BY <1>2, <1>3, <3>1
    <3>3. t[m].left # p /\ t[m].left # u
      BY <1>2, <1>3, <1>7, <2>1, <3>1
    <3> QED
      BY <3>2, <3>3
  <2>5. m # 0 => (t2[t[m].left].red <=> t[t[m].left].red)
    <3>1. t[m].left \in 0..k
      BY <1>3
    <3> QED
      BY <1>17, <1>18, <2>4, <3>1
  <2> QED
    BY <2>2, <2>3, <2>5 DEF Alike, LooksAs
<1>11. /\ ~t2[0].red /\ t2[x].red /\ ~t2[t2[x].left].red
       /\ ~t2[p].red /\ ~t2[t2[p].left].red
       /\ t2[g].red /\ ~t2[t2[g].left].red
  <2>1. x \notin {g, p, u} /\ 0 \notin {g, p, u} /\ p # g /\ u # g
    BY <1>2, <1>7
  <2>2. ~t2[0].red /\ t2[x].red /\ ~t2[p].red /\ t2[g].red
    BY <1>2, <1>4, <1>18, <2>1
  <2>3. ~t2[u].red /\ t2[g].left = u
    BY <1>2, <1>7, <1>17, <1>18, <2>1
  <2>4. /\ t2[x].left = t[x].left /\ t[x].left \in 0..k /\ t[x].left # g
        /\ t2[p].left = t[p].left /\ t[p].left \in 0..k /\ t[p].left # g
    <3>1. t2[x].left = t[x].left /\ t[x].left \in 0..k /\ t2[p].left = t[p].left
          /\ t[p].left \in 0..k
      BY <1>2, <1>3, <1>17
    <3>2. \A m \in 0..k : m # up => t[m].left # g
      BY <1>2, <1>3
    <3>3. x # up /\ p # up
      BY <1>2
    <3> QED
      BY <1>2, <3>1, <3>2, <3>3
  <2>5. ~t2[t[x].left].red
    BY <1>4, <1>18, <2>4
  <2>6. ~t2[t[p].left].red
    BY <1>2, <1>18, <2>4
  <2> QED
    BY <2>2, <2>3, <2>4, <2>5, <2>6
<1>12. ASSUME NEW h \in Levels, h < i + 1
       PROVE  LevelOf(t2, n + 1, h) /\ LinkTo(t2, n + 1, h)
  <2>1. CASE h < i
    <3>1. LevelOf(t, n + 1, h) /\ LinkTo(t, n + 1, h)
      BY <2>1 DEF Growing, t
    <3>2. \A m \in 0..(n + 1) : m > Incoming(n, i) => Alike(t, t2, m)
      BY <1>2, <1>4, <1>10 DEF k
    <3> QED
      BY <1>4, <2>1, <3>1, <3>2, LowerLevelsKept
  <2>2. CASE h = i
    <3>1. Below(t2, p, x)
      BY <1>17, <1>19 DEF Below
    <3>2. LevelOf(t2, n + 1, i)
      BY <1>4, <1>6, <1>11, <3>1 DEF LevelOf
    <3>3. LinkTo(t2, n + 1, i)
      <4>1. i # 0 => Upper(n + 1, i - 1) \in 0..k
        <5>1. i # 0 => i - 1 \in Levels /\ i - 1 < i
          BY DEF Levels
        <5> QED
          BY <1>4, <5>1, EdgePlaces DEF k
      <4>2. Halves(n + 1, i) >= 2
        BY <1>4
      <4>3. Below(t, x, IF i = 0 THEN 0 ELSE Upper(n + 1, i - 1))
        BY <1>4, <4>2 DEF LinkTo
      <4>4. Below(t2, x, IF i = 0 THEN 0 ELSE Upper(n + 1, i - 1))
        BY <1>17, <1>19, <4>1, <4>3 DEF Below
      <4> QED
        BY <1>4, <4>4 DEF LinkTo
    <3> QED
      BY <2>2, <3>2, <3>3
  <2> QED
    BY <1>2, <1>12, <2>1, <2>2 DEF Levels
<1>13. ASSUME NEW h \in Levels, h >= i + 1
       PROVE  LevelOf(t2, n, h) /\ (h > i + 1 => LinkTo(t2, n, h))
  <2>1. h > i /\ h >= i
    BY <1>2, <1>13 DEF Levels
  <2>2. LevelOf(t, n, h) /\ LinkTo(t, n, h)
    BY <2>1 DEF Growing, t
  <2>3. \A m \in 0..n : m < Lower(n, i + 1) => Alike(t, t2, m)
    <3>1. \A m \in 0..n : m \in 0..k /\ (m < up => m <= up)
      BY <1>2 DEF k
    <3> QED
      BY <1>10, <3>1 DEF up
  <2>4. LooksAs(t, t2, Lower(n, i + 1))
    BY <1>2, <1>10 DEF up, Alike
  <2> QED
    BY <1>4, <2>1, <2>2, <2>3, <2>4, UpperLevelsKept
<1>14. Below(t2, Lower(n, i + 1), g)
  <2>1. Below(t2, up, g)
    BY <1>17, <1>19 DEF Below
  <2> QED
    BY <2>1 DEF up
<1>15. Below(t2, g, IF i + 1 = 0 THEN 0 ELSE Upper(n + 1, (i + 1) - 1))
  <2>1. i + 1 # 0 /\ (i + 1) - 1 = i
    BY <1>2
  <2>2. Below(t2, g, p)
    BY <1>17, <1>19 DEF Below
  <2> QED
    BY <1>4, <2>1, <2>2
<1>16. Growing([tree |-> t2, node |-> g], n, i + 1)
  BY <1>2, <1>6, <1>11, <1>12, <1>13, <1>14, <1>15 DEF Growing
<1> QED
  BY <1>5, <1>9, <1>16 DEF k

\* r is t after the round that turns at g, as Below and the colours tell it.
TurnedAndPainted(t, r, c, p, g, up) ==
  \A m \in 0..c :
    /\ r[m].red = IF m = g THEN TRUE ELSE IF m = p THEN FALSE ELSE t[m].red
    /\ r[m].left = IF m = p THEN g ELSE IF m = up /\ t[m].left = g THEN p ELSE t[m].left
    /\ r[m].right = IF m = g THEN t[p].left
                    ELSE IF m = up /\ t[m].right = g THEN p ELSE t[m].right
    /\ r[m].parent = IF m = g THEN p ELSE IF m = p THEN up
                     ELSE IF m = t[p].left /\ m # 0 THEN g ELSE t[m].parent

\* The rotation of a round, with its two changes of colour.
LEMMA TurnAt ==
  ASSUME NEW c \in Nat, NEW t, NEW under, SearchTree(t, c, under),
         NEW p \in 1..c, NEW g \in 1..c, NEW up \in 0..c, g # p,
         t[g].right = p, t[g].parent = up,
         NEW r, r = Rotated([t EXCEPT ![p].red = FALSE, ![g].red = TRUE], g, "left")
  PROVE  /\ TurnedAndPainted(t, r, c, p, g, up)
         /\ \E v : SearchTree(r, c, v)
<1> DEFINE t0 == [t EXCEPT ![p].red = FALSE]
           t1 == [t0 EXCEPT ![g].red = TRUE]
<1>1. r = Rotated(t1, g, "left")
  OBVIOUS
<1>2. t \in [0..c -> NodeEntries(c)] /\ p \in 0..c /\ g \in 0..c
  BY DEF SearchTree
<1>3. PaintedAs(t, t0, c, p, FALSE)
  <2> HIDE DEF t0
  <2>1. t0 = [t EXCEPT ![p].red = FALSE]
    BY DEF t0
  <2> QED
    BY <1>2, <2>1, Painted
<1>4. PaintedAs(t0, t1, c, g, TRUE)
  <2> HIDE DEF t0, t1
  <2>1. t1 = [t0 EXCEPT ![g].red = TRUE]
    BY DEF t1
  <2>2. t0 \in [0..c -> NodeEntries(c)]
    BY <1>3 DEF PaintedAs
  <2> QED
    BY <1>2, <2>1, <2>2, Painted
<1> HIDE DEF t0, t1
<1>5. t1 \in [0..c -> NodeEntries(c)]
  BY <1>4 DEF PaintedAs
<1>6. ASSUME NEW m \in 0..c
      PROVE  /\ t1[m].left = t[m].left /\ t1[m].right = t[m].right
             /\ t1[m].parent = t[m].parent
             /\ t1[m].red = IF m = g THEN TRUE ELSE IF m = p THEN FALSE ELSE t[m].red
  <2>1. /\ t0[m].left = t[m].left /\ t0[m].right = t[m].right /\ t0[m].parent = t[m].parent
        /\ t0[m].red = IF m = p THEN FALSE ELSE t[m].red
    BY <1>3 DEF PaintedAs
  <2>2. /\ t1[m].left = t0[m].left /\ t1[m].right = t0[m].right
        /\ t1[m].parent = t0[m].parent
        /\ t1[m].red = IF m = g THEN TRUE ELSE t0[m].red
    BY <1>4 DEF PaintedAs
  <2> QED
    BY <2>1, <2>2
<1>7. SearchTree(t1, c, under)
  <2>1. \A m \in 0..c : /\ t1[m].left = t[m].left /\ t1[m].right = t[m].right
                        /\ t1[m].parent = t[m].parent
    BY <1>6
  <2> QED
    BY <1>5, <2>1, ColoursDoNotMatter
<1>8. t1[g].right = p /\ t1[g].parent = up /\ t1[p].left = t[p].left /\ p # 0
  <2>1. t1[g].right = t[g].right /\ t1[g].parent = t[g].parent
    BY <1>2, <1>6
  <2>2. t1[p].left = t[p].left
    BY <1>2, <1>6
  <2> QED
    BY <2>1, <2>2
<1>9. TurnedLeft(t1, r, c, g) /\ \E v : SearchTree(r, c, v)
  BY <1>1, <1>7, <1>8, LeftRotation
<1>10. ASSUME NEW m \in 0..c
       PROVE  /\ r[m].red = t1[m].red
              /\ r[m].left = IF m = p THEN g ELSE IF m = up /\ t1[m].left = g THEN p
                             ELSE t1[m].left
              /\ r[m].right = IF m = g THEN t[p].left
                              ELSE IF m = up /\ t1[m].right = g THEN p ELSE t1[m].right
              /\ r[m].parent = IF m = g THEN p ELSE IF m = p THEN up
                               ELSE IF m = t[p].left /\ m # 0 THEN g ELSE t1[m].parent
  <2>1. /\ r[m].red = t1[m].red
        /\ r[m].left = IF m = t1[g].right THEN g
                       ELSE IF m = t1[g].parent /\ t1[m].left = g THEN t1[g].right
                       ELSE t1[m].left
        /\ r[m].right = IF m = g THEN t1[t1[g].right].left
                        ELSE IF m = t1[g].parent /\ t1[m].right = g THEN t1[g].right
                        ELSE t1[m].right
        /\ r[m].parent = IF m = g THEN t1[g].right ELSE IF m = t1[g].right THEN t1[g].parent
                         ELSE IF m = t1[t1[g].right].left /\ m # 0 THEN g ELSE t1[m].parent
    BY <1>9, Zenon DEF TurnedLeft
  <2>2. t1[t1[g].right].left = t[p].left
    BY <1>8
  <2> QED
    BY <1>8, <2>1, <2>2
<1>11. TurnedAndPainted(t, r, c, p, g, up)
  <2> SUFFICES ASSUME NEW m \in 0..c
               PROVE  /\ r[m].red = IF m = g THEN TRUE ELSE IF m = p THEN FALSE ELSE t[m].red
                      /\ r[m].left = IF m = p THEN g ELSE IF m = up /\ t[m].left = g THEN p
                                     ELSE t[m].left
                      /\ r[m].right = IF m = g THEN t[p].left
                                      ELSE IF m = up /\ t[m].right = g THEN p ELSE t[m].right
                      /\ r[m].parent = IF m = g THEN p ELSE IF m = p THEN up
                                       ELSE IF m = t[p].left /\ m # 0 THEN g ELSE t[m].parent
    BY DEF TurnedAndPainted
  <2>1. r[m].red = IF m = g THEN TRUE ELSE IF m = p THEN FALSE ELSE t[m].red
    BY <1>6, <1>10
  <2>2. t1[m].left = t[m].left /\ t1[m].right = t[m].right /\ t1[m].parent = t[m].parent
    BY <1>6
  <2>3. /\ r[m].left = IF m = p THEN g ELSE IF m = up /\ t1[m].left = g THEN p
                       ELSE t1[m].left
        /\ r[m].right = IF m = g THEN t[p].left
                        ELSE IF m = up /\ t1[m].right = g THEN p ELSE t1[m].right
        /\ r[m].parent = IF m = g THEN p ELSE IF m = p THEN up
                         ELSE IF m = t[p].left /\ m # 0 THEN g ELSE t1[m].parent
    BY <1>10
  <2> QED
    BY <2>1, <2>2, <2>3
<1> QED
  BY <1>9, <1>11

\* A black aunt: the grandparent is turned under the parent, and all is done.
LEMMA EvenLevel ==
  ASSUME NEW n \in 0..(Size - 1), NEW i \in Levels, NEW s, Growing(s, n, i),
         NEW under, SearchTree(s.tree, n + 1, under), Halves(n, i) >= 4, ~Odd(n, i)
  PROVE  Finished(Rebalanced(s), n)
<1> DEFINE t == s.tree
           x == s.node
           p == Lower(n, i)
           g == Upper(n, i)
           up == Lower(n, i + 1)
           k == n + 1
           r == Rotated([t EXCEPT ![p].red = FALSE, ![g].red = TRUE], g, "left")
<1> HIDE DEF r
<1>1. RedParent(s, n, i) /\ NodesAbout(s, n, i)
  BY RedParentNodes, GrowingNodes
<1>2. /\ i \in 0..7 /\ i + 1 \in Levels /\ n \in 0..Size /\ k \in 0..Size /\ k \in Nat
      /\ x \in 0..k /\ p \in 0..k /\ g \in 0..k /\ up \in 0..k /\ 0 \in 0..k
      /\ up < g /\ g < p /\ p < x /\ g > 0
      /\ t[x].parent = p /\ t[p].parent = g /\ t[g].parent = up
      /\ t[p].right = x /\ t[g].right = p
      /\ t[p].left # x /\ t[g].left # p
      /\ IF up = 0 THEN t[0].left = g ELSE t[up].right = g
      /\ up # 0 => t[up].left # g
      /\ t[p].red /\ ~t[g].red /\ ~t[t[p].left].red /\ ~t[t[g].left].red
      /\ t[p].left # 0 => g < t[p].left /\ t[p].left < p
  BY <1>1 DEF RedParent
<1>3. \A m \in 0..k : /\ t[m].left \in 0..k /\ t[m].right \in 0..k /\ t[m].parent \in 0..k
                      /\ t[m].left # 0 => t[t[m].left].parent = m
                      /\ t[m].right # 0 => t[t[m].right].parent = m
  BY <1>1 DEF RedParent
<1>4. /\ Carries(n, i) /\ Halves(n, i) >= 2 /\ Halves(n, i) \in Nat /\ x = Incoming(n, i)
      /\ ~t[0].red /\ t[x].red /\ ~t[t[x].left].red
      /\ Upper(n + 1, i) = p /\ Lower(n + 1, i) = x /\ Halves(n + 1, i) = Halves(n, i) + 1
      /\ LinkTo(t, n + 1, i)
  BY <1>1 DEF NodesAbout
<1>5. Rebalanced(s) = [tree |-> r, node |-> x]
  <2>1. RoundFor(s, t, x, p, g)
    <3> HIDE DEF p, g
    <3>1. p = t[x].parent /\ g = t[p].parent /\ t[p].red /\ t[p].left # x /\ t[g].left # p
          /\ t[g].right = p
      BY <1>2
    <3> QED
      BY <3>1, RoundOnTheEdge
  <2>2. ~t[t[g].left].red
    BY <1>2
  <2> QED
    BY <2>1, <2>2 DEF RoundFor, r
<1> HIDE DEF t, x, p, g, up, k
<1>6. /\ x \in 0..k /\ p \in 0..k /\ g \in 0..k /\ up \in 0..k /\ 0 \in 0..k /\ k \in Nat
      /\ p \in 1..k /\ g \in 1..k
      /\ x # 0 /\ p # 0 /\ g # 0 /\ x # p /\ x # g /\ p # g /\ x # up /\ p # up /\ g # up
      /\ t[x].parent = p /\ t[p].parent = g /\ t[g].parent = up
      /\ t[p].right = x /\ t[g].right = p
      /\ (up = 0 => t[0].left = g) /\ (up # 0 => t[up].right = g /\ t[up].left # g)
      /\ t[p].left # x /\ (up # 0 => t[p].left # up)
  <2>1. x \in 0..k /\ p \in 0..k /\ g \in 0..k /\ up \in 0..k /\ 0 \in 0..k /\ k \in Nat
        /\ up < g /\ g < p /\ p < x /\ g > 0
    BY <1>2
  <2>2. /\ p \in 1..k /\ g \in 1..k
        /\ x # 0 /\ p # 0 /\ g # 0 /\ x # p /\ x # g /\ p # g /\ x # up /\ p # up /\ g # up
    BY <2>1
  <2>3. /\ t[x].parent = p /\ t[p].parent = g /\ t[g].parent = up
        /\ t[p].right = x /\ t[g].right = p
        /\ (up = 0 => t[0].left = g) /\ (up # 0 => t[up].right = g /\ t[up].left # g)
        /\ t[p].left # x
    BY <1>2
  <2>4. up # 0 => t[p].left # up
    BY <1>2
  <2> QED
    BY <2>1, <2>2, <2>3, <2>4
<1>7. TurnedAndPainted(t, r, k, p, g, up) /\ \E v : SearchTree(r, k, v)
  <2>1. SearchTree(t, k, under)
    BY DEF t, k
  <2>2. r = Rotated([t EXCEPT ![p].red = FALSE, ![g].red = TRUE], g, "left")
    BY DEF r
  <2> QED
    BY <1>6, <2>1, <2>2, TurnAt
<1>8. \A m \in 0..k :
        /\ r[m].red = IF m = g THEN TRUE ELSE IF m = p THEN FALSE ELSE t[m].red
        /\ r[m].left = IF m = p THEN g ELSE IF m = up /\ t[m].left = g THEN p ELSE t[m].left
        /\ r[m].right = IF m = g THEN t[p].left
                        ELSE IF m = up /\ t[m].right = g THEN p ELSE t[m].right
        /\ r[m].parent = IF m = g THEN p ELSE IF m = p THEN up
                         ELSE IF m = t[p].left /\ m # 0 THEN g ELSE t[m].parent
  BY <1>7 DEF TurnedAndPainted
<1>9. \A m \in 0..k : m < up \/ m > p => Alike(t, r, m)
  <2> SUFFICES ASSUME NEW m \in 0..k, m < up \/ m > p
               PROVE  Alike(t, r, m)
    OBVIOUS
  <2>1. m \notin {g, p, up} /\ (m # 0 => m # t[p].left)
    BY <1>2
  <2>2. /\ r[m].left = t[m].left /\ r[m].right = t[m].right
        /\ m # 0 => r[m].parent = t[m].parent
    BY <1>8, <2>1
  <2>3. r[m].red <=> t[m].red
    BY <1>8, <2>1
  <2>4. m # 0 => t[m].left \notin {g, p}
    BY <1>3, <1>6, <2>1
  <2>5. m # 0 => (r[t[m].left].red <=> t[t[m].left].red)
    <3>1. t[m].left \in 0..k
      BY <1>3
    <3> QED
      BY <1>8, <2>4, <3>1
  <2> QED
    BY <2>2, <2>3, <2>5 DEF Alike, LooksAs
<1>10. up # 0 => LooksAs(t, r, up)
  <2> SUFFICES ASSUME up # 0
               PROVE  LooksAs(t, r, up)
    OBVIOUS
  <2>1. r[up].left = t[up].left /\ r[up].parent = t[up].parent /\ (r[up].red <=> t[up].red)
    BY <1>6, <1>8
  <2>2. t[up].left \notin {g, p} /\ t[up].left \in 0..k
    BY <1>3, <1>6
  <2>3. r[t[up].left].red <=> t[t[up].left].red
    BY <1>8, <2>2
  <2> QED
    BY <2>1, <2>3 DEF LooksAs
<1>11. /\ r[x].left = t[x].left /\ r[x].right = t[x].right /\ r[x].parent = p /\ r[x].red
       /\ r[p].left = g /\ r[p].right = x /\ r[p].parent = up /\ ~r[p].red
       /\ r[g].red /\ ~r[0].red
       /\ (up = 0 => r[0].left = p) /\ (up # 0 => r[up].right = p)
  <2>1. r[x].left = t[x].left /\ r[x].right = t[x].right /\ r[x].parent = p
    BY <1>6, <1>8
  <2>2. r[x].red = t[x].red /\ r[p].red = FALSE /\ r[g].red = TRUE /\ r[0].red = t[0].red
    BY <1>6, <1>8
  <2>3. r[p].left = g /\ r[p].right = x /\ r[p].parent = up
    BY <1>6, <1>8
  <2>4. (up = 0 => r[0].left = p) /\ (up # 0 => r[up].right = p)
    BY <1>6, <1>8
  <2> QED
    BY <1>4, <2>1, <2>2, <2>3, <2>4
<1>12. ~r[r[x].left].red
  <2>1. t[x].left \in 0..k /\ t[x].left # g
    BY <1>3, <1>6
  <2>2. r[t[x].left].red = IF t[x].left = p THEN FALSE ELSE t[t[x].left].red
    BY <1>8, <2>1
  <2> QED
    BY <1>4, <1>11, <2>2
<1>13. /\ Halves(n + 1, i + 1) = Halves(n, i + 1) /\ Odd(n + 1, i)
       /\ \A h \in Levels : h > i => /\ Halves(n + 1, h) = Halves(n, h)
                                     /\ Upper(n + 1, h) = Upper(n, h)
                                     /\ Lower(n + 1, h) = Lower(n, h)
  <2>1. ~Carries(n, i + 1)
    BY <1>2, CarryGoesOn
  <2>2. \A h \in Levels : h > i => ~Carries(n, h)
    <3> TAKE h \in Levels
    <3>1. h > i => h = i + 1 \/ i + 1 < h
      BY <1>2 DEF Levels
    <3> QED
      BY <1>2, <2>1, <3>1, CarriesBelow
  <2>3. \A h \in Levels : h > i => /\ Halves(n + 1, h) = Halves(n, h)
                                   /\ Upper(n + 1, h) = Upper(n, h)
                                   /\ Lower(n + 1, h) = Lower(n, h)
    BY <2>2, OneMore
  <2>4. Halves(n + 1, i + 1) = Halves(n, i + 1)
    BY <1>2, <2>3
  <2>5. Halves(n, i) = 2 * Halves(n, i + 1)
    BY <1>2, NextLevel
  <2> QED
    BY <1>4, <2>3, <2>4, <2>5 DEF Odd
<1>14. ASSUME NEW h \in Levels
       PROVE  LevelOf(r, n + 1, h) /\ LinkTo(r, n + 1, h)
  <2>1. CASE h < i
    <3>1. LevelOf(t, n + 1, h) /\ LinkTo(t, n + 1, h)
      BY <2>1 DEF Growing, t
    <3>2. \A m \in 0..(n + 1) : m > Incoming(n, i) => Alike(t, r, m)
      BY <1>2, <1>4, <1>9 DEF k
    <3> QED
      BY <1>4, <2>1, <3>1, <3>2, LowerLevelsKept
  <2>2. CASE h = i
    <3>1. Below(r, p, x)
      BY <1>6, <1>11 DEF Below
    <3>2. LevelOf(r, n + 1, i)
      BY <1>4, <1>11, <1>12, <1>13, <3>1 DEF LevelOf
    <3>3. LinkTo(r, n + 1, i)
      <4>1. Halves(n + 1, i) >= 2
        BY <1>4
      <4> DEFINE c == IF i = 0 THEN 0 ELSE Upper(n + 1, i - 1)
      <4>2. Below(t, x, c)
        BY <1>4, <4>1 DEF LinkTo
      <4>3. c # 0 => c \in 0..k /\ c > p
        <5>1. i # 0 => i - 1 \in Levels /\ i - 1 < i
          BY DEF Levels
        <5>2. i # 0 => Upper(n + 1, i - 1) \in 0..k /\ x < Upper(n + 1, i - 1)
          BY <1>4, <5>1, EdgePlaces DEF k
        <5> QED
          BY <1>2, <5>2
      <4>4. Below(r, x, c)
        <5> HIDE DEF c
        <5>1. c # 0 => LooksAs(t, r, c)
          BY <1>9, <4>3 DEF Alike
        <5>2. c # 0 => r[c].parent = t[c].parent
          BY <5>1 DEF LooksAs
        <5> QED
          BY <1>6, <1>11, <4>2, <5>2 DEF Below
      <4> QED
        BY <1>4, <4>4 DEF LinkTo
    <3> QED
      BY <2>2, <3>2, <3>3
  <2>3. CASE h > i
    <3>1. LevelOf(t, n, h) /\ LinkTo(t, n, h)
      <4>1. h >= i
        BY <1>2, <2>3 DEF Levels
      <4> QED
        BY <2>3, <4>1 DEF Growing, t
    <3>2. \A m \in 0..n : m < Lower(n, i + 1) => Alike(t, r, m)
      <4>1. \A m \in 0..n : m \in 0..k
        BY <1>2 DEF k
      <4> QED
        BY <1>9, <4>1 DEF up
    <3>3. Halves(n, i + 1) >= 3 => LooksAs(t, r, Lower(n, i + 1))
      <4>1. Halves(n, i + 1) >= 3 => up # 0
        <5>1. Halves(n, i + 1) >= 3 => Lower(n, i + 1) > 0
          BY <1>2, LevelNumbers
        <5> QED
          BY <5>1 DEF up
      <4> QED
        BY <1>10, <4>1 DEF up
    <3>4. LevelOf(r, n, h) /\ (h > i + 1 => LinkTo(r, n, h))
      BY <1>4, <2>3, <3>1, <3>2, <3>3, UpperLevelsKept
    <3>5. LevelOf(r, n + 1, h)
      <4>1. Halves(n + 1, h) = Halves(n, h) /\ Upper(n + 1, h) = Upper(n, h)
            /\ Lower(n + 1, h) = Lower(n, h)
        BY <1>13, <2>3
      <4>2. CASE h = 8
        <5>1. ~(Halves(n + 1, h) >= 3)
          <6>1. Halves(n, h) <= 1 /\ Halves(n, h) \in Nat
            BY <1>2, <4>2, LevelNumbers
          <6> QED
            BY <4>1, <6>1
        <5> QED
          BY <5>1 DEF LevelOf
      <4>3. CASE h # 8
        <5>1. h + 1 \in Levels /\ h + 1 > i
          BY <1>2, <2>3, <4>3 DEF Levels
        <5>2. Odd(n + 1, h) <=> Odd(n, h)
          BY <1>13, <4>1, <5>1 DEF Odd
        <5> QED
          BY <3>4, <4>1, <5>2 DEF LevelOf
      <4> QED
        BY <4>2, <4>3
    <3>6. LinkTo(r, n + 1, h)
      <4>1. CASE h = i + 1
        <5>1. h # 0 /\ h - 1 = i
          BY <1>2, <4>1
        <5>2. Below(r, up, p)
          BY <1>6, <1>11 DEF Below
        <5>3. Lower(n + 1, h) = up
          BY <1>13, <2>3, <4>1 DEF up
        <5> QED
          BY <1>4, <5>1, <5>2, <5>3 DEF LinkTo
      <4>2. CASE h > i + 1
        <5>1. h # 0 /\ h - 1 \in Levels /\ h - 1 > i
          BY <1>2, <4>2 DEF Levels
        <5>2. /\ Halves(n + 1, h) = Halves(n, h) /\ Lower(n + 1, h) = Lower(n, h)
              /\ Upper(n + 1, h - 1) = Upper(n, h - 1)
          BY <1>13, <2>3, <5>1
        <5> QED
          BY <3>4, <4>2, <5>1, <5>2 DEF LinkTo
      <4> QED
        BY <1>2, <2>3, <4>1, <4>2 DEF Levels
    <3> QED
      BY <3>5, <3>6
  <2> QED
    BY <2>1, <2>2, <2>3 DEF Levels
<1>15. Spine(r, n + 1)
  BY <1>11, <1>14 DEF Spine
<1>16. Blackened(r) = r
  <2>1. ~r[r[0].left].red
    <3>1. n + 1 \in 1..Size
      BY <1>2 DEF k
    <3> QED
      BY <1>15, <3>1, RootIs
  <2>2. r \in [0..k -> NodeEntries(k)]
    BY <1>7 DEF SearchTree
  <2>3. r[0].left \in 0..k
    <3>1. r[0] \in NodeEntries(k)
      BY <1>6, <2>2
    <3> QED
      BY <3>1 DEF NodeEntries
  <2>4. ASSUME NEW l \in 0..k, ~r[l].red PROVE [r EXCEPT ![l].red = FALSE] = r
    <3>1. r[l] \in NodeEntries(k)
      BY <2>2
    <3>2. [r[l] EXCEPT !.red = FALSE] = r[l]
      BY <2>4, <3>1 DEF NodeEntries
    <3> QED
      BY <2>2, <3>2
  <2> QED
    BY <2>1, <2>3, <2>4 DEF Blackened
<1>17. Rebalanced([tree |-> r, node |-> x]) = [tree |-> r, node |-> x]
  BY <1>11 DEF Rebalanced
<1> QED
  BY <1>5, <1>7, <1>15, <1>16, <1>17 DEF Finished, k

-----------------------------------------------------------------------------
(* All rounds of an insertion.                                             *)

\* What the rounds make of s0 one after the other.
Rounds(f, s0) == f = [i \in Nat |-> IF i = 0 THEN s0 ELSE Rebalanced(f[i - 1])]

\* The sequence of the rounds exists.
LEMMA RoundsExist ==
  ASSUME NEW s0
  PROVE  \E f : Rounds(f, s0)
<1> DEFINE Far(g, k) == g[0] = s0 /\ \A i \in 1..k : g[i] = Rebalanced(g[i - 1])
           S == {k \in Nat : \E g : Far(g, k)}
<1>1. \A k \in Nat : k \in S
  <2>1. 0 \in S
    <3>1. Far([i \in {0} |-> s0], 0)
      OBVIOUS
    <3> QED
      BY <3>1
  <2>2. ASSUME NEW k \in Nat, k \in S PROVE k + 1 \in S
    <3>1. PICK g : Far(g, k)
      BY <2>2
    <3> DEFINE h == [i \in 0..(k + 1) |-> IF i = k + 1 THEN Rebalanced(g[k]) ELSE g[i]]
    <3>2. \A i \in 0..k : h[i] = g[i]
      OBVIOUS
    <3>3. h[k + 1] = Rebalanced(g[k])
      OBVIOUS
    <3> HIDE DEF h
    <3>4. \A i \in 1..k : h[i] = Rebalanced(h[i - 1])
      <4>1. \A i \in 1..k : i \in 0..k /\ i - 1 \in 0..k
        OBVIOUS
      <4> QED
        BY <3>1, <3>2, <4>1
    <3>5. h[k + 1] = Rebalanced(h[(k + 1) - 1])
      <4>1. (k + 1) - 1 = k /\ k \in 0..k
        OBVIOUS
      <4> QED
        BY <3>2, <3>3, <4>1
    <3>6. \A i \in 1..(k + 1) : i \in 1..k \/ i = k + 1
      OBVIOUS
    <3>7. h[0] = s0
      BY <3>1, <3>2
    <3>8. Far(h, k + 1)
      BY <3>4, <3>5, <3>6, <3>7
    <3> HIDE DEF Far
    <3> QED
      BY <3>8
  <2> HIDE DEF S
  <2> QED
    BY <2>1, <2>2, Induction
<1>2. ASSUME NEW k \in Nat, NEW g, NEW h, Far(g, k), Far(h, k)
      PROVE  \A i \in 0..k : g[i] = h[i]
  <2> DEFINE E == {i \in Nat : i <= k => g[i] = h[i]}
  <2>1. 0 \in E
    BY <1>2
  <2>2. ASSUME NEW i \in Nat, i \in E PROVE i + 1 \in E
    <3>1. CASE i + 1 <= k
      <4>1. i + 1 \in 1..k /\ (i + 1) - 1 = i /\ i <= k
        BY <3>1
      <4>2. g[i + 1] = Rebalanced(g[i]) /\ h[i + 1] = Rebalanced(h[i])
        BY <1>2, <4>1
      <4>3. g[i] = h[i]
        BY <2>2, <4>1
      <4> QED
        BY <4>2, <4>3
    <3>2. CASE ~(i + 1 <= k)
      BY <3>2
    <3> QED
      BY <3>1, <3>2
  <2>3. \A i \in Nat : i \in E
    <3> HIDE DEF E
    <3> QED
      BY <2>1, <2>2, Induction
  <2> QED
    BY <2>3
<1> DEFINE best(k) == CHOOSE g : Far(g, k)
           f == [i \in Nat |-> best(i)[i]]
<1>3. \A k \in Nat : Far(best(k), k)
  <2> HIDE DEF Far
  <2> QED
    BY <1>1
<1>4. \A k \in Nat : k # 0 => Far(best(k), k - 1)
  <2> HIDE DEF best
  <2> TAKE k \in Nat
  <2>1. k # 0 => \A i \in 1..(k - 1) : i \in 1..k
    OBVIOUS
  <2> QED
    BY <1>3, <2>1
<1>5. ASSUME NEW i \in Nat
      PROVE  f[i] = IF i = 0 THEN s0 ELSE Rebalanced(f[i - 1])
  <2>1. CASE i = 0
    <3> HIDE DEF best
    <3> QED
      BY <1>3, <2>1
  <2>2. CASE i # 0
    <3>1. i - 1 \in Nat /\ i - 1 \in 0..(i - 1) /\ i \in 1..i
      BY <2>2
    <3>2. Far(best(i), i - 1) /\ Far(best(i - 1), i - 1)
      BY <1>3, <1>4, <2>2, <3>1
    <3> HIDE DEF best
    <3>3. best(i)[i - 1] = best(i - 1)[i - 1]
      <4> HIDE DEF Far
      <4> QED
        BY <1>2, <3>1, <3>2
    <3>4. best(i)[i] = Rebalanced(best(i)[i - 1])
      BY <1>3, <3>1
    <3> QED
      BY <2>2, <3>1, <3>3, <3>4
  <2> QED
    BY <2>1, <2>2
<1>6. f = [i \in Nat |-> IF i = 0 THEN s0 ELSE Rebalanced(f[i - 1])]
  <2>1. f = [i \in Nat |-> f[i]]
    OBVIOUS
  <2> HIDE DEF f
  <2> QED
    BY <1>5, <2>1
<1> QED
  BY <1>6 DEF Rounds

\* Grown is the tree after the last round, with a black root.
LEMMA GrownIs ==
  ASSUME NEW n \in Nat, DOMAIN dict = 0..n, NEW rounds \in Nat,
         NEW side, side = IF n = 0 THEN "left" ELSE "right"
  PROVE  \E f : /\ f[0] = [tree |-> WithLeaf(dict, n), node |-> n + 1]
                /\ \A i \in Nat : f[i + 1] = Rebalanced(f[i])
                /\ Grown(n + 1, n, side, rounds) = Blackened(f[rounds].tree)
<1> DEFINE leaf == [m \in DOMAIN dict \cup {n + 1} |->
                      CASE m = n + 1 -> Leaf(n, TRUE)
                        [] m = n -> [dict[m] EXCEPT ![side] = n + 1]
                        [] OTHER -> dict[m]]
           s0 == [tree |-> leaf, node |-> n + 1]
           f == CHOOSE f : Rounds(f, s0)
<1>1. leaf = WithLeaf(dict, n)
  <2>1. DOMAIN dict \cup {n + 1} = 0..(n + 1)
    OBVIOUS
  <2> DEFINE L(d, b) == [m \in d |-> CASE m = n + 1 -> Leaf(n, TRUE)
                                     [] m = n -> [dict[m] EXCEPT ![b] = n + 1]
                                     [] OTHER -> dict[m]]
  <2>2. L(0..(n + 1), IF n = 0 THEN "left" ELSE "right") = WithLeaf(dict, n)
    BY Zenon DEF WithLeaf
  <2>3. leaf = L(DOMAIN dict \cup {n + 1}, side)
    BY Zenon
  <2> HIDE DEF L, leaf
  <2> QED
    BY <2>1, <2>2, <2>3
<1>2. Rounds(f, s0)
  <2> HIDE DEF s0
  <2> QED
    BY RoundsExist
<1>3. Grown(n + 1, n, side, rounds) = Blackened(f[rounds].tree)
  BY Zenon DEF Grown, Rounds, Blackened
<1> HIDE DEF f, leaf
<1>4. f[0] = s0 /\ \A i \in Nat : f[i + 1] = Rebalanced(f[i])
  <2>1. \A i \in Nat : f[i] = IF i = 0 THEN s0 ELSE Rebalanced(f[i - 1])
    <3> HIDE DEF s0
    <3> QED
      BY <1>2 DEF Rounds
  <2>2. \A i \in Nat : i + 1 \in Nat /\ i + 1 # 0 /\ (i + 1) - 1 = i
    OBVIOUS
  <2> HIDE DEF s0
  <2> QED
    BY <2>1, <2>2
<1> QED
  BY <1>1, <1>3, <1>4

\* The new leaf begins its way up at the lowest level.
LEMMA LeafGrows ==
  ASSUME NEW n \in 0..(Size - 1), NEW t, NEW under, SearchTree(t, n, under), Spine(t, n),
         NEW leaf, leaf = WithLeaf(t, n)
  PROVE  /\ \E v : SearchTree(leaf, n + 1, v)
         /\ Growing([tree |-> leaf, node |-> n + 1], n, 0)
<1>1. /\ n \in Nat /\ n \in 0..Size /\ 0 \in Levels /\ n \in 0..n /\ 0 \in 0..n
  BY DEF Size, Levels
<1>2. /\ Halves(n, 0) = n + 2 /\ Lower(n, 0) = n /\ Incoming(n, 0) = n + 1
      /\ Upper(n, 0) = n - 1 /\ Carries(n, 0)
  <2>1. Halves(n, 0) = n + 2 /\ Lower(n, 0) = n /\ Incoming(n, 0) = n + 1
        /\ Upper(n, 0) = Lower(n, 0) - Weight(0)
    BY <1>1, LevelNumbers
  <2>2. Weight(0) = 1
    BY Weights
  <2> QED
    BY <1>1, <2>1, <2>2, OneMore
<1>3. /\ \A h \in Levels : LevelOf(t, n, h) /\ LinkTo(t, n, h)
      /\ ~t[0].red
  BY DEF Spine
<1>4. IF n = 0 THEN t[0].left = 0 ELSE t[n].right = 0
  <2>1. LinkTo(t, n, 0) /\ Halves(n, 0) >= 2
    BY <1>1, <1>2, <1>3
  <2> QED
    BY <1>2, <2>1 DEF LinkTo, Below
<1>5. /\ leaf[n + 1].left = 0 /\ leaf[n + 1].right = 0 /\ leaf[n + 1].parent = n
      /\ leaf[n + 1].red = TRUE
      /\ leaf[n].left = (IF n = 0 THEN 1 ELSE t[n].left)
      /\ leaf[n].right = (IF n = 0 THEN 0 ELSE n + 1)
      /\ leaf[n].parent = t[n].parent /\ leaf[n].red = t[n].red
      /\ \A m \in 0..n : m # n => leaf[m] = t[m]
      /\ \E v : SearchTree(leaf, n + 1, v)
  <2>1. LeafAt(t, leaf, n) /\ \E v : SearchTree(leaf, n + 1, v)
    BY <1>1, <1>4, LeafKeepsTree
  <2> QED
    BY <2>1 DEF LeafAt
<1>6. \A m \in 0..n : t[m].left \in 0..n
  BY <1>1, InSearchTree
<1>7. \A m \in 0..n : leaf[m].red = t[m].red
  BY <1>5
<1>8. \A m \in 0..n : m < n => Alike(t, leaf, m)
  <2> SUFFICES ASSUME NEW m \in 0..n, m < n
               PROVE  Alike(t, leaf, m)
    OBVIOUS
  <2>1. leaf[m] = t[m]
    BY <1>5
  <2>2. leaf[t[m].left].red = t[t[m].left].red
    BY <1>6, <1>7
  <2> QED
    BY <2>1, <2>2 DEF Alike, LooksAs
<1>9. n # 0 => LooksAs(t, leaf, n)
  <2> SUFFICES ASSUME n # 0
               PROVE  LooksAs(t, leaf, n)
    OBVIOUS
  <2>1. leaf[n].left = t[n].left /\ leaf[n].parent = t[n].parent /\ leaf[n].red = t[n].red
    BY <1>5
  <2>2. leaf[t[n].left].red = t[t[n].left].red
    BY <1>1, <1>6, <1>7
  <2> QED
    BY <2>1, <2>2 DEF LooksAs
<1>10. ASSUME NEW h \in Levels
       PROVE  /\ LevelOf(leaf, n, h)
              /\ h > 0 => LinkTo(leaf, n, h)
  <2>1. /\ Halves(n, h) \in Nat /\ Lower(n, h) \in Int /\ Upper(n, h) \in Int
        /\ Halves(n, h) >= 3 => Lower(n, h) > 0 /\ Upper(n, h) >= 0
        /\ Halves(n, h) = 2 => Lower(n, h) = 0
        /\ Upper(n, h) = Lower(n, h) - Weight(h) /\ Weight(h) \in Nat \ {0}
    BY <1>1, LevelNumbers, Weights
  <2>2. h > 0 => Lower(n, h) < n
    <3>1. h > 0 => Lower(n, h) < Upper(n, 0)
      BY <1>1, LevelsDescend
    <3> QED
      BY <1>1, <1>2, <2>1, <3>1
  <2>3. h = 0 => Lower(n, h) = n
    BY <1>2
  <2>4. h = 0 \/ h > 0
    BY DEF Levels
  <2>5. LevelOf(leaf, n, h)
    <3>1. ASSUME Halves(n, h) >= 3
          PROVE  LooksAs(t, leaf, Lower(n, h)) /\ Alike(t, leaf, Upper(n, h))
      <4>1. Upper(n, h) \in 0..n /\ Upper(n, h) < n /\ Lower(n, h) \in 1..n
        BY <1>1, <2>1, <2>2, <2>3, <2>4, <3>1
      <4>2. Alike(t, leaf, Upper(n, h))
        BY <1>8, <4>1
      <4>3. CASE Lower(n, h) = n
        <5>1. n # 0
          BY <4>1, <4>3
        <5> QED
          BY <1>9, <4>2, <4>3, <5>1
      <4>4. CASE Lower(n, h) # n
        <5>1. Lower(n, h) \in 0..n /\ Lower(n, h) < n
          BY <4>1, <4>4
        <5> QED
          BY <1>8, <4>2, <5>1 DEF Alike
      <4> QED
        BY <4>3, <4>4
    <3>2. LevelOf(t, n, h)
      BY <1>3
    <3> QED
      BY <1>1, <3>1, <3>2, AlikeLevels
  <2>6. ASSUME h > 0, Halves(n, h) >= 2
        PROVE  LinkTo(leaf, n, h)
    <3>1. h - 1 \in 0..7 /\ h - 1 \in Levels /\ h # 0 /\ h - 1 < h
      BY <2>6 DEF Levels
    <3>2. 2 * Halves(n, h) <= Halves(n, h - 1)
      BY <1>1, <3>1, HalvesFall
    <3>3. /\ Halves(n, h - 1) \in Nat /\ Upper(n, h - 1) \in Int
          /\ Halves(n, h - 1) >= 4 => Upper(n, h - 1) > 0
          /\ Upper(n, h - 1) = Lower(n, h - 1) - Weight(h - 1) /\ Weight(h - 1) \in Nat \ {0}
          /\ Lower(n, h - 1) + 2 * Weight(h - 1) <= n + 2 /\ Lower(n, h - 1) \in Int
      BY <1>1, <3>1, LevelNumbers, Weights
    <3>4. Upper(n, h - 1) \in 0..n /\ Upper(n, h - 1) < n
      BY <1>1, <2>1, <2>6, <3>2, <3>3
    <3>5. Lower(n, h) \in 0..n /\ Lower(n, h) < n
      BY <1>1, <2>1, <2>2, <2>6
    <3>6. Alike(t, leaf, Lower(n, h)) /\ LooksAs(t, leaf, Upper(n, h - 1))
      BY <1>8, <3>4, <3>5 DEF Alike
    <3>7. LinkTo(t, n, h)
      BY <1>3
    <3> QED
      BY <2>6, <3>1, <3>6, <3>7, AlikeLinks DEF LinkTo
  <2>7. ~(Halves(n, h) >= 2) => LinkTo(leaf, n, h)
    BY DEF LinkTo
  <2> QED
    BY <2>5, <2>6, <2>7
<1>11. Below(leaf, n, n + 1) /\ Below(leaf, n + 1, 0) /\ leaf[n + 1].red /\ ~leaf[0].red
       /\ ~leaf[leaf[n + 1].left].red
  <2>1. Below(leaf, n, n + 1)
    BY <1>1, <1>5 DEF Below
  <2>2. Below(leaf, n + 1, 0)
    BY <1>1, <1>5 DEF Below
  <2>3. ~leaf[0].red
    BY <1>1, <1>3, <1>7
  <2> QED
    BY <1>5, <2>1, <2>2, <2>3
<1>12. Growing([tree |-> leaf, node |-> n + 1], n, 0)
  <2>1. \A h \in Levels : ~(h < 0) /\ h >= 0
    BY DEF Levels
  <2>2. Halves(n, 0) >= 2
    BY <1>1, <1>2
  <2> QED
    BY <1>1, <1>2, <1>10, <1>11, <2>1, <2>2 DEF Growing
<1> QED
  BY <1>5, <1>12

\* Grown keeps the order of the nodes and the shape of the edge.
LEMMA GrownKeepsSpine ==
  ASSUME NEW n \in 0..(Size - 1), NEW under, SearchTree(dict, n, under), Spine(dict, n),
         NEW rounds \in Nat, \A i \in Levels : Halves(n, i) >= 4 => i < rounds,
         NEW side, side = IF n = 0 THEN "left" ELSE "right",
         NEW d, d = Grown(n + 1, n, side, rounds)
  PROVE  (\E v : SearchTree(d, n + 1, v)) /\ Spine(d, n + 1)
<1>1. n \in Nat /\ DOMAIN dict = 0..n
  BY DEF SearchTree
<1>2. PICK f : /\ f[0] = [tree |-> WithLeaf(dict, n), node |-> n + 1]
               /\ \A i \in Nat : f[i + 1] = Rebalanced(f[i])
               /\ Grown(n + 1, n, side, rounds) = Blackened(f[rounds].tree)
  BY <1>1, GrownIs
<1> DEFINE Up(s, i) == (\E v : SearchTree(s.tree, n + 1, v)) /\ Growing(s, n, i)
           S == {k \in Nat : Finished(f[k], n) \/ (Up(f[k], k) /\ Halves(n, k) >= 4)}
<1>3. ASSUME NEW s, NEW i, Up(s, i)
      PROVE  Finished(s, n) \/ (Up(s, i) /\ Halves(n, i) >= 4 /\ i \in Levels)
  <2>1. i \in Levels /\ Halves(n, i) >= 2 /\ Carries(n, i)
    BY <1>3 DEF Growing
  <2>2. Halves(n, i) \in Nat
    BY <2>1, EdgePlaces
  <2>3. PICK v : SearchTree(s.tree, n + 1, v)
    BY <1>3
  <2>4. CASE Halves(n, i) = 2
    BY <1>3, <2>1, <2>3, <2>4, RootReached
  <2>5. CASE Halves(n, i) = 3
    BY <1>3, <2>1, <2>3, <2>5, BelowRoot
  <2>6. CASE Halves(n, i) >= 4
    BY <1>3, <2>1, <2>6
  <2> QED
    BY <2>1, <2>2, <2>4, <2>5, <2>6
<1>4. 0 \in S
  <2>1. Up(f[0], 0)
    <3>1. (\E v : SearchTree(WithLeaf(dict, n), n + 1, v))
          /\ Growing([tree |-> WithLeaf(dict, n), node |-> n + 1], n, 0)
      BY LeafGrows
    <3> QED
      BY <1>2, <3>1
  <2> HIDE DEF Up
  <2> QED
    BY <1>3, <2>1
<1>5. ASSUME NEW k \in Nat, k \in S PROVE k + 1 \in S
  <2>1. f[k + 1] = Rebalanced(f[k])
    BY <1>2
  <2>2. CASE Finished(f[k], n)
    <3>1. f[k + 1] = f[k]
      BY <2>1, <2>2 DEF Finished
    <3> QED
      BY <2>2, <3>1
  <2>3. CASE Up(f[k], k) /\ Halves(n, k) >= 4
    <3>1. k \in Levels
      BY <2>3 DEF Growing
    <3>2. PICK v : SearchTree(f[k].tree, n + 1, v)
      BY <2>3
    <3>3. Growing(f[k], n, k)
      BY <2>3
    <3>4. CASE Odd(n, k)
      <4>1. Up(f[k + 1], k + 1)
        BY <2>1, <2>3, <3>1, <3>2, <3>3, <3>4, OddLevel
      <4> HIDE DEF Up
      <4> QED
        BY <1>3, <4>1
    <3>5. CASE ~Odd(n, k)
      <4>1. Finished(f[k + 1], n)
        BY <2>1, <2>3, <3>1, <3>2, <3>3, <3>5, EvenLevel
      <4> QED
        BY <4>1
    <3> QED
      BY <3>4, <3>5
  <2> QED
    BY <1>5, <2>2, <2>3
<1>6. rounds \in S
  <2> HIDE DEF S
  <2> QED
    BY <1>4, <1>5, Induction
<1>7. Finished(f[rounds], n)
  <2> SUFFICES ASSUME Up(f[rounds], rounds), Halves(n, rounds) >= 4
               PROVE  FALSE
    BY <1>6
  <2>1. rounds \in Levels
    BY DEF Growing
  <2>2. rounds < rounds
    BY <2>1
  <2> QED
    BY <2>2
<1> QED
  BY <1>2, <1>7 DEF Finished

-----------------------------------------------------------------------------
(* The way of a new key, and what is found in the end.                     *)

\* A way of at least k nodes down to the node n.
EndsAt(w, n, k) == w \in Seq(1..n) /\ Len(w) >= k /\ Len(w) >= 1 /\ w[Len(w)] = n

\* A way of which the rest ends at n ends there as well.
LEMMA EndsFarther ==
  ASSUME NEW n \in Nat, NEW m \in 1..n, NEW w, NEW k \in Nat, EndsAt(w, n, k),
         NEW v, v = <<m>> \o w, NEW j, j = k + 1
  PROVE  EndsAt(v, n, j)
<1>1. w \in Seq(1..n) /\ Len(w) >= k /\ Len(w) >= 1 /\ w[Len(w)] = n
  BY DEF EndsAt
<1>2. <<m>> \in Seq(1..n) /\ Len(<<m>>) = 1
  OBVIOUS
<1>3. v \in Seq(1..n) /\ Len(v) = 1 + Len(w)
  BY <1>1, <1>2, ConcatProperties
<1>4. Len(w) \in Nat
  BY <1>1
<1>5. v[Len(v)] = w[Len(w)]
  BY <1>1, <1>2, <1>3, <1>4
<1> QED
  BY <1>1, <1>3, <1>4, <1>5 DEF EndsAt

\* A way down the edge, which is at least as long as the edge has levels.
EdgeTo(w, n) == EndsAt(w, n, 1) /\ \A i \in Levels : Halves(n, i) >= 4 => i < Len(w)

\* Where no node of the edge sends a key to the left, the way down is the edge.
LEMMA EdgeWay ==
  ASSUME NEW n \in 1..Size, NEW under, SearchTree(dict, n, under), Spine(dict, n),
         NEW goesLeft,
         \A h \in Levels : /\ Halves(n, h) >= 3 => goesLeft[Lower(n, h)] = FALSE
                           /\ Halves(n, h) >= 4 => goesLeft[Upper(n, h)] = FALSE
  PROVE  EdgeTo(Way(goesLeft), n)
<1>1. n \in Nat /\ n \in 0..Size /\ n # 0 /\ n \in 1..n
  BY DEF Size
<1>2. PICK f : /\ Way(goesLeft) = f[dict[0].left]
               /\ f \in [0..n -> Seq(1..n)] /\ f[0] = <<>>
               /\ \A m \in 1..n :
                    f[m] = <<m>> \o f[IF goesLeft[m] THEN dict[m].left ELSE dict[m].right]
  BY <1>1, WayDown
<1>3. ASSUME NEW m \in 1..n, goesLeft[m] = FALSE
      PROVE  f[m] = <<m>> \o f[dict[m].right]
  BY <1>2, <1>3
<1>4. ASSUME NEW h \in Levels
      PROVE  /\ Halves(n, h) \in Nat
             /\ Halves(n, h) >= 3 => Lower(n, h) \in 1..n
             /\ Halves(n, h) >= 4 => /\ Upper(n, h) \in 1..n
                                     /\ f[Upper(n, h)] = <<Upper(n, h)>> \o f[Lower(n, h)]
             /\ LevelOf(dict, n, h) /\ LinkTo(dict, n, h)
  <2>1. /\ Halves(n, h) \in Nat /\ Lower(n, h) \in Int /\ Upper(n, h) \in Int
        /\ Halves(n, h) >= 3 => Lower(n, h) > 0
        /\ Halves(n, h) >= 4 => Upper(n, h) > 0
        /\ Upper(n, h) = Lower(n, h) - Weight(h) /\ Weight(h) \in Nat \ {0}
        /\ Lower(n, h) + 2 * Weight(h) <= n + 2
    BY <1>1, LevelNumbers, Weights
  <2>2. /\ Halves(n, h) >= 3 => Lower(n, h) \in 1..n
        /\ Halves(n, h) >= 4 => Upper(n, h) \in 1..n
    BY <1>1, <2>1
  <2>3. LevelOf(dict, n, h) /\ LinkTo(dict, n, h)
    BY DEF Spine
  <2>4. ASSUME Halves(n, h) >= 4
        PROVE  f[Upper(n, h)] = <<Upper(n, h)>> \o f[Lower(n, h)]
    <3>1. Halves(n, h) >= 3 /\ Upper(n, h) # 0
      BY <2>1, <2>4
    <3>2. dict[Upper(n, h)].right = Lower(n, h)
      BY <2>3, <3>1 DEF LevelOf, Below
    <3> QED
      BY <1>3, <2>2, <2>4, <3>2
  <2> QED
    BY <2>1, <2>2, <2>3, <2>4
<1>5. EndsAt(f[n], n, 1)
  <2>1. Halves(n, 0) = n + 2 /\ Lower(n, 0) = n /\ 0 \in Levels
    <3>1. 0 \in Levels
      BY DEF Levels
    <3> QED
      BY <1>1, <3>1, LevelNumbers
  <2>2. Halves(n, 0) >= 2 /\ Halves(n, 0) >= 3
    BY <1>1, <2>1
  <2>3. goesLeft[n] = FALSE
    BY <2>1, <2>2
  <2>4. dict[n].right = 0
    <3>1. LinkTo(dict, n, 0)
      BY <1>4, <2>1
    <3> QED
      BY <1>1, <2>1, <2>2, <3>1 DEF LinkTo, Below
  <2>5. f[n] = <<n>> \o <<>>
    BY <1>1, <1>2, <1>3, <2>3, <2>4
  <2>6. f[n] = <<n>>
    BY <2>5
  <2> QED
    BY <1>1, <2>6 DEF EndsAt
<1> DEFINE S == {h \in Nat : h \in Levels /\ Halves(n, h) >= 3 =>
                               EndsAt(f[Lower(n, h)], n, h + 1)}
<1>6. \A h \in Nat : h \in S
  <2>1. 0 \in S
    <3>1. Lower(n, 0) = n
      BY <1>1, LevelNumbers DEF Levels
    <3> QED
      BY <1>5, <3>1
  <2>2. ASSUME NEW h \in Nat, h \in S PROVE h + 1 \in S
    <3> SUFFICES ASSUME h + 1 \in Levels, Halves(n, h + 1) >= 3
                 PROVE  EndsAt(f[Lower(n, h + 1)], n, (h + 1) + 1)
      OBVIOUS
    <3>1. h \in 0..7 /\ h \in Levels /\ h + 1 # 0 /\ (h + 1) - 1 = h
      BY DEF Levels
    <3>2. Halves(n, h) >= 4 /\ Halves(n, h) >= 3 /\ Halves(n, h + 1) >= 2
      <4>1. 2 * Halves(n, h + 1) <= Halves(n, h)
        BY <1>1, <3>1, HalvesFall
      <4>2. Halves(n, h + 1) \in Nat /\ Halves(n, h) \in Nat
        BY <1>4, <3>1
      <4> QED
        BY <4>1, <4>2
    <3>3. EndsAt(f[Lower(n, h)], n, h + 1)
      BY <2>2, <3>1, <3>2
    <3>4. EndsAt(f[Upper(n, h)], n, (h + 1) + 1)
      <4>1. Upper(n, h) \in 1..n /\ f[Upper(n, h)] = <<Upper(n, h)>> \o f[Lower(n, h)]
        BY <1>4, <3>1, <3>2
      <4>2. h + 1 \in Nat
        OBVIOUS
      <4> QED
        BY <1>1, <3>3, <4>1, <4>2, EndsFarther
    <3>5. dict[Lower(n, h + 1)].right = Upper(n, h) /\ Lower(n, h + 1) \in 1..n
      <4>1. LinkTo(dict, n, h + 1) /\ Lower(n, h + 1) \in 1..n
        BY <1>4
      <4>2. Lower(n, h + 1) # 0
        BY <4>1
      <4> QED
        BY <3>1, <3>2, <4>1, <4>2 DEF LinkTo, Below
    <3>6. f[Lower(n, h + 1)] = <<Lower(n, h + 1)>> \o f[Upper(n, h)]
      BY <1>3, <3>5
    <3>7. EndsAt(f[Lower(n, h + 1)], n, ((h + 1) + 1) + 1)
      <4>1. (h + 1) + 1 \in Nat
        OBVIOUS
      <4> QED
        BY <1>1, <3>4, <3>5, <3>6, <4>1, EndsFarther
    <3> QED
      BY <3>1, <3>7 DEF EndsAt
  <2> HIDE DEF S
  <2> QED
    BY <2>1, <2>2, Induction
<1>7. \A h \in Levels : Halves(n, h) >= 3 => EndsAt(f[Lower(n, h)], n, h + 1)
  <2>1. \A h \in Levels : h \in Nat
    BY DEF Levels
  <2> QED
    BY <1>6, <2>1
<1>8. PICK T \in 0..7 : \/ Halves(n, T) = 3 /\ dict[0].left = Lower(n, T)
                        \/ Halves(n, T) \in 4..5 /\ dict[0].left = Upper(n, T)
  BY RootIs
<1>9. T \in Levels /\ T \in Nat
  BY DEF Levels
<1>10. EndsAt(Way(goesLeft), n, T + 1)
  <2>1. CASE Halves(n, T) = 3 /\ dict[0].left = Lower(n, T)
    <3>1. Halves(n, T) >= 3
      BY <2>1
    <3> QED
      BY <1>2, <1>7, <1>9, <2>1, <3>1
  <2>2. CASE Halves(n, T) \in 4..5 /\ dict[0].left = Upper(n, T)
    <3>1. Halves(n, T) >= 4 /\ Halves(n, T) >= 3
      BY <2>2
    <3>2. EndsAt(f[Lower(n, T)], n, T + 1)
      BY <1>7, <1>9, <3>1
    <3>3. EndsAt(f[Upper(n, T)], n, (T + 1) + 1)
      <4>1. Upper(n, T) \in 1..n /\ f[Upper(n, T)] = <<Upper(n, T)>> \o f[Lower(n, T)]
        BY <1>4, <1>9, <3>1
      <4>2. T + 1 \in Nat
        BY <1>9
      <4> QED
        BY <1>1, <3>2, <4>1, <4>2, EndsFarther
    <3>4. EndsAt(f[Upper(n, T)], n, T + 1)
      BY <1>9, <3>3 DEF EndsAt
    <3> QED
      BY <1>2, <2>2, <3>4
  <2> QED
    BY <1>8, <2>1, <2>2
<1>11. ASSUME NEW i \in Levels, Halves(n, i) >= 4
       PROVE  i <= T
  <2> SUFFICES ASSUME T < i
               PROVE  FALSE
    BY <1>9 DEF Levels
  <2>1. 2 * Halves(n, i) <= Halves(n, T)
    BY <1>1, <1>9, HalvesFall
  <2>2. Halves(n, i) \in Nat /\ Halves(n, T) \in Nat
    BY <1>4, <1>9
  <2> QED
    BY <1>8, <1>11, <2>1, <2>2
<1> QED
  <2>1. Len(Way(goesLeft)) >= T + 1 /\ Len(Way(goesLeft)) \in Nat
    BY <1>10 DEF EndsAt
  <2>2. \A i \in Levels : i \in Nat
    BY DEF Levels
  <2> QED
    BY <1>9, <1>10, <1>11, <2>1, <2>2 DEF EdgeTo, EndsAt

\* The dictionary while it is filled: no key was refused, and the tree is in order and
\* has the edge that ascending keys give it.
DictShape == /\ added \in 0..Size /\ refused = FALSE
             /\ \E under : SearchTree(dict, added, under)
             /\ Spine(dict, added)

\* The dictionary before the first key has the shape.
LEMMA EmptyDictionary == ASSUME DictInit PROVE DictShape
<1>1. /\ dict = [n \in {0} |-> Leaf(0, FALSE)] /\ added = 0 /\ refused = FALSE
  BY DEF DictInit
<1>2. /\ dict[0].left = 0 /\ dict[0].right = 0 /\ dict[0].parent = 0 /\ dict[0].red = FALSE
      /\ dict \in [0..0 -> NodeEntries(0)] /\ 0 \in 0..Size
  <2>1. Leaf(0, FALSE) \in NodeEntries(0) /\ 0..0 = {0}
    BY DEF Leaf, NodeEntries
  <2> QED
    BY <1>1, <2>1 DEF Leaf, Size
<1>3. SearchTree(dict, 0, [m \in 0..0 |-> {}])
  <2> DEFINE under == [m \in 0..0 |-> {}]
  <2>1. under \in [0..0 -> SUBSET (1..0)] /\ under[0] = {} /\ 1..0 = {}
    OBVIOUS
  <2>2. \A n \in 0..0 : n = 0
    OBVIOUS
  <2>3. under[dict[0].left] = 1..0
    BY <1>2, <2>1
  <2> HIDE DEF under
  <2> QED
    BY <1>2, <2>1, <2>2, <2>3, IsSearchTree
<1>4. ASSUME NEW h \in Levels
      PROVE  LevelOf(dict, 0, h) /\ LinkTo(dict, 0, h)
  <2>1. 0 \in Levels /\ Halves(0, 0) = 2 /\ Lower(0, 0) = 0 /\ Halves(0, h) \in Nat
    <3>1. 0 \in Levels
      BY DEF Levels
    <3> QED
      BY <1>2, <3>1, LevelNumbers
  <2>2. h # 0 => Halves(0, h) <= 1
    <3> SUFFICES ASSUME h # 0
                 PROVE  Halves(0, h) <= 1
      OBVIOUS
    <3>1. 0 < h
      BY DEF Levels
    <3>2. 2 * Halves(0, h) <= Halves(0, 0)
      BY <1>2, <2>1, <3>1, HalvesFall
    <3> QED
      BY <2>1, <3>2
  <2>3. LevelOf(dict, 0, h)
    BY <2>1, <2>2 DEF LevelOf
  <2>4. LinkTo(dict, 0, h)
    BY <1>2, <2>1, <2>2 DEF LinkTo, Below
  <2> QED
    BY <2>3, <2>4
<1> QED
  BY <1>1, <1>2, <1>3, <1>4 DEF DictShape, Spine

\* No node of the edge has a key that the next one is less than.
LEMMA EdgeSendsRight ==
  ASSUME NEW n \in 1..(Size - 1), NEW h \in Levels
  PROVE  /\ Halves(n, h) >= 3 => /\ Lower(n, h) \in 1..n
                                 /\ ~Precedes(Table[n + 1], Table[Lower(n, h)])
         /\ Halves(n, h) >= 4 => /\ Upper(n, h) \in 1..n
                                 /\ ~Precedes(Table[n + 1], Table[Upper(n, h)])
<1>0. Size \in Nat
  BY DEF Size
<1>1. n \in 0..Size /\ n + 1 \in 1..Size /\ n \in Nat
  BY <1>0
<1>2. ASSUME NEW m \in 1..n, n + 1 \in RangeNodes => m \notin RangeNodes
      PROVE  ~Precedes(Table[n + 1], Table[m])
  <2>1. m \in 1..Size /\ m < n + 1
    BY <1>0, <1>1
  <2> QED
    BY <1>1, <1>2, <2>1, NewKeyIsGreater
<1>3. /\ Halves(n, h) \in Nat /\ Lower(n, h) \in Int /\ Upper(n, h) \in Int
      /\ Halves(n, h) >= 3 => Lower(n, h) > 0
      /\ Halves(n, h) >= 4 => Upper(n, h) > 0
      /\ Upper(n, h) = Lower(n, h) - Weight(h) /\ Weight(h) \in Nat \ {0}
      /\ Lower(n, h) + 2 * Weight(h) <= n + 2
  BY <1>1, LevelNumbers, Weights
<1>4. /\ Halves(n, h) >= 3 => Lower(n, h) \in 1..n
      /\ Halves(n, h) >= 4 => Upper(n, h) \in 1..n
  BY <1>1, <1>3
<1>5. \A m \in 1..n : n + 1 \in RangeNodes /\ m \in RangeNodes =>
                        \/ n = 101 /\ m = 66
                        \/ n = 457 /\ m \in {66, 102}
  BY <1>1 DEF RangeNodes
<1>6. /\ n = 101 => Lower(n, h) # 66 /\ Upper(n, h) # 66
      /\ n = 457 => Lower(n, h) \notin {66, 102} /\ Upper(n, h) \notin {66, 102}
  BY RangesOffEdge
<1>7. ASSUME Halves(n, h) >= 3
      PROVE  ~Precedes(Table[n + 1], Table[Lower(n, h)])
  BY <1>2, <1>4, <1>5, <1>6, <1>7
<1>8. ASSUME Halves(n, h) >= 4
      PROVE  ~Precedes(Table[n + 1], Table[Upper(n, h)])
  BY <1>2, <1>4, <1>5, <1>6, <1>8
<1> QED
  BY <1>4, <1>7, <1>8

\* A further key is inserted at the end of the edge: its way ends at the last node, which
\* is also the one before its place.
LEMMA NewPlace ==
  ASSUME DictShape, NEW n, n = added, n < Size,
         NEW k, k = Table[n + 1],
         NEW left, left = [m \in Nodes |-> Precedes(k, Table[m])],
         NEW way, way = Way(left)
  PROVE  /\ n = 0 => way = <<>> /\ LastTurn(way, left, FALSE) = 0
         /\ n > 0 => /\ EdgeTo(way, n) /\ left[n] = FALSE
                     /\ LastTurn(way, left, FALSE) = n /\ Precedes(Table[n], k)
<1>1. n \in 0..Size /\ n \in Nat /\ Spine(dict, n)
  BY DEF DictShape, Size
<1>2. PICK under : SearchTree(dict, n, under)
  BY DEF DictShape
<1>3. DOMAIN dict = 0..n /\ Nodes = 1..n
  <2>1. DOMAIN dict = 0..n
    BY <1>1, <1>2, InSearchTree
  <2> QED
    BY <1>1, <2>1 DEF Nodes
<1>4. \A m \in 1..n : left[m] = Precedes(k, Table[m])
  BY <1>3
<1>5. CASE n = 0
  <2>1. PICK f : way = f[dict[0].left] /\ f[0] = <<>>
    BY <1>1, <1>2, WayDown
  <2>2. dict[0].left = 0
    <3>1. dict[0].left \in 0..n
      BY <1>1, <1>2, InSearchTree
    <3> QED
      BY <1>5, <3>1
  <2>3. way = <<>>
    BY <2>1, <2>2
  <2> QED
    <3>1. LastTurn(<<>>, left, FALSE) = 0
      BY NoTurn
    <3> QED
      <4>1. LastTurn(way, left, FALSE) = 0
        BY <2>3, <3>1, Zenon
      <4> QED
        <5>1. ~(n > 0)
          BY <1>5
        <5> QED
          BY <2>3, <4>1, <5>1, Zenon
<1>6. CASE n # 0
  <2>1. n \in 1..Size /\ n \in 1..(Size - 1) /\ n \in 1..n /\ n + 1 \in 1..Size
    BY <1>1, <1>6 DEF Size
  <2>2. \A h \in Levels : /\ Halves(n, h) >= 3 => left[Lower(n, h)] = FALSE
                          /\ Halves(n, h) >= 4 => left[Upper(n, h)] = FALSE
    <3> TAKE h \in Levels
    <3>1. /\ Halves(n, h) >= 3 => /\ Lower(n, h) \in 1..n
                                  /\ ~Precedes(Table[n + 1], Table[Lower(n, h)])
          /\ Halves(n, h) >= 4 => /\ Upper(n, h) \in 1..n
                                  /\ ~Precedes(Table[n + 1], Table[Upper(n, h)])
      BY <2>1, EdgeSendsRight
    <3> QED
      BY <1>4, <3>1
  <2>3. EdgeTo(way, n)
    BY <1>1, <1>2, <2>1, <2>2, EdgeWay
  <2>4. left[n] = FALSE
    <3>1. 0 \in Levels /\ Halves(n, 0) = n + 2 /\ Lower(n, 0) = n
      <4>1. 0 \in Levels
        BY DEF Levels
      <4> QED
        BY <1>1, <4>1, LevelNumbers
    <3>2. Halves(n, 0) >= 3
      BY <2>1, <3>1
    <3> QED
      BY <2>2, <3>1, <3>2
  <2>5. LastTurn(way, left, FALSE) = n
    <3>1. way \in Seq(1..n) /\ Len(way) >= 1 /\ way[Len(way)] = n
      BY <2>3 DEF EdgeTo, EndsAt
    <3> DEFINE I == TurnsAt(way, left, FALSE)
    <3>2. Len(way) \in I /\ \A i \in I : i \in 1..Len(way)
      BY <2>4, <3>1 DEF TurnsAt
    <3>3. /\ Max(I) \in I /\ \A i \in I : i <= Max(I)
          /\ LastTurn(way, left, FALSE) = way[Max(I)]
      <4>1. I # {} /\ way \in Seq(1..n)
        BY <3>1, <3>2
      <4> HIDE DEF I
      <4>2. ASSUME NEW J, J = TurnsAt(way, left, FALSE), J # {}
            PROVE  /\ Max(J) \in J /\ \A i \in J : i <= Max(J)
                   /\ LastTurn(way, left, FALSE) = way[Max(J)]
        BY <4>1, <4>2, LastTurnIs
      <4> QED
        BY <4>1, <4>2 DEF I
    <3> HIDE DEF I
    <3>4. Max(I) = Len(way)
      <4>1. Max(I) \in 1..Len(way) /\ Len(way) <= Max(I) /\ Len(way) \in Nat
        BY <3>1, <3>2, <3>3
      <4> QED
        BY <4>1
    <3> QED
      BY <3>1, <3>3, <3>4
  <2>6. Precedes(Table[n], k)
    <3>1. n < n + 1 /\ (n \notin RangeNodes \/ n + 1 \notin RangeNodes)
      BY <2>1 DEF RangeNodes
    <3> QED
      BY <2>1, <3>1, NewKeyIsGreater
  <2> QED
    BY <1>6, <2>3, <2>4, <2>5, <2>6
<1> QED
  BY <1>1, <1>5, <1>6

\* ipfix_dictionary_add keeps the shape, and refuses no key of the table.
LEMMA AddElementKeeps == ASSUME DictShape, AddElement PROVE DictShape'
<1> DEFINE n      == added
           k      == Table[added']
           left   == [m \in Nodes |-> Precedes(k, Table[m])]
           way    == Way(left)
           parent == IF way = <<>> THEN 0 ELSE Last(way)
           before == LastTurn(way, left, FALSE)
           side   == IF parent = 0 \/ left[parent] THEN "left" ELSE "right"
<1>1. /\ n < Size /\ added' = n + 1
      /\ IF before = 0 \/ Precedes(Table[before], k)
         THEN dict' = Grown(n + 1, parent, side, Len(way)) /\ refused' = refused
         ELSE refused' = TRUE /\ dict' = dict
  <2>1. Len(Table) = Size
    BY TableIs
  <2>2. added' = n + 1 /\ n < Len(Table)
    BY DEF AddElement
  <2>3. IF before = 0 \/ Precedes(Table[before], k)
        THEN dict' = Grown(added', parent, side, Len(way)) /\ refused' = refused
        ELSE refused' = TRUE /\ dict' = dict
    BY Zenon DEF AddElement
  <2> HIDE DEF before, k, parent, side, way, left
  <2> QED
    BY <2>1, <2>2, <2>3
<1>2. n \in 0..Size /\ n \in 0..(Size - 1) /\ n \in Nat /\ n + 1 \in 0..Size /\ refused = FALSE
      /\ Spine(dict, n)
  BY <1>1 DEF DictShape, Size
<1>3. PICK under : SearchTree(dict, n, under)
  BY DEF DictShape
<1>4. /\ n = 0 => way = <<>> /\ before = 0
      /\ n > 0 => /\ EdgeTo(way, n) /\ left[n] = FALSE
                  /\ before = n /\ Precedes(Table[n], k)
  <2>1. k = Table[n + 1]
    BY <1>1
  <2> QED
    BY <1>1, <2>1, NewPlace
<1> HIDE DEF left, way, before, k
<1>5. /\ parent = n /\ side = (IF n = 0 THEN "left" ELSE "right")
      /\ Len(way) \in Nat /\ \A i \in Levels : Halves(n, i) >= 4 => i < Len(way)
  <2>1. CASE n = 0
    <3>1. way = <<>> /\ Len(way) = 0 /\ parent = 0
      BY <1>4, <2>1
    <3>2. \A i \in Levels : ~(Halves(n, i) >= 4)
      <4> TAKE i \in Levels
      <4>1. 0 \in Levels /\ Halves(0, 0) = 2 /\ Halves(0, i) \in Nat
        <5>1. 0 \in Levels /\ 0 \in 0..Size
          BY DEF Levels, Size
        <5> QED
          BY <5>1, LevelNumbers
      <4>2. i = 0 \/ 0 < i
        BY DEF Levels
      <4>3. 0 < i => 2 * Halves(0, i) <= Halves(0, 0)
        BY <1>2, <2>1, <4>1, HalvesFall
      <4> QED
        BY <2>1, <4>1, <4>2, <4>3
    <3> QED
      BY <2>1, <3>1, <3>2
  <2>2. CASE n # 0
    <3>1. EdgeTo(way, n) /\ left[n] = FALSE
      BY <1>2, <1>4, <2>2
    <3>2. /\ way \in Seq(1..n) /\ Len(way) >= 1 /\ way[Len(way)] = n
          /\ \A i \in Levels : Halves(n, i) >= 4 => i < Len(way)
      BY <3>1 DEF EdgeTo, EndsAt
    <3>3. way # <<>> /\ Last(way) = n /\ Len(way) \in Nat
      BY <3>2 DEF Last
    <3>4. parent = n
      BY <3>3
    <3>5. side = "right"
      BY <2>2, <3>1, <3>4
    <3> QED
      BY <2>2, <3>2, <3>3, <3>4, <3>5
  <2> QED
    BY <2>1, <2>2
<1> HIDE DEF parent, side
<1>6. before = 0 \/ Precedes(Table[before], k)
  <2>1. n = 0 \/ n > 0
    BY <1>2
  <2> QED
    BY <1>4, <2>1
<1>7. dict' = Grown(n + 1, n, side, Len(way)) /\ refused' = FALSE
  BY <1>1, <1>2, <1>5, <1>6
<1>8. (\E v : SearchTree(dict', n + 1, v)) /\ Spine(dict', n + 1)
  BY <1>2, <1>3, <1>5, <1>7, GrownKeepsSpine
<1> QED
  BY <1>1, <1>2, <1>7, <1>8 DEF DictShape

\* In a full dictionary a single id that is less than the enterprise bit finds the key
\* that covers it, and another one finds none.
LEMMA FindIs ==
  ASSUME DictShape, added = Len(Table), NEW id \in Nat, NEW e, e = Entry(id)
  PROVE  IF id < EnterpriseBit THEN e # 0 /\ Covers(Table[e], id) ELSE e = 0
<1> DEFINE k       == Single(id, EnterpriseNumber(id))
           notLess == [n \in Nodes |-> ~Precedes(Table[n], k)]
           n       == LastTurn(Way(notLess), notLess, TRUE)
<1>1. Len(Table) = Size /\ added = Size /\ Size = 458 /\ Size \in Nat
  BY TableIs DEF Size
<1>2. PICK under : SearchTree(dict, Size, under)
  BY <1>1 DEF DictShape
<1>3. DOMAIN dict = 0..Size /\ Nodes = 1..Size
  <2>1. DOMAIN dict = 0..Size
    BY <1>1, <1>2, InSearchTree
  <2> QED
    BY <1>1, <2>1 DEF Nodes
<1>4. e = IF n = 0 \/ Precedes(k, Table[n]) THEN 0 ELSE n
  BY Zenon DEF Entry, Find
<1>5. notLess \in [1..Size -> BOOLEAN] /\ \A m \in 1..Size : notLess[m] <=> ~Precedes(Table[m], k)
  BY <1>3
<1>6. id \in Nat /\ EnterpriseBit = 32768
  BY DEF EnterpriseBit
<1>7. CASE id < EnterpriseBit
  <2>1. k = Single(id, 0)
    BY <1>7 DEF EnterpriseNumber
  <2> HIDE DEF k
  <2>2. \A m \in 1..Size : /\ Precedes(Table[m], k) <=> High(m) < id
                           /\ Precedes(k, Table[m]) <=> id < Low(m)
                           /\ Covers(Table[m], id) <=> Low(m) <= id /\ id <= High(m)
                           /\ Low(m) \in Nat /\ High(m) \in Nat
                           /\ Low(m) <= High(m)
    <3> TAKE m \in 1..Size
    <3>1. /\ m \notin RangeNodes => High(m) = Low(m)
          /\ m \in RangeNodes => High(m) > Low(m)
          /\ Low(m) \in Nat /\ High(m) \in Nat
      BY KeyParts
    <3>2. /\ Precedes(Table[m], k) <=> High(m) < id
          /\ Precedes(k, Table[m]) <=> id < Low(m)
          /\ Covers(Table[m], id) <=> Low(m) <= id /\ id <= High(m)
      BY <1>6, <2>1, KeysAndIds
    <3> QED
      BY <3>1, <3>2
  <2>3. \A m \in 1..Size : notLess[m] <=> id <= High(m)
    <3> TAKE m \in 1..Size
    <3>1. notLess[m] <=> ~(High(m) < id)
      BY <1>5, <2>2
    <3>2. High(m) \in Nat
      BY <2>2
    <3> QED
      BY <1>6, <3>1, <3>2
  <2> HIDE DEF notLess
  <2>4. Upwards(notLess, Size)
    <3> SUFFICES ASSUME NEW l \in 1..Size, NEW m \in 1..Size, l < m, notLess[l]
                 PROVE  notLess[m]
      BY DEF Upwards
    <3>1. High(l) < Low(m)
      BY KeysAscend
    <3>2. id <= High(l) /\ Low(m) <= High(m) /\ High(l) \in Nat /\ Low(m) \in Nat /\ High(m) \in Nat
      BY <2>2, <2>3
    <3> QED
      BY <1>6, <2>3, <3>1, <3>2
  <2>5. /\ n # 0 => n \in 1..Size /\ notLess[n] /\ \A m \in 1..Size : notLess[m] => n <= m
        /\ (\E m \in 1..Size : notLess[m]) => n # 0
    <3>1. notLess \in [1..Size -> BOOLEAN] /\ Size \in Nat /\ SearchTree(dict, Size, under)
      BY <1>1, <1>2, <1>5
    <3> QED
      BY <2>4, <3>1, FirstOfUpper
  <2> HIDE DEF n
  <2>6. n # 0
    <3>1. High(Size) = 32767 /\ Size \in 1..Size
      <4>1. Size \in 1..Size
        BY <1>1
      <4> QED
        BY <4>1, KeysAscend
    <3>2. notLess[Size]
      BY <1>6, <1>7, <2>3, <3>1
    <3> QED
      BY <2>5, <3>1, <3>2
  <2>7. n \in 1..Size /\ id <= High(n) /\ \A m \in 1..Size : m < n => High(m) < id
    <3>1. n \in 1..Size /\ notLess[n] /\ \A m \in 1..Size : notLess[m] => n <= m
      BY <2>5, <2>6
    <3>2. \A m \in 1..Size : m < n => High(m) < id
      <4> TAKE m \in 1..Size
      <4>1. High(m) \in Nat /\ m \in Nat /\ n \in Nat
        BY <2>2, <3>1
      <4> QED
        BY <1>6, <2>3, <3>1, <4>1
    <3> QED
      BY <2>3, <3>1, <3>2
  <2>8. Low(n) <= id
    <3>1. CASE n = 1
      BY <1>6, <3>1, KeysAscend
    <3>2. CASE n # 1
      <4>1. n \in 2..Size /\ n - 1 \in 1..Size /\ n - 1 < n
        BY <1>1, <2>7, <3>2
      <4>2. Low(n) = High(n - 1) + 1 /\ High(n - 1) < id /\ High(n - 1) \in Nat
        BY <2>2, <2>7, <4>1, KeysAscend
      <4> QED
        BY <1>6, <4>2
    <3> QED
      BY <3>1, <3>2
  <2>9. Covers(Table[n], id) /\ ~Precedes(k, Table[n])
    <3>1. Low(n) \in Nat
      BY <2>2, <2>7
    <3> QED
      BY <1>6, <2>2, <2>7, <2>8, <3>1
  <2> QED
    BY <1>4, <1>7, <2>6, <2>9
<1>8. CASE ~(id < EnterpriseBit)
  <2>1. k.number = id /\ id # 0 /\ 0 < id
    BY <1>6, <1>8 DEF EnterpriseNumber, Single, DictKey
  <2> HIDE DEF k
  <2>2. \A m \in 1..Size : ~notLess[m]
    <3> TAKE m \in 1..Size
    <3>1. Table[m].number = 0
      BY KeyParts
    <3>2. Precedes(Table[m], k)
      BY <2>1, <3>1 DEF Precedes
    <3> QED
      BY <1>5, <3>2
  <2> HIDE DEF notLess
  <2>3. Upwards(notLess, Size)
    BY <2>2 DEF Upwards
  <2>4. n # 0 => n \in 1..Size /\ notLess[n]
    <3>1. notLess \in [1..Size -> BOOLEAN] /\ Size \in Nat /\ SearchTree(dict, Size, under)
      BY <1>1, <1>2, <1>5
    <3> QED
      BY <2>3, <3>1, FirstOfUpper
  <2> HIDE DEF n
  <2>5. n = 0
    BY <2>2, <2>4
  <2> QED
    BY <1>4, <1>8, <2>5
<1> QED
  BY <1>7, <1>8

\* A filled dictionary of this shape finds what it should.
LEMMA ShapeFindsElements == ASSUME DictShape PROVE EveryElementFound
<1>1. \A id \in Ids : id \in Nat
  <2>1. \A last : \A id \in 0..last : id \in Nat
    OBVIOUS
  <2> QED
    BY <2>1, IdsAssumption
<1>2. refused = FALSE
  BY DEF DictShape
<1>3. ASSUME added = Len(Table), NEW id \in Ids, NEW e, e = Entry(id)
      PROVE  IF id < EnterpriseBit THEN e # 0 /\ Covers(Table[e], id) ELSE e = 0
  <2>1. id \in Nat
    BY <1>1
  <2> QED
    BY <1>3, <2>1, FindIs
<1> QED
  BY <1>2, <1>3 DEF EveryElementFound

\* The dictionary that main fills finds every element of the IANA table under its own
\* id or range, although operator < has no order for ranges: adding a key keeps the
\* shape of the tree (DictShape), and nothing else touches it.
THEOREM ElementsFound == Spec => []DictionaryComplete
<1>1. Init => DictShape
  BY EmptyDictionary DEF Init
<1>2. DictShape /\ [Next]_vars => DictShape'
  <2> SUFFICES ASSUME DictShape, [Next]_vars PROVE DictShape'
    OBVIOUS
  <2>1. CASE UNCHANGED dictVars
    BY <2>1 DEF DictShape, dictVars
  <2>2. CASE FillDictionary
    BY <2>2, AddElementKeeps DEF FillDictionary
  <2>3. FillDictionary \/ UNCHANGED dictVars
    BY Zenon DEF Next, BeginDataSet, SkipUnknownField, ConvertAndMap, AddField,
                 RefuseRecord, CrashOnDivision, PrintRecord, Ended, vars, dictVars
  <2> QED
    BY <2>1, <2>2, <2>3
<1>3. DictShape => DictionaryComplete
  BY ShapeFindsElements DEF DictionaryComplete
<1> QED
  BY <1>1, <1>2, <1>3, PTL DEF Spec
=============================================================================
