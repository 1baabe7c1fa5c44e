-------------------------- MODULE IpfixParser_proofs --------------------------
(***************************************************************************)
(* The properties of the parser that hold whatever the messages say.  The  *)
(* inductive invariant says how the place the parser has come to follows   *)
(* from the sets it handled, and the offset within a data set from the     *)
(* records.  Of the lengths in the messages nothing is assumed but that    *)
(* they are small beside the range of a size_t.                            *)
(***************************************************************************)
EXTENDS IpfixParser, NumberTheorems

-----------------------------------------------------------------------------
(* Facts about messages.                                                   *)

\* At every offset that the message has a set header is read.
LEMMA SetTyping ==
  ASSUME NEW m \in Messages, NEW o \in Nat, o < m.size
  PROVE  /\ m.set[o] \in Sets
         /\ m.set[o].id \in Nat /\ m.set[o].length \in Nat /\ m.set[o].length < HalfRange
<1>1. m.size \in Nat /\ DOMAIN m.set = 0..(m.size - 1)
  BY ParserAssumption
<1>2. o \in DOMAIN m.set
  BY <1>1
<1>3. m.set[o] \in {m.set[k] : k \in DOMAIN m.set}
  BY <1>2
<1>4. m.set[o] \in Sets
  BY <1>3 DEF Sets
<1> QED
  BY <1>4, ParserAssumption

LEMMA Ranges == /\ HalfRange \in Nat /\ HalfRange > 4
                /\ SizeRange \in Nat /\ SizeRange = 2 * HalfRange
BY ParserAssumption DEF SizeRange, SetHeaderSize

\* Where a set is reached from, and what is reached from it.
LEMMA OnwardTyping ==
  ASSUME NEW m \in Messages
  PROVE  /\ m.size \in Nat
         /\ Onward(m) \in [Nat -> Nat]
         /\ \A o \in Nat : Onward(m)[o] >= o
         /\ \A o \in Nat : o < m.size /\ Known(m.set[o]) => Onward(m)[o] = o + m.set[o].length
         /\ \A o \in Nat : ~(o < m.size /\ Known(m.set[o])) => Onward(m)[o] = o
<1>1. m.size \in Nat
  BY ParserAssumption
<1>2. \A o \in Nat : o < m.size => m.set[o].length \in Nat
  BY SetTyping
<1> QED
  BY <1>1, <1>2 DEF Onward

LEMMA ReachedTyping ==
  ASSUME NEW m \in Messages
  PROVE  /\ Reached(m)[0] = 0
         /\ \A n \in 1..m.size : Reached(m)[n] = Onward(m)[Reached(m)[n - 1]]
         /\ \A n \in 0..m.size : Reached(m)[n] \in Nat
<1>1. m.size \in Nat /\ Onward(m) \in [Nat -> Nat]
  BY OnwardTyping
<1> DEFINE f == Onward(m)
           g == CHOOSE h : h = [n \in 0..m.size |-> IF n = 0 THEN 0 ELSE f[h[n - 1]]]
<1>2. Reached(m) = g
  BY DEF Reached
<1> HIDE DEF f
<1>3. f \in [Nat -> Nat]
  BY <1>1 DEF f
<1>4. /\ g[0] = 0
      /\ \A n \in 1..m.size : g[n] = f[g[n - 1]]
      /\ \A n \in 0..m.size : g[n] \in Nat
  BY <1>1, <1>3, Iteration
<1> HIDE DEF g
<1> QED
  BY <1>2, <1>4 DEF f

LEMMA ReachedGrows ==
  ASSUME NEW m \in Messages, NEW k \in 0..m.size
  PROVE  /\ \A n \in k..m.size : Reached(m)[n] >= Reached(m)[k]
         /\ Onward(m)[Reached(m)[k]] = Reached(m)[k]
              => \A n \in k..m.size : Reached(m)[n] = Reached(m)[k]
<1> DEFINE f == Onward(m)
           g == Reached(m)
           N == m.size
<1>1. N \in Nat /\ f \in [Nat -> Nat] /\ (\A o \in Nat : f[o] >= o)
  BY OnwardTyping
<1>2. (\A n \in 1..N : g[n] = f[g[n - 1]]) /\ (\A n \in 0..N : g[n] \in Nat)
  BY ReachedTyping
<1>3. GoesOn(f, g, N)
  BY <1>1, <1>2 DEF GoesOn
<1>5. k \in 0..N
  BY DEF N
<1> HIDE DEF f, g, N
<1>4. (\A n \in k..N : g[n] >= g[k]) /\ (f[g[k]] = g[k] => \A n \in k..N : g[n] = g[k])
  BY <1>3, <1>5, IterationGrows
<1> QED
  BY <1>4 DEF f, g, N

\* The widths of a template record are a sequence whose sum is small.
WidthLists == {w \in Seq(Nat) : Sum(w) < HalfRange}

LEMMA WidthsTyping ==
  ASSUME NEW s \in TemplateSets
  PROVE  Widths(s) \in WidthLists
<1> DEFINE F == [size : {4, 8}, width : Nat]
<1>1. s.fields \in Seq(F) /\ Sum(Widths(s)) < HalfRange
  BY ParserAssumption
<1> DEFINE fields == s.fields
<1>2. \A f \in F : f.width \in Nat
  OBVIOUS
<1> HIDE DEF F, fields
<1>3. fields \in Seq(F)
  BY <1>1 DEF fields
<1>4. Len(fields) \in Nat /\ DOMAIN fields = 1..Len(fields)
      /\ \A i \in 1..Len(fields) : fields[i] \in F
  BY <1>3
<1>5. [i \in DOMAIN fields |-> fields[i].width] \in [1..Len(fields) -> Nat]
  BY <1>2, <1>4
<1>6. \A n \in Nat : \A f \in [1..n -> Nat] : f \in Seq(Nat)
  OBVIOUS
<1>7. Widths(s) \in Seq(Nat)
  BY <1>4, <1>5, <1>6 DEF Widths, fields
<1> QED
  BY <1>1, <1>7 DEF WidthLists

\* The size of the contents, where it does not wrap around.
LEMMA Contents ==
  ASSUME NEW s \in Sets, s.length >= SetHeaderSize
  PROVE  /\ SizeOfContents(s) = s.length - 4
         /\ SizeOfContents(s) \in Nat /\ SizeOfContents(s) < HalfRange
<1>1. s.length \in Nat /\ s.length < HalfRange
  BY ParserAssumption
<1>2. s.length - 4 \in 0..(SizeRange - 1)
  BY <1>1, Ranges DEF SetHeaderSize
<1>3. (s.length - 4) % SizeRange = s.length - 4
  BY <1>2, Ranges
<1>4. SizeOfContents(s) = s.length - 4
  BY <1>3 DEF SizeOfContents, SetHeaderSize
<1> QED
  BY <1>1, <1>2, <1>4, Ranges DEF SetHeaderSize

-----------------------------------------------------------------------------
(* The inductive invariant.                                                *)

\* The set that begins at p is the last that was reached, before it n sets.
AtPlace(m, v, p) ==
  /\ v \in Seq(Nat) /\ Len(v) <= m.size /\ Len(v) <= p
  /\ p = Reached(m)[Len(v)]
  /\ \A i \in 1..Len(v) : v[i] = Reached(m)[i - 1] /\ v[i] < m.size

\* One of the sets that were reached does not fit.
Unfit(m, v) == \E n \in 0..Len(v) : Reached(m)[n] < m.size /\ ~Fits(m, Reached(m)[n])

Place == IF at = "packet" THEN operated ELSE operated + ret

PTypes == /\ at \in {"idle", "packet", "set", "record", "field", "crashed"}
          /\ msg \in Messages
          /\ operated \in Nat /\ ret \in Nat /\ recOffs \in Nat /\ records \in Nat
          /\ template \in [TemplateIds -> WidthLists \cup {NONE}]

PPlace == at # "idle" => /\ AtPlace(msg, visited, Place)
                         /\ beyond \/ Place > msg.size => Unfit(msg, visited)

\* In a data set, s is its set and w its template.
InRecord(s, w, where, offs, n, f) ==
  /\ s.length >= SetHeaderSize =>
       /\ offs = n * Sum(w) /\ offs <= SizeOfContents(s)
       /\ where = "field" => offs + Sum(w) <= SizeOfContents(s)
  /\ where = "field" => f \in Nat /\ f >= 1 /\ f <= Len(w) + 1

PRecord == at \in {"record", "field"} =>
             /\ MoreSets /\ Here.id >= FirstDataSetId
             /\ template[Here.id] # NONE
             /\ InRecord(Here, template[Here.id], at, recOffs, records, field)

PInv == PTypes /\ PPlace /\ PRecord

\* Where a header can be read, the set it begins is one of the message's.
LEMMA SetHere ==
  ASSUME PTypes, MoreSets
  PROVE  /\ operated + ret \in Nat /\ operated + ret < msg.size /\ msg.size \in Nat
         /\ Here \in Sets /\ Here = msg.set[operated + ret]
         /\ Here.id \in Nat /\ Here.length \in Nat /\ Here.length < HalfRange
         /\ Here.id >= FirstDataSetId => Here.id \in TemplateIds
         /\ Here.id = TemplateSetId => Here \in TemplateSets /\ Here.template \in TemplateIds
<1>1. msg \in Messages /\ msg.size \in Nat /\ operated \in Nat /\ ret \in Nat
  BY ParserAssumption DEF PTypes
<1>2. operated + ret \in Nat /\ operated + ret < msg.size
  BY <1>1 DEF MoreSets, SetHeaderSize
<1>3. /\ Here = msg.set[operated + ret] /\ Here \in Sets
      /\ Here.id \in Nat /\ Here.length \in Nat /\ Here.length < HalfRange
  BY <1>1, <1>2, SetTyping DEF Here
<1>4. Here.id >= FirstDataSetId => Here.id \in TemplateIds
  BY <1>3 DEF TemplateIds
<1>5. Here.id = TemplateSetId => Here \in TemplateSets /\ Here.template \in TemplateIds
  BY <1>3 DEF TemplateIds, TemplateSets
<1> QED
  BY <1>1, <1>2, <1>3, <1>4, <1>5

\* The template of a data set has so many fields, and its records this length.
LEMMA TemplateHere ==
  ASSUME PTypes, MoreSets, Here.id >= FirstDataSetId, template[Here.id] # NONE
  PROVE  /\ template[Here.id] \in Seq(Nat)
         /\ RecordLength \in Nat /\ RecordLength < HalfRange
         /\ RecordLength = Sum(template[Here.id])
         /\ FieldCount \in Nat /\ FieldCount = Len(template[Here.id])
<1>1. Here.id \in TemplateIds
  BY SetHere
<1>2. template[Here.id] \in WidthLists
  BY <1>1 DEF PTypes
<1> DEFINE w == template[Here.id]
<1> HIDE DEF w
<1>3. w \in Seq(Nat) /\ Sum(w) < HalfRange
  BY <1>2 DEF w, WidthLists
<1>4. Len(w) \in Nat /\ Len(w) \in 0..Len(w)
  BY <1>3
<1>5. Sum(w) \in Nat
  BY <1>3, <1>4, SumToProperties DEF Sum
<1> QED
  BY <1>3, <1>4, <1>5 DEF w, RecordLength, FieldCount

LEMMA SamePlace ==
  ASSUME UNCHANGED <<msg, operated, ret>>
  PROVE  Here' = Here /\ MoreSets' = MoreSets
BY DEF Here, MoreSets

\* The next set is reached when the one here is skipped; one set more was handled,
\* or the set leads to itself.
LEMMA SkipReaches ==
  ASSUME PTypes, MoreSets, AtPlace(msg, visited, operated + ret), Known(Here),
         beyond \/ operated + ret > msg.size => Unfit(msg, visited),
         Skip, UNCHANGED <<msg, operated>>
  PROVE  /\ ret' \in Nat
         /\ AtPlace(msg, visited', operated + ret')
         /\ beyond \/ operated + ret' > msg.size => Unfit(msg, visited')
         /\ Unfit(msg, visited) => Unfit(msg, visited')
         /\ Here.length # 0 => Len(visited') = Len(visited) + 1 /\ Len(visited) \in Nat
                               /\ ret' > 0
<1> DEFINE p == operated + ret
<1>1. /\ msg \in Messages /\ p \in Nat /\ p < msg.size /\ msg.size \in Nat
      /\ Here = msg.set[p] /\ Here.length \in Nat
      /\ operated \in Nat /\ ret \in Nat
  BY SetHere DEF PTypes
<1>2. ret' = ret + Here.length /\ ret' \in Nat /\ operated + ret' = p + Here.length
  BY <1>1 DEF Skip
<1>3. CASE Here.length = 0
  <2>1. ret' = ret /\ visited' = visited
    BY <1>1, <1>2, <1>3 DEF Skip, Visited
  <2> QED
    BY <1>1, <1>2, <1>3, <2>1
<1>4. CASE Here.length # 0
  <2>1. visited' = Append(visited, p)
    BY <1>4 DEF Skip, Visited
  <2>2. /\ visited \in Seq(Nat) /\ Len(visited) \in Nat
        /\ Len(visited) <= p /\ Len(visited) < msg.size
        /\ p = Reached(msg)[Len(visited)]
        /\ \A i \in 1..Len(visited) : visited[i] = Reached(msg)[i - 1] /\ visited[i] < msg.size
    BY <1>1 DEF AtPlace
  <2>3. /\ visited' \in Seq(Nat) /\ Len(visited') = Len(visited) + 1
        /\ \A i \in 1..Len(visited) : visited'[i] = visited[i]
        /\ visited'[Len(visited) + 1] = p
    BY <1>1, <2>1, <2>2
  <2>4. Reached(msg)[Len(visited) + 1] = p + Here.length
    <3>1. Len(visited) + 1 \in 1..msg.size /\ (Len(visited) + 1) - 1 = Len(visited)
      BY <1>1, <2>2
    <3>2. Reached(msg)[Len(visited) + 1] = Onward(msg)[p]
      BY <1>1, <2>2, <3>1, ReachedTyping
    <3> QED
      BY <1>1, <3>2, OnwardTyping
  <2>5. ASSUME NEW i \in 1..Len(visited')
        PROVE  visited'[i] = Reached(msg)[i - 1] /\ visited'[i] < msg.size
    <3>1. CASE i = Len(visited) + 1
      <4>1. i - 1 = Len(visited)
        BY <2>2, <3>1
      <4> QED
        BY <1>1, <2>2, <2>3, <3>1, <4>1
    <3>2. CASE i \in 1..Len(visited)
      BY <2>2, <2>3, <3>2
    <3> QED
      BY <2>2, <2>3, <3>1, <3>2
  <2>6. AtPlace(msg, visited', operated + ret')
    <3>1. Len(visited') <= msg.size /\ Len(visited') <= operated + ret'
      <4>1. PICK n \in Nat : n = Len(visited)
        BY <2>2
      <4>2. n + 1 <= p + Here.length /\ n + 1 <= msg.size
        BY <1>1, <1>4, <2>2, <4>1
      <4> HIDE DEF p
      <4> QED
        BY <1>2, <2>3, <4>1, <4>2
    <3>2. operated + ret' = Reached(msg)[Len(visited')]
      BY <1>2, <2>3, <2>4
    <3> QED
      BY <2>3, <2>5, <3>1, <3>2 DEF AtPlace
  <2>7. Unfit(msg, visited) => Unfit(msg, visited')
    <3>1. 0..Len(visited) \subseteq 0..Len(visited')
      BY <2>2, <2>3
    <3> QED
      BY <3>1 DEF Unfit
  <2>8. operated + ret' > msg.size => Unfit(msg, visited')
    <3> SUFFICES ASSUME p + Here.length > msg.size PROVE Unfit(msg, visited')
      BY <1>2
    <3>1. ~(p + Here.length <= msg.size)
      BY <1>1
    <3>2. ~Fits(msg, p)
      BY <1>1, <3>1 DEF Fits
    <3>3. Len(visited) \in 0..Len(visited')
      BY <2>2, <2>3
    <3> QED
      BY <1>1, <2>2, <3>2, <3>3 DEF Unfit
  <2>9. ret' > 0
    BY <1>1, <1>2, <1>4
  <2>10. beyond => Unfit(msg, visited')
    BY <2>7
  <2> QED
    BY <1>2, <2>2, <2>3, <2>6, <2>7, <2>8, <2>9, <2>10
<1> QED
  BY <1>3, <1>4

\* The set that is here counts among those that were reached.
LEMMA UnfitHere ==
  ASSUME PTypes, MoreSets, AtPlace(msg, visited, operated + ret), ~Fits(msg, operated + ret)
  PROVE  Unfit(msg, visited)
<1>1. operated + ret < msg.size
  BY SetHere
<1>2. Len(visited) \in 0..Len(visited) /\ operated + ret = Reached(msg)[Len(visited)]
  <2>1. Len(visited) \in Nat
    BY DEF AtPlace
  <2> QED
    BY <2>1 DEF AtPlace
<1> QED
  BY <1>1, <1>2 DEF Unfit

\* A template record is read behind the message only if its set does not fit.
LEMMA RecordBeyondUnfit ==
  ASSUME PTypes, MoreSets, Here.id = TemplateSetId, RecordBeyond
  PROVE  ~Fits(msg, operated + ret)
<1> DEFINE p == operated + ret
           room == msg.size - (p + 4)
<1>1. /\ p \in Nat /\ msg.size \in Nat /\ Here = msg.set[p] /\ Here \in Sets
      /\ Here.length \in Nat /\ Here \in TemplateSets
  BY SetHere
<1> SUFFICES ASSUME Fits(msg, p) PROVE FALSE
  OBVIOUS
<1>2. /\ Here.length >= 8 /\ p + Here.length <= msg.size
      /\ \A i \in DOMAIN Here.fields :
           ComesTo(Here, i) => FieldOffset(Here, i) + SpecifierSize <= SizeOfContents(Here)
  BY <1>1 DEF Fits, SetHeaderSize, RecordHeaderSize
<1>3. SizeOfContents(Here) = Here.length - 4
  BY <1>1, <1>2, Contents DEF SetHeaderSize
<1>4. room \in Int /\ SizeOfContents(Here) <= room /\ room >= 4
  BY <1>1, <1>2, <1>3
<1>5. operated + ret + SetHeaderSize = p + 4
  BY DEF SetHeaderSize
<1>6. PICK i \in DOMAIN Here.fields :
        ComesTo(Here, i) /\ FieldOffset(Here, i) + SpecifierSize > room
  BY <1>4, <1>5 DEF RecordBeyond, RecordHeaderSize
<1>7. FieldOffset(Here, i) + SpecifierSize <= SizeOfContents(Here)
  BY <1>2, <1>6
<1>8. FieldOffset(Here, i) \in Nat
  <2> DEFINE fields == Here.fields
             F == [size : {4, 8}, width : Nat]
             sizes == [k \in DOMAIN fields |-> fields[k].size]
  <2>1. \A f \in F : f.size \in Nat
    OBVIOUS
  <2>2. fields \in Seq(F) /\ i \in DOMAIN fields
    BY <1>1, <1>6, ParserAssumption
  <2> HIDE DEF fields, F
  <2>3. Len(fields) \in Nat /\ DOMAIN fields = 1..Len(fields)
        /\ \A k \in 1..Len(fields) : fields[k] \in F
    BY <2>2
  <2>4. sizes \in [1..Len(fields) -> Nat]
    BY <2>1, <2>3
  <2>5. sizes \in Seq(Nat) /\ Len(sizes) = Len(fields)
    BY <2>3, <2>4
  <2>6. FieldOffset(Here, i) = 4 + SumTo(sizes, i - 1)
    BY DEF FieldOffset, RecordHeaderSize, fields
  <2> HIDE DEF sizes
  <2>7. i - 1 \in 0..Len(sizes)
    BY <2>2, <2>3, <2>5
  <2>8. SumTo(sizes, i - 1) \in Nat
    BY <2>5, <2>7, SumToProperties
  <2> QED
    BY <2>6, <2>8
<1> QED
  BY <1>3, <1>4, <1>6, <1>7, <1>8, <1>1 DEF SpecifierSize

\* A field is read behind the message only if its set does not fit.
LEMMA FieldBeyondUnfit ==
  ASSUME PInv, at = "field", FieldBeyond, field <= FieldCount
  PROVE  ~Fits(msg, operated + ret)
<1> DEFINE p == operated + ret
           w == template[Here.id]
<1>1. /\ PTypes /\ MoreSets /\ Here.id >= FirstDataSetId /\ template[Here.id] # NONE
      /\ InRecord(Here, w, at, recOffs, records, field)
  BY DEF PInv, PRecord
<1>2. /\ p \in Nat /\ msg.size \in Nat /\ Here = msg.set[p] /\ Here \in Sets
      /\ Here.length \in Nat
  BY <1>1, SetHere
<1>3. w \in Seq(Nat) /\ FieldCount = Len(w) /\ FieldCount \in Nat
  BY <1>1, TemplateHere
<1> SUFFICES ASSUME Fits(msg, p) PROVE FALSE
  OBVIOUS
<1>4. Here.length >= SetHeaderSize /\ p + Here.length <= msg.size
  BY <1>2 DEF Fits
<1>5. SizeOfContents(Here) = Here.length - 4
  BY <1>2, <1>4, Contents
<1>6. recOffs + Sum(w) <= SizeOfContents(Here) /\ field \in Nat /\ field >= 1
  BY <1>1, <1>4 DEF InRecord
<1>7. operated + ret + SetHeaderSize + recOffs + SumTo(w, field) > msg.size
  BY DEF FieldBeyond
<1>8. recOffs \in Nat /\ operated \in Nat /\ ret \in Nat
  BY <1>1 DEF PTypes
<1> HIDE DEF w
<1>9. field \in 0..Len(w) /\ Len(w) \in 0..Len(w) /\ field <= Len(w)
  BY <1>3, <1>6
<1>10. SumTo(w, field) \in Nat /\ SumTo(w, Len(w)) \in Nat /\ SumTo(w, field) <= SumTo(w, Len(w))
  BY <1>3, <1>9, SumToProperties, SumToGrows
<1>11. Sum(w) = SumTo(w, Len(w))
  BY DEF Sum
<1> QED
  BY <1>2, <1>4, <1>5, <1>6, <1>7, <1>8, <1>10, <1>11 DEF SetHeaderSize

LEMMA ParserInit == Init => PInv
<1> SUFFICES ASSUME Init PROVE PInv
  OBVIOUS
<1> QED
  BY DEF Init, PInv, PTypes, PPlace, PRecord

\* A set is skipped between two sets.
LEMMA SkipStep ==
  ASSUME PInv, at \in {"set", "record"}, at' = "set", MoreSets, Known(Here), Skip,
         UNCHANGED <<msg, operated>>, recOffs' \in Nat, records' \in Nat,
         template' \in [TemplateIds -> WidthLists \cup {NONE}],
         beyond' => beyond \/ Unfit(msg, visited)
  PROVE  PInv'
<1>1. AtPlace(msg, visited, operated + ret)
      /\ (beyond \/ operated + ret > msg.size => Unfit(msg, visited))
  BY DEF PInv, PPlace, Place
<1>2. /\ ret' \in Nat
      /\ AtPlace(msg, visited', operated + ret')
      /\ beyond \/ operated + ret' > msg.size => Unfit(msg, visited')
      /\ Unfit(msg, visited) => Unfit(msg, visited')
  BY <1>1, SkipReaches DEF PInv
<1>3. PTypes'
  BY <1>2 DEF PInv, PTypes
<1>4. PPlace'
  BY <1>2 DEF PPlace, Place
<1>5. PRecord'
  BY DEF PRecord
<1> QED
  BY <1>3, <1>4, <1>5 DEF PInv

\* A step at the same place of the same message.
LEMMA StayStep ==
  ASSUME PInv, at # "idle", at' \in {"packet", "set", "record", "field", "crashed"},
         msg' = msg, visited' = visited, Place' = Place,
         operated' \in Nat, ret' \in Nat, recOffs' \in Nat, records' \in Nat,
         template' = template, beyond' => beyond \/ Unfit(msg, visited)
  PROVE  PTypes' /\ PPlace'
<1>1. PTypes'
  BY DEF PInv, PTypes
<1>2. PPlace'
  BY DEF PInv, PPlace
<1> QED
  BY <1>1, <1>2

\* A step over the records or the fields of the same data set.
LEMMA RecordStep ==
  ASSUME PInv, at \in {"record", "field"}, at' \in {"record", "field"},
         UNCHANGED <<msg, operated, ret, template, visited>>,
         recOffs' \in Nat, records' \in Nat,
         beyond' => beyond \/ Unfit(msg, visited),
         InRecord(Here, template[Here.id], at', recOffs', records', field')
  PROVE  PInv'
<1>1. Place' = Place
  BY DEF Place
<1>2. PTypes' /\ PPlace'
  BY <1>1, StayStep DEF PInv, PTypes
<1>3. Here' = Here /\ MoreSets' = MoreSets
  BY SamePlace
<1>4. PRecord'
  BY <1>3 DEF PInv, PRecord
<1> QED
  BY <1>2, <1>4 DEF PInv

\* Where the next record begins.
LEMMA NextOffsetStep ==
  ASSUME PInv, at = "field", at' = "record", NextOffset
  PROVE  /\ recOffs' \in Nat /\ records' \in Nat
         /\ InRecord(Here, template[Here.id], at', recOffs', records', field')
         /\ ~Endless => recOffs' = recOffs + RecordLength /\ RecordLength > 0
<1>1. /\ PTypes /\ MoreSets /\ Here.id >= FirstDataSetId /\ template[Here.id] # NONE
      /\ InRecord(Here, template[Here.id], at, recOffs, records, field)
  BY DEF PInv, PRecord
<1>2. /\ RecordLength \in Nat /\ RecordLength < HalfRange
      /\ RecordLength = Sum(template[Here.id])
  BY <1>1, TemplateHere
<1>3. recOffs \in Nat /\ records \in Nat
  BY <1>1 DEF PTypes
<1>4. recOffs' = (recOffs + RecordLength) % SizeRange /\ recOffs' \in Nat
  BY <1>2, <1>3, Ranges DEF NextOffset, EndOfRecord
<1>5. records' \in Nat /\ records' = IF Endless THEN records ELSE records + 1
  BY <1>3 DEF NextOffset
<1>6. CASE Here.length >= SetHeaderSize
  <2>1. Here \in Sets /\ Here.length \in Nat
    BY <1>1, SetHere
  <2>2. SizeOfContents(Here) \in Nat /\ SizeOfContents(Here) < HalfRange
    BY <1>6, <2>1, Contents
  <2>3. recOffs = records * RecordLength /\ recOffs + RecordLength <= SizeOfContents(Here)
    BY <1>1, <1>2, <1>6 DEF InRecord
  <2>4. recOffs' = recOffs + RecordLength
    <3>1. recOffs + RecordLength \in 0..(SizeRange - 1)
      BY <1>2, <1>3, <2>2, <2>3, Ranges
    <3> QED
      BY <1>4, <3>1, Ranges
  <2>5. ~(Here.length < SetHeaderSize)
    BY <1>6, <2>1 DEF SetHeaderSize
  <2>6. recOffs' = records' * RecordLength
    <3>1. CASE RecordLength = 0
      <4>1. records * 0 = 0 /\ records' * 0 = 0
        BY <1>3, <1>5
      <4> QED
        BY <2>3, <2>4, <3>1, <4>1
    <3>2. CASE RecordLength # 0
      <4>1. records' = records + 1
        BY <1>5, <2>5, <3>2 DEF Endless
      <4>2. (records + 1) * RecordLength = records * RecordLength + RecordLength
        BY <1>2, <1>3
      <4> QED
        BY <2>3, <2>4, <4>1, <4>2
    <3> QED
      BY <3>1, <3>2
  <2>7. ~Endless => RecordLength > 0
    BY <1>2 DEF Endless
  <2> QED
    BY <1>2, <1>4, <1>5, <2>3, <2>4, <2>6, <2>7 DEF InRecord
<1>7. CASE ~(Here.length >= SetHeaderSize)
  <2>1. Here.length \in Nat
    BY <1>1, SetHere
  <2>2. Endless
    BY <1>7, <2>1 DEF Endless, SetHeaderSize
  <2> QED
    BY <1>4, <1>5, <1>7, <2>2 DEF InRecord
<1> QED
  BY <1>6, <1>7

LEMMA ParserNext == PInv /\ [Next]_vars => PInv'
<1> SUFFICES ASSUME PInv, [Next]_vars PROVE PInv'
  OBVIOUS
<1>0. /\ PTypes /\ operated \in Nat /\ ret \in Nat /\ recOffs \in Nat /\ records \in Nat
      /\ template \in [TemplateIds -> WidthLists \cup {NONE}]
  BY DEF PInv, PTypes
<1>1. CASE ReadMessage
  <2>1. PTypes'
    BY <1>0, <1>1 DEF ReadMessage, PTypes
  <2>2. PPlace'
    <3>1. CASE at' = "packet"
      <4>1. /\ msg' \in Messages /\ operated' = 0 /\ visited' = <<>> /\ beyond' = FALSE
            /\ Place' = 0
        BY <1>1, <3>1 DEF ReadMessage, Place
      <4>2. Reached(msg')[0] = 0 /\ msg'.size \in Nat
        BY <4>1, ReachedTyping, OnwardTyping
      <4>3. AtPlace(msg', visited', 0)
        BY <4>1, <4>2 DEF AtPlace
      <4>4. ~(0 > msg'.size)
        BY <4>2
      <4> QED
        BY <4>1, <4>3, <4>4 DEF PPlace
    <3>2. CASE at' = "idle"
      BY <3>2 DEF PPlace
    <3> QED
      BY <1>1, <3>1, <3>2 DEF ReadMessage
  <2>3. PRecord'
    BY <1>1 DEF ReadMessage, PRecord
  <2> QED
    BY <2>1, <2>2, <2>3 DEF PInv
<1>2. CASE EnterSet
  <2>1. Place' = Place
    BY <1>0, <1>2 DEF EnterSet, Place
  <2>2. PTypes' /\ PPlace'
    BY <1>0, <1>2, <2>1, StayStep DEF EnterSet
  <2>3. PRecord'
    BY <1>2 DEF EnterSet, PRecord
  <2> QED
    BY <2>2, <2>3 DEF PInv
<1>3. CASE LeaveSet
  <2>1. /\ at = "set" /\ operated' = operated + ret /\ at' \in {"packet", "idle"}
        /\ UNCHANGED <<msg, ret, template, recOffs, visited, records, beyond>>
    BY <1>3 DEF LeaveSet, EndPacket
  <2>2. CASE at' = "packet"
    <3>1. Place' = Place
      BY <2>1, <2>2 DEF Place
    <3>2. PTypes' /\ PPlace'
      BY <1>0, <2>1, <2>2, <3>1, StayStep
    <3> QED
      BY <2>2, <3>2 DEF PRecord, PInv
  <2>3. CASE at' = "idle"
    BY <1>0, <2>1, <2>3 DEF PInv, PTypes, PPlace, PRecord
  <2> QED
    BY <2>1, <2>2, <2>3
<1>4. CASE RefuseSet
  BY <1>0, <1>4 DEF RefuseSet, EndPacket, PInv, PTypes, PPlace, PRecord
<1>5. CASE SkipOptionSet
  BY <1>0, <1>5, SkipStep DEF SkipOptionSet, Known
<1>6. CASE LearnTemplate
  <2>1. /\ at = "set" /\ at' = "set" /\ MoreSets /\ Here.id = TemplateSetId /\ Skip
        /\ UNCHANGED <<msg, operated, recOffs, records>>
        /\ template' = IF Complete(Here)
                       THEN [template EXCEPT ![Here.template] = Widths(Here)]
                       ELSE template
        /\ beyond' = (beyond \/ RecordBeyond)
    BY <1>6 DEF LearnTemplate
  <2>2. Here \in TemplateSets /\ Here.template \in TemplateIds /\ Known(Here)
    BY <1>0, <2>1, SetHere DEF Known
  <2>3. Widths(Here) \in WidthLists
    BY <2>2, WidthsTyping
  <2>4. template' \in [TemplateIds -> WidthLists \cup {NONE}]
    BY <1>0, <2>1, <2>2, <2>3
  <2>5. AtPlace(msg, visited, operated + ret)
    BY <2>1 DEF PInv, PPlace, Place
  <2>6. beyond' => beyond \/ Unfit(msg, visited)
    BY <1>0, <2>1, <2>5, RecordBeyondUnfit, UnfitHere
  <2> QED
    BY <1>0, <2>1, <2>2, <2>4, <2>6, SkipStep
<1>7. CASE EnterDataSet
  <2>1. /\ at = "set" /\ at' = "record" /\ recOffs' = 0 /\ records' = 0
        /\ MoreSets /\ Here.id >= FirstDataSetId /\ template[Here.id] # NONE
        /\ UNCHANGED <<msg, operated, ret, template, visited, beyond>>
    BY <1>7 DEF EnterDataSet
  <2>2. Place' = Place
    BY <2>1 DEF Place
  <2>3. PTypes' /\ PPlace'
    BY <1>0, <2>1, <2>2, StayStep
  <2>4. Here' = Here /\ MoreSets' = MoreSets
    BY <2>1, SamePlace
  <2>5. Sum(template[Here.id]) \in Nat /\ Here \in Sets
    BY <1>0, <2>1, TemplateHere, SetHere
  <2>6. InRecord(Here, template[Here.id], "record", 0, 0, field')
    <3>1. Here.length >= SetHeaderSize => SizeOfContents(Here) \in Nat
      BY <2>5, Contents
    <3> QED
      BY <2>5, <3>1 DEF InRecord
  <2>7. PRecord'
    BY <2>1, <2>4, <2>6 DEF PRecord
  <2> QED
    BY <2>3, <2>7 DEF PInv
<1>8. CASE SkipDataSet
  BY <1>0, <1>8, SkipStep DEF SkipDataSet, Known
<1>9. CASE NextRecord
  <2>1. /\ at = "record" /\ MoreSets /\ Here.id >= FirstDataSetId /\ template[Here.id] # NONE
        /\ InRecord(Here, template[Here.id], at, recOffs, records, field)
        /\ UNCHANGED <<msg, operated, template, recOffs, records, beyond>>
    BY <1>9 DEF NextRecord, PInv, PRecord
  <2>2. CASE EndOfRecord <= SizeOfContents(Here)
    <3>1. at' = "field" /\ field' = 1 /\ UNCHANGED <<ret, visited>>
      BY <1>9, <2>2 DEF NextRecord
    <3>2. /\ RecordLength \in Nat /\ RecordLength < HalfRange
          /\ RecordLength = Sum(template[Here.id]) /\ Len(template[Here.id]) \in Nat
      BY <1>0, <2>1, TemplateHere
    <3>3. Here.length >= SetHeaderSize =>
            recOffs + RecordLength <= SizeOfContents(Here)
      <4> SUFFICES ASSUME Here.length >= SetHeaderSize
                   PROVE  recOffs + RecordLength <= SizeOfContents(Here)
        OBVIOUS
      <4>1. SizeOfContents(Here) \in Nat /\ SizeOfContents(Here) < HalfRange
        BY <1>0, <2>1, SetHere, Contents
      <4>2. recOffs <= SizeOfContents(Here)
        BY <2>1 DEF InRecord
      <4>3. recOffs + RecordLength \in 0..(SizeRange - 1)
        BY <1>0, <3>2, <4>1, <4>2, Ranges
      <4>4. EndOfRecord = recOffs + RecordLength
        BY <4>3, Ranges DEF EndOfRecord
      <4> QED
        BY <2>2, <4>4
    <3>4. InRecord(Here, template[Here.id], "field", recOffs, records, 1)
      BY <2>1, <3>2, <3>3 DEF InRecord
    <3> QED
      BY <1>0, <2>1, <3>1, <3>4, RecordStep
  <2>3. CASE ~(EndOfRecord <= SizeOfContents(Here))
    <3>1. at' = "set" /\ Skip
      BY <1>9, <2>3 DEF NextRecord
    <3> QED
      BY <1>0, <2>1, <3>1, SkipStep DEF Known
  <2> QED
    BY <2>2, <2>3
<1>10. ASSUME at = "field", field <= FieldCount, FieldBeyond
       PROVE  Unfit(msg, visited)
  <2>1. MoreSets /\ AtPlace(msg, visited, operated + ret)
    BY <1>10 DEF PInv, PPlace, PRecord, Place
  <2> QED
    BY <1>0, <1>10, <2>1, FieldBeyondUnfit, UnfitHere
<1>11. CASE ConvertField
  <2>1. /\ at = "field" /\ at' = "field" /\ field <= FieldCount /\ field' = field + 1
        /\ beyond' \in {beyond, beyond \/ FieldBeyond}
        /\ UNCHANGED <<msg, operated, ret, template, recOffs, visited, records>>
    BY <1>11 DEF ConvertField
  <2>2. /\ MoreSets /\ Here.id >= FirstDataSetId /\ template[Here.id] # NONE
        /\ InRecord(Here, template[Here.id], at, recOffs, records, field)
    BY <2>1 DEF PInv, PRecord
  <2>3. FieldCount \in Nat /\ FieldCount = Len(template[Here.id])
    BY <1>0, <2>2, TemplateHere
  <2>4. InRecord(Here, template[Here.id], at', recOffs', records', field')
    BY <2>1, <2>2, <2>3 DEF InRecord
  <2>5. beyond' => beyond \/ Unfit(msg, visited)
    BY <1>10, <2>1
  <2> QED
    BY <1>0, <2>1, <2>4, <2>5, RecordStep
<1>12. CASE RefuseRecord
  <2>1. /\ at = "field" /\ at' = "record" /\ field <= FieldCount /\ NextOffset
        /\ beyond' = (beyond \/ FieldBeyond)
        /\ UNCHANGED <<msg, operated, ret, template, visited>>
    BY <1>12 DEF RefuseRecord
  <2>2. beyond' => beyond \/ Unfit(msg, visited)
    BY <1>10, <2>1
  <2>3. /\ recOffs' \in Nat /\ records' \in Nat
        /\ InRecord(Here, template[Here.id], at', recOffs', records', field')
    BY <2>1, NextOffsetStep
  <2> QED
    BY <2>1, <2>2, <2>3, RecordStep
<1>13. CASE PrintRecord
  <2>1. /\ at = "field" /\ at' = "record" /\ NextOffset
        /\ UNCHANGED <<msg, operated, ret, template, visited, beyond>>
    BY <1>13 DEF PrintRecord
  <2>2. /\ recOffs' \in Nat /\ records' \in Nat
        /\ InRecord(Here, template[Here.id], at', recOffs', records', field')
    BY <2>1, NextOffsetStep
  <2> QED
    BY <2>1, <2>2, RecordStep
<1>14. CASE ReadFault
  <2>1. /\ at \in {"set", "field"} /\ at' = "crashed"
        /\ UNCHANGED <<msg, operated, ret, template, recOffs, visited, records>>
    BY <1>14 DEF ReadFault
  <2>2. Unfit(msg, visited)
    <3>1. CASE at = "set" /\ MoreSets /\ Here.id = TemplateSetId /\ RecordBeyond
      <4>1. AtPlace(msg, visited, operated + ret)
        BY <3>1 DEF PInv, PPlace, Place
      <4> QED
        BY <1>0, <3>1, <4>1, RecordBeyondUnfit, UnfitHere
    <3>2. CASE at = "field" /\ field <= FieldCount /\ FieldBeyond
      BY <1>10, <3>2
    <3> QED
      BY <1>14, <3>1, <3>2 DEF ReadFault
  <2>3. Place' = Place
    BY <2>1 DEF Place
  <2>4. PTypes' /\ PPlace'
    BY <1>0, <2>1, <2>2, <2>3, StayStep
  <2>5. PRecord'
    BY <2>1 DEF PRecord
  <2> QED
    BY <2>4, <2>5 DEF PInv
<1>15. CASE UNCHANGED vars
  <2>1. UNCHANGED <<at, msg, operated, ret, template, recOffs, field, visited, records,
                    beyond>>
    BY <1>15 DEF vars
  <2>2. Here' = Here /\ MoreSets' = MoreSets /\ Place' = Place
    BY <2>1, SamePlace DEF Place
  <2>3. PTypes' /\ PPlace'
    BY <2>1, <2>2 DEF PInv, PTypes, PPlace
  <2>4. PRecord'
    BY <2>1, <2>2 DEF PInv, PRecord
  <2> QED
    BY <2>3, <2>4 DEF PInv
<1> QED
  BY <1>1, <1>2, <1>3, <1>4, <1>5, <1>6, <1>7, <1>8, <1>9, <1>11, <1>12, <1>13,
     <1>14, <1>15 DEF Next, Parse, Done

-----------------------------------------------------------------------------
(* What follows from it.                                                   *)

\* The parser keeps PInv, whatever messages come.
THEOREM ParserInvariant == Spec => []PInv
<1> QED
  BY ParserInit, ParserNext, PTL DEF Spec

\* The parser goes from the beginning of a set to that of the next one, and gets or
\* reads behind the message only for a set whose header or template record says so,
\* whatever the lengths in the message are.
THEOREM StaysInside == Spec => []InsideMessage
<1>1. PInv => InsideMessage
  <2> SUFFICES ASSUME PInv, at \in {"set", "record", "field", "crashed"}
               PROVE  /\ operated + ret = Reached(msg)[Len(visited)]
                      /\ beyond \/ operated + ret > msg.size => Unfit(msg, visited)
    BY DEF InsideMessage, Unfit
  <2>1. Place = operated + ret
    BY DEF Place
  <2>2. AtPlace(msg, visited, Place) /\ (beyond \/ Place > msg.size => Unfit(msg, visited))
    BY DEF PInv, PPlace
  <2> QED
    BY <2>1, <2>2 DEF AtPlace
<1> QED
  BY <1>1, ParserInvariant, PTL

\* A message is accepted exactly when it consists of known sets that fill it, and
\* then each of its sets was handled, in order and once.
THEOREM AcceptedOnlyComplete == Spec => AcceptedIsComplete
<1>1. PInv /\ [Next]_vars =>
        [at # "idle" /\ at' = "idle" =>
           /\ result' = "OK" <=> WellFormed(msg)
           /\ result' = "OK" =>
                /\ Reached(msg)[Len(visited')] = msg.size
                /\ visited' = [i \in 1..Len(visited') |-> Reached(msg)[i - 1]]]_vars
  <2> SUFFICES ASSUME PInv, Next, at # "idle", at' = "idle"
               PROVE  /\ result' = "OK" <=> WellFormed(msg)
                      /\ result' = "OK" =>
                           /\ Reached(msg)[Len(visited')] = msg.size
                           /\ visited' = [i \in 1..Len(visited') |-> Reached(msg)[i - 1]]
    BY DEF vars
  <2>1. LeaveSet \/ RefuseSet
    BY DEF Next, Parse, Done, vars, ReadMessage, EnterSet, SkipOptionSet, LearnTemplate,
           EnterDataSet, SkipDataSet, NextRecord, ConvertField, RefuseRecord,
           PrintRecord, ReadFault
  <2>2. at = "set" /\ visited' = visited
    BY <2>1 DEF LeaveSet, RefuseSet
  <2> DEFINE p == operated + ret
             n == Len(visited)
  <2>3. /\ msg \in Messages /\ msg.size \in Nat /\ operated \in Nat /\ ret \in Nat /\ PTypes
    BY OnwardTyping DEF PInv, PTypes
  <2>4. AtPlace(msg, visited, p)
    BY <2>2 DEF PInv, PPlace, Place
  <2>5. /\ visited \in Seq(Nat) /\ n \in 0..msg.size /\ p = Reached(msg)[n]
        /\ \A i \in 1..n : visited[i] = Reached(msg)[i - 1] /\ visited[i] < msg.size
    BY <2>3, <2>4 DEF AtPlace
  <2>6. \A i \in 0..msg.size : Reached(msg)[i] \in Nat
    BY <2>3, ReachedTyping
  <2>7. ASSUME NEW i \in 0..msg.size, i < n PROVE Reached(msg)[i] # msg.size
    <3>1. i + 1 \in 1..n /\ (i + 1) - 1 = i
      BY <2>5, <2>7
    <3>2. visited[i + 1] = Reached(msg)[i] /\ visited[i + 1] < msg.size
      BY <2>5, <3>1
    <3> QED
      BY <2>3, <2>6, <3>2
  <2>8. CASE LeaveSet
    <3>1. p >= msg.size /\ result' = IF p = msg.size THEN "OK" ELSE "EINVAL"
      BY <2>2, <2>3, <2>8 DEF LeaveSet, EndPacket
    <3>2. ASSUME p = msg.size
          PROVE  /\ WellFormed(msg)
                 /\ Reached(msg)[n] = msg.size
                 /\ visited = [i \in 1..n |-> Reached(msg)[i - 1]]
      <4>1. WellFormed(msg)
        BY <2>5, <3>2 DEF WellFormed
      <4>2. visited = [i \in 1..n |-> visited[i]]
        BY <2>5
      <4> QED
        BY <2>5, <3>2, <4>1, <4>2
    <3>3. ASSUME p # msg.size PROVE ~WellFormed(msg)
      <4> SUFFICES ASSUME NEW i \in 0..msg.size, Reached(msg)[i] = msg.size PROVE FALSE
        BY DEF WellFormed
      <4>1. i >= n
        BY <2>5, <2>7
      <4>2. i \in n..msg.size
        BY <2>5, <4>1
      <4>3. Reached(msg)[i] >= Reached(msg)[n]
        BY <2>3, <2>5, <4>2, ReachedGrows
      <4> QED
        <5>1. p \in Nat /\ p > msg.size
          BY <2>3, <3>1, <3>3
        <5>2. msg.size >= p
          BY <2>5, <4>3
        <5> HIDE DEF p
        <5> QED
          BY <2>3, <5>1, <5>2
    <3> QED
      BY <2>2, <3>1, <3>2, <3>3
  <2>9. CASE RefuseSet
    <3>1. MoreSets /\ ~Known(Here) /\ EndPacket(operated)
      BY <2>9 DEF RefuseSet
    <3>2. p \in Nat /\ p < msg.size /\ Here = msg.set[p]
      BY <2>3, <3>1, SetHere
    <3>3. result' = "EINVAL"
      BY <2>3, <3>1, <3>2 DEF EndPacket
    <3>4. Onward(msg)[p] = p
      BY <2>3, <3>1, <3>2, OnwardTyping
    <3>5. ~WellFormed(msg)
      <4> SUFFICES ASSUME NEW i \in 0..msg.size, Reached(msg)[i] = msg.size PROVE FALSE
        BY DEF WellFormed
      <4>1. i \in n..msg.size
        BY <2>5, <2>7
      <4>2. Onward(msg)[Reached(msg)[n]] = Reached(msg)[n]
        BY <2>5, <3>4
      <4>3. Reached(msg)[i] = Reached(msg)[n]
        BY <2>3, <2>5, <4>1, <4>2, ReachedGrows
      <4> QED
        BY <2>3, <2>5, <3>2, <4>3
    <3> QED
      BY <3>3, <3>5
  <2> QED
    BY <2>1, <2>8, <2>9
<1> QED
  BY <1>1, ParserInvariant, PTL DEF Spec, AcceptedIsComplete

\* Every data set that is left, and is no shorter than its header, yielded as many
\* records as fit in it, whatever the filter and the conversions made of them.
THEOREM RecordsAreComplete == Spec => EveryRecordHandled
<1>1. PInv /\ [Next]_vars =>
        [at = "record" /\ at' = "set" /\ Here.length >= SetHeaderSize =>
           records = SizeOfContents(Here) \div RecordLength]_vars
  <2> SUFFICES ASSUME PInv, Next, at = "record", at' = "set", Here.length >= SetHeaderSize
               PROVE  records = SizeOfContents(Here) \div RecordLength
    BY DEF vars
  <2>1. NextRecord
    BY DEF Next, Parse, Done, vars, ReadMessage, EnterSet, LeaveSet, RefuseSet,
           SkipOptionSet, LearnTemplate, EnterDataSet, SkipDataSet,
           ConvertField, RefuseRecord, PrintRecord, ReadFault
  <2>2. ~(EndOfRecord <= SizeOfContents(Here))
    BY <2>1 DEF NextRecord
  <2>3. /\ PTypes /\ MoreSets /\ Here.id >= FirstDataSetId /\ template[Here.id] # NONE
        /\ InRecord(Here, template[Here.id], at, recOffs, records, field)
        /\ recOffs \in Nat /\ records \in Nat
    BY DEF PInv, PRecord, PTypes
  <2>4. /\ RecordLength \in Nat /\ RecordLength < HalfRange
        /\ RecordLength = Sum(template[Here.id])
    BY <2>3, TemplateHere
  <2>5. SizeOfContents(Here) \in Nat /\ SizeOfContents(Here) < HalfRange
    BY <2>3, SetHere, Contents
  <2>6. recOffs = records * RecordLength /\ recOffs <= SizeOfContents(Here)
    BY <2>3, <2>4 DEF InRecord
  <2>7. EndOfRecord = recOffs + RecordLength
    <3>1. recOffs + RecordLength \in 0..(SizeRange - 1)
      BY <2>3, <2>4, <2>5, <2>6, Ranges
    <3> QED
      BY <3>1, Ranges DEF EndOfRecord
  <2>8. /\ records * RecordLength <= SizeOfContents(Here)
        /\ SizeOfContents(Here) < records * RecordLength + RecordLength
    BY <2>2, <2>3, <2>4, <2>5, <2>6, <2>7
  <2> QED
    BY <2>3, <2>4, <2>5, <2>6, <2>8, QuotientOf
<1> QED
  BY <1>1, ParserInvariant, PTL DEF Spec, EveryRecordHandled

-----------------------------------------------------------------------------
(* The loops.  That a message ends unless the parser is stuck follows from *)
(* the two theorems by induction, which is TLC's part.                     *)

\* How far the parser is with its message: the sets behind it, and then, at the same
\* set, whether it left one, was called again, is before the set or within it.
Handled == Len(visited)
Stage == IF at = "set" /\ ret > 0 THEN 0 ELSE IF at = "packet" THEN 1
         ELSE IF at = "set" THEN 2 ELSE 3
FieldPlace == IF at = "field" THEN field ELSE 0

Further ==
  \/ Handled' > Handled
  \/ Handled' = Handled /\ Stage' > Stage
  \/ Handled' = Handled /\ Stage' = Stage /\ recOffs' > recOffs
  \/ Handled' = Handled /\ Stage' = Stage /\ recOffs' = recOffs /\ FieldPlace' > FieldPlace

\* Every step of the loops over sets, records and fields gets further in the message or
\* ends it, but for the places in which they are stuck (ipfix_data_types.cpp:46-53,
\* 93-106, 245).
MovesOn == [][at \notin {"idle", "crashed"} /\ ~Stuck =>
                msg' = msg /\ (at' \in {"idle", "crashed"} \/ Further)]_vars

\* There is an end to what it can get through: no more sets than the message has bytes,
\* no more records than fill their set, and the fields of a template.
Bounded ==
  at # "idle" => /\ Handled <= msg.size
                 /\ at \in {"record", "field"} /\ ~Endless => recOffs <= SizeOfContents(Here)
                 /\ at = "field" => field <= FieldCount + 1

\* What the parser gets through has an end, whatever the messages say.
THEOREM MessagesAreBounded == Spec => []Bounded
<1>1. PInv => Bounded
  <2> SUFFICES ASSUME PInv, at # "idle" PROVE Bounded
    BY DEF Bounded
  <2>1. Handled <= msg.size
    BY DEF PInv, PPlace, AtPlace, Handled
  <2>2. ASSUME at \in {"record", "field"}
        PROVE  /\ ~Endless => recOffs <= SizeOfContents(Here)
               /\ at = "field" => field <= FieldCount + 1
    <3>1. /\ PTypes /\ MoreSets /\ Here.id >= FirstDataSetId /\ template[Here.id] # NONE
          /\ InRecord(Here, template[Here.id], at, recOffs, records, field)
      BY <2>2 DEF PInv, PRecord
    <3>2. Here.length \in Nat
      BY <3>1, SetHere
    <3>3. ~Endless => Here.length >= SetHeaderSize
      BY <3>2 DEF Endless, SetHeaderSize
    <3> QED
      BY <3>1, <3>3 DEF InRecord, FieldCount
  <2> QED
    BY <2>1, <2>2 DEF Bounded
<1> QED
  BY <1>1, ParserInvariant, PTL

\* Past a set of some length, the parser is further on.
LEMMA SkipIsFurther ==
  ASSUME PInv, at \in {"set", "record"}, MoreSets, Known(Here), Skip, Here.length # 0,
         UNCHANGED <<msg, operated>>
  PROVE  Further
<1>1. AtPlace(msg, visited, operated + ret)
      /\ (beyond \/ operated + ret > msg.size => Unfit(msg, visited))
  BY DEF PInv, PPlace, Place
<1>2. Len(visited') = Len(visited) + 1 /\ Len(visited) \in Nat
  BY <1>1, SkipReaches DEF PInv
<1>3. Handled' > Handled
  BY <1>2 DEF Handled
<1> QED
  BY <1>3 DEF Further

\* No loop goes round without getting further, except where it is stuck.
THEOREM LoopsMoveOn == Spec => MovesOn
<1>1. PInv /\ [Next]_vars =>
        [at \notin {"idle", "crashed"} /\ ~Stuck =>
           msg' = msg /\ (at' \in {"idle", "crashed"} \/ Further)]_vars
  <2> SUFFICES ASSUME PInv, Next, at \notin {"idle", "crashed"}, ~Stuck
               PROVE  msg' = msg /\ (at' \in {"idle", "crashed"} \/ Further)
    BY DEF vars
  <2>1. PTypes /\ operated \in Nat /\ ret \in Nat /\ recOffs \in Nat /\ msg.size \in Nat
    BY OnwardTyping DEF PInv, PTypes
  <2>2. CASE EnterSet
    BY <2>1, <2>2 DEF EnterSet, Handled, Stage, Further
  <2>3. CASE LeaveSet
    <3>1. /\ at = "set" /\ operated' = operated + ret
          /\ UNCHANGED <<msg, ret, visited>>
          /\ at' = "packet" => ~MoreSets /\ msg.size > operated + ret
          /\ at' \in {"packet", "idle"}
      BY <2>3 DEF LeaveSet, EndPacket
    <3>2. at' = "packet" => ret > 0
      BY <2>1, <3>1 DEF Stuck, NoHeaderLeft
    <3> QED
      BY <2>1, <3>1, <3>2 DEF Handled, Stage, Further
  <2>4. CASE RefuseSet
    BY <2>4 DEF RefuseSet, EndPacket
  <2>5. CASE SkipOptionSet \/ LearnTemplate \/ SkipDataSet
    <3>1. at = "set" /\ MoreSets /\ Known(Here) /\ Skip /\ UNCHANGED <<msg, operated>>
      BY <2>5 DEF SkipOptionSet, LearnTemplate, SkipDataSet, Known
    <3>2. Here.length # 0
      BY <3>1 DEF Stuck, NoLength
    <3> QED
      BY <3>1, <3>2, SkipIsFurther
  <2>6. CASE EnterDataSet
    BY <2>1, <2>6 DEF EnterDataSet, Handled, Stage, Further
  <2>7. CASE NextRecord
    <3>1. /\ at = "record" /\ MoreSets /\ Known(Here) /\ UNCHANGED <<msg, operated, recOffs>>
          /\ ~Endless
      BY <2>7 DEF NextRecord, PInv, PRecord, Known, Stuck, EndlessRecords
    <3>2. CASE at' = "set"
      <4>1. Skip
        BY <2>7, <3>2 DEF NextRecord
      <4>2. Here.length # 0
        BY <3>1 DEF Endless, SetHeaderSize
      <4> QED
        BY <3>1, <4>1, <4>2, SkipIsFurther
    <3>3. CASE at' # "set"
      <4>1. at' = "field" /\ field' = 1 /\ UNCHANGED <<ret, visited>>
        BY <2>7, <3>3 DEF NextRecord
      <4> QED
        BY <2>1, <3>1, <4>1 DEF Handled, Stage, FieldPlace, Further
    <3> QED
      BY <3>2, <3>3
  <2>8. CASE ConvertField
    <3>1. at = "field" /\ at' = "field" /\ field' = field + 1
          /\ UNCHANGED <<msg, operated, ret, recOffs, visited>>
      BY <2>8 DEF ConvertField
    <3>2. field \in Nat
      BY <3>1 DEF PInv, PRecord, InRecord
    <3> QED
      BY <2>1, <3>1, <3>2 DEF Handled, Stage, FieldPlace, Further
  <2>9. CASE RefuseRecord \/ PrintRecord
    <3>1. at = "field" /\ at' = "record" /\ NextOffset
          /\ UNCHANGED <<msg, operated, ret, visited>>
      BY <2>9 DEF RefuseRecord, PrintRecord
    <3>2. ~Endless
      BY <3>1 DEF Stuck, EndlessRecords
    <3>3. recOffs' = recOffs + RecordLength /\ RecordLength > 0
      BY <3>1, <3>2, NextOffsetStep
    <3>4. RecordLength \in Nat
      BY <2>1, <3>1, TemplateHere DEF PInv, PRecord
    <3> QED
      BY <2>1, <3>1, <3>3, <3>4 DEF Handled, Stage, Further
  <2>10. CASE ReadFault
    BY <2>10 DEF ReadFault
  <2>11. ~ReadMessage /\ ~Done
    BY DEF ReadMessage, Done
  <2> QED
    BY <2>2, <2>3, <2>4, <2>5, <2>6, <2>7, <2>8, <2>9, <2>10, <2>11 DEF Next, Parse
<1> QED
  BY <1>1, ParserInvariant, PTL DEF Spec, MovesOn
=============================================================================
