----------------------------- MODULE Options_proofs -----------------------------
(***************************************************************************)
(* For any arguments, any statements and any files that include one        *)
(* another: the lexer stays within its stack, and the program runs with    *)
(* the settings and the directories that the precedence of the two sources *)
(* gives it, and the parser was given the text of the first file with the  *)
(* text of the included ones in the places of the directives.              *)
(***************************************************************************)
EXTENDS Options, NumberTheorems

Reader == "conffile"
Places == [file : {Reader} \cup DOMAIN Contents, at : Nat]

\* The first file is at level 0 and included ones are above it.
PlaceAt(l, b) == b \in Places /\ (b.file = Reader <=> l = 0)

\* Each level that is in use remembers a place in a file of its own level.
StackOK ==
  /\ level \in 0..MaxNested /\ PlaceAt(level, buffer)
  /\ DOMAIN nested = 0..(MaxNested - 1)
  /\ \A l \in 0..(level - 1) : PlaceAt(l, nested[l].parent)

Numbers == TimeSettings \cup AddressSettings \cup NumberSettings

OTypes ==
  /\ phase \in {"arguments", "statements", "start", "running", "exit", "crashed"}
  /\ DOMAIN opt = Settings
  /\ \A s \in Numbers : opt[s] \in Int
  /\ inCLI \in BOOLEAN /\ confFile \in BOOLEAN
  /\ given \in Seq(Arguments) /\ stated \in Seq(Statements)

Reads == {"arguments", "statements", "start"}

\* The settings are those that what was read so far calls for.
SoFar ==
  /\ phase = "arguments" => stated = <<>>
  /\ phase \in Reads => \A s \in Settings : opt[s] = Resolved(s, Readable(s))

DirsSoFar ==
  phase \in Reads \cup {"running"} =>
    /\ inCLI <=> Naming("dataDir", given) # {}
    /\ dirs = IF Naming("dataDir", given) # {}
              THEN ValuesOf("dataDir", given) ELSE ValuesOf("dataDir", stated)

\* What the program runs with, said as the code comes to it.
AsResolved ==
  Running =>
    /\ \A s \in Settings :
         opt[s] = IF s = "converterThreadCount" /\ Resolved(s, Readable(s)) = 0
                  THEN DefaultThreadCount ELSE Resolved(s, Readable(s))
    /\ dirs = IF Naming("dataDir", given) # {}
              THEN ValuesOf("dataDir", given) ELSE ValuesOf("dataDir", stated)

OInv == OTypes /\ StackOK /\ SoFar /\ DirsSoFar /\ AsResolved

-----------------------------------------------------------------------------
(* What is said of a name, when one more thing is said.                     *)

LEMMA AppendIs ==
  ASSUME NEW S, NEW xs \in Seq(S), NEW x
  PROVE  /\ Len(xs) \in Nat /\ DOMAIN xs = 1..Len(xs)
         /\ DOMAIN Append(xs, x) = 1..(Len(xs) + 1)
         /\ \A i \in 1..Len(xs) : Append(xs, x)[i] = xs[i]
         /\ Append(xs, x)[Len(xs) + 1] = x
OBVIOUS

LEMMA NamingAppended ==
  ASSUME NEW S, NEW xs, xs \in Seq(S), NEW x, NEW s
  PROVE  /\ Naming(s, xs) \subseteq 1..Len(xs)
         /\ x.name = s => Naming(s, Append(xs, x)) = Naming(s, xs) \cup {Len(xs) + 1}
         /\ x.name # s => Naming(s, Append(xs, x)) = Naming(s, xs)
<1>1. PICK n \in Nat : n = Len(xs)
  BY AppendIs
<1>2. DOMAIN xs = 1..n /\ DOMAIN Append(xs, x) = 1..(n + 1)
      /\ (\A i \in 1..n : Append(xs, x)[i] = xs[i]) /\ Append(xs, x)[n + 1] = x
  BY <1>1, AppendIs
<1> DEFINE ys == Append(xs, x)
<1> HIDE DEF ys
<1>3. \A i \in 1..(n + 1) : i \in 1..n \/ i = n + 1
  OBVIOUS
<1>4. n + 1 \in 1..(n + 1) /\ \A i \in 1..n : i \in 1..(n + 1)
  OBVIOUS
<1>5. Naming(s, xs) = {i \in 1..n : xs[i].name = s}
  BY <1>2 DEF Naming
<1>6. Naming(s, ys) = {i \in 1..(n + 1) : ys[i].name = s}
  BY <1>2 DEF Naming, ys
<1>7. (\A i \in 1..n : ys[i] = xs[i]) /\ ys[n + 1] = x
  BY <1>2 DEF ys
<1>8. ASSUME x.name = s PROVE Naming(s, ys) = Naming(s, xs) \cup {n + 1}
  <2>1. ASSUME NEW i \in Naming(s, ys) PROVE i \in Naming(s, xs) \cup {n + 1}
    BY <1>3, <1>5, <1>6, <1>7, <2>1
  <2>2. ASSUME NEW i \in Naming(s, xs) \cup {n + 1} PROVE i \in Naming(s, ys)
    BY <1>4, <1>5, <1>6, <1>7, <1>8, <2>2
  <2> QED
    BY <2>1, <2>2
<1>9. ASSUME x.name # s PROVE Naming(s, ys) = Naming(s, xs)
  <2>1. ASSUME NEW i \in Naming(s, ys) PROVE i \in Naming(s, xs)
    BY <1>3, <1>5, <1>6, <1>7, <1>9, <2>1
  <2>2. ASSUME NEW i \in Naming(s, xs) PROVE i \in Naming(s, ys)
    BY <1>4, <1>5, <1>6, <1>7, <2>2
  <2> QED
    BY <2>1, <2>2
<1> QED
  BY <1>1, <1>5, <1>8, <1>9 DEF ys

LEMMA ValuesAppended ==
  ASSUME NEW S, NEW xs, xs \in Seq(S), NEW x, NEW s
  PROVE  /\ x.name = s => /\ ValuesOf(s, Append(xs, x)) = ValuesOf(s, xs) \cup {x.value}
                          /\ Naming(s, Append(xs, x)) # {}
         /\ x.name # s => /\ ValuesOf(s, Append(xs, x)) = ValuesOf(s, xs)
                          /\ Naming(s, Append(xs, x)) = Naming(s, xs)
<1>1. PICK n \in Nat : n = Len(xs)
  BY AppendIs
<1> DEFINE ys == Append(xs, x)
<1>2. (\A i \in 1..n : ys[i] = xs[i]) /\ ys[n + 1] = x
  BY <1>1, AppendIs
<1>3. /\ Naming(s, xs) \subseteq 1..n
      /\ x.name = s => Naming(s, ys) = Naming(s, xs) \cup {n + 1}
      /\ x.name # s => Naming(s, ys) = Naming(s, xs)
  BY <1>1, NamingAppended
<1> HIDE DEF ys
<1>4. ASSUME x.name # s PROVE ValuesOf(s, ys) = ValuesOf(s, xs)
  <2>1. \A i \in Naming(s, xs) : ys[i] = xs[i]
    BY <1>2, <1>3
  <2> QED
    BY <1>3, <1>4, <2>1 DEF ValuesOf
<1>5. ASSUME x.name = s PROVE ValuesOf(s, ys) = ValuesOf(s, xs) \cup {x.value}
  <2>1. \A i \in Naming(s, xs) : ys[i] = xs[i]
    BY <1>2, <1>3
  <2>2. Naming(s, ys) = Naming(s, xs) \cup {n + 1}
    BY <1>3, <1>5
  <2>3. ASSUME NEW v \in ValuesOf(s, ys) PROVE v \in ValuesOf(s, xs) \cup {x.value}
    BY <1>2, <2>1, <2>2 DEF ValuesOf
  <2>4. ASSUME NEW v \in ValuesOf(s, xs) \cup {x.value} PROVE v \in ValuesOf(s, ys)
    <3>1. CASE v = x.value
      <4>1. n + 1 \in Naming(s, ys) /\ v = ys[n + 1].value
        BY <1>2, <2>2, <3>1
      <4> QED
        BY <4>1 DEF ValuesOf
    <3>2. CASE v # x.value
      <4>1. PICK i \in Naming(s, xs) : v = xs[i].value
        BY <2>4, <3>2 DEF ValuesOf
      <4>2. i \in Naming(s, ys) /\ v = ys[i].value
        BY <2>1, <2>2, <4>1
      <4> QED
        BY <4>2 DEF ValuesOf
    <3> QED
      BY <3>1, <3>2
  <2> QED
    BY <2>3, <2>4
<1> QED
  BY <1>3, <1>4, <1>5 DEF ys

LEMMA MaxIn ==
  ASSUME NEW S \in SUBSET Nat, S # {}, NEW n \in Nat, \A i \in S : i <= n
  PROVE  Max(S) \in S
<1> DEFINE T == {k \in Nat : n - k \in S}
<1>1. PICK i \in S : TRUE
  OBVIOUS
<1>2. n - i \in T
  BY <1>1
<1>3. PICK k \in T : \A y \in T : k <= y
  BY <1>2, LeastNumber
<1>4. n - k \in S
  BY <1>3
<1>5. ASSUME NEW y \in S PROVE n - k >= y
  <2>1. n - y \in T
    BY <1>5
  <2>2. k <= n - y /\ k \in Nat /\ y \in Nat
    BY <1>3, <2>1
  <2> QED
    BY <2>2
<1> QED
  BY <1>4, <1>5 DEF Max

LEMMA MinIn ==
  ASSUME NEW S \in SUBSET Nat, S # {}
  PROVE  Min(S) \in S /\ \A y \in S : Min(S) <= y
BY LeastNumber DEF Min

\* An argument is the last one of its name.
LEMMA LastGivenAppended ==
  ASSUME given \in Seq(Arguments), NEW a, given' = Append(given, a), NEW s
  PROVE  LastGiven(s)' = IF a.name = s THEN Said(a) ELSE LastGiven(s)
<1>1. PICK n \in Nat : n = Len(given)
  BY AppendIs
<1>2. PICK g \in Seq(Arguments) : g = given
  OBVIOUS
<1>3. (\A i \in 1..n : given'[i] = g[i]) /\ given'[n + 1] = a
  BY <1>1, <1>2, AppendIs
<1>4. /\ Naming(s, g) \subseteq 1..n
      /\ a.name = s => Naming(s, Append(g, a)) = Naming(s, g) \cup {n + 1}
      /\ a.name # s => Naming(s, Append(g, a)) = Naming(s, g)
  BY <1>1, <1>2, NamingAppended, ZenonT(40)
<1>5. CASE a.name = s
  <2>1. Naming(s, given') = Naming(s, g) \cup {n + 1}
    BY <1>2, <1>4, <1>5
  <2> DEFINE N == Naming(s, g) \cup {n + 1}
  <2>2. n + 1 \in N /\ \A i \in N : i \in Nat /\ n + 1 >= i
    BY <1>4
  <2> HIDE DEF N
  <2>3. Max(N) = n + 1
    BY <2>2 DEF Max
  <2>4. LastGiven(s)' = Said(given'[n + 1])
    BY <2>1, <2>2, <2>3 DEF LastGiven, N, Said
  <2> QED
    BY <1>3, <1>5, <2>4
<1>6. CASE a.name # s
  <2>1. Naming(s, given') = Naming(s, g)
    BY <1>2, <1>4, <1>6
  <2>2. CASE Naming(s, g) = {}
    BY <1>2, <1>6, <2>1, <2>2 DEF LastGiven
  <2>3. CASE Naming(s, g) # {}
    <3> DEFINE m == Max(Naming(s, g))
    <3>1. m \in Naming(s, g)
      <4>1. Naming(s, g) \subseteq Nat /\ \A i \in Naming(s, g) : i <= n
        BY <1>4
      <4> QED
        BY <2>3, <4>1, MaxIn
    <3>2. given'[m] = g[m]
      BY <1>3, <1>4, <3>1
    <3> QED
      BY <1>2, <1>6, <2>1, <2>3, <3>2 DEF LastGiven, Said
  <2> QED
    BY <2>2, <2>3
<1> QED
  BY <1>5, <1>6

-----------------------------------------------------------------------------
(* Statements.                                                              *)

\* What a text says to those who can read it.
LEMMA ReadingIs ==
  ASSUME NEW x, NEW format
  PROVE  /\ Reading(x, format) \in {{}, {Said(x)}}
         /\ x.name = "filterTimeFormat" => Reading(x, format) = {Said(x)}
<1>1. "filterTimeFormat" \notin TimeSettings \cup AddressSettings
  BY DEF TimeSettings, AddressSettings
<1> QED
  BY <1>1 DEF Reading, Said

\* One more statement gives a setting that is "not given" so far what it says.
LEMMA ResolvedAppended ==
  ASSUME stated \in Seq(Statements), NEW x, stated' = Append(stated, x), given' = given,
         NEW s, NEW at \in SUBSET (1..Len(stated)), NEW n \in Nat, n = Len(stated)
  PROVE  /\ Resolved(s, at)' = Resolved(s, at)
         /\ Resolved(s, at \cup {n + 1})' = IF Resolved(s, at) # Absent[s] THEN Resolved(s, at)
                                           ELSE Said(x)
<1>1. LastGiven(s)' = LastGiven(s)
  BY DEF LastGiven
<1>2. (\A i \in 1..n : stated'[i] = stated[i]) /\ stated'[n + 1] = x
  BY AppendIs
<1> DEFINE P == {i \in at : Said(stated[i]) # Absent[s]}
           Q == {i \in at : Said(stated'[i]) # Absent[s]}
           R == {i \in at \cup {n + 1} : Said(stated'[i]) # Absent[s]}
<1>0. P \in SUBSET (1..n) /\ P \in SUBSET Nat
  <2>1. P \subseteq at /\ at \subseteq 1..n /\ 1..n \subseteq Nat
    OBVIOUS
  <2> QED
    BY <2>1
<1>3. Q = P
  BY <1>2
<1>4. R = IF Said(x) # Absent[s] THEN P \cup {n + 1} ELSE P
  BY <1>2, <1>3
<1>5. P # {} => Min(P) \in P /\ Said(stated'[Min(P)]) = Said(stated[Min(P)])
                /\ Said(stated[Min(P)]) # Absent[s]
  <2>1. P # {} => Min(P) \in P
    BY <1>0, MinIn
  <2>2. P # {} => Min(P) \in at /\ Said(stated[Min(P)]) # Absent[s]
    BY <2>1
  <2>3. P # {} => Min(P) \in 1..n
    BY <2>2
  <2> QED
    BY <1>2, <2>1, <2>2, <2>3
<1>6. P # {} => Min(P \cup {n + 1}) = Min(P)
  <2> HIDE DEF P
  <2> SUFFICES ASSUME P # {} PROVE Min(P \cup {n + 1}) = Min(P)
    OBVIOUS
  <2>1. Min(P) \in P /\ \A i \in P : Min(P) <= i
    BY <1>0, MinIn
  <2>2. P \cup {n + 1} \in SUBSET Nat /\ P \cup {n + 1} # {}
    <3>1. \A i \in P : i \in Nat
      BY <1>0
    <3>2. \A i \in P \cup {n + 1} : i \in Nat
      BY <3>1
    <3> QED
      BY <3>2
  <2>3. Min(P \cup {n + 1}) \in P \cup {n + 1} /\ \A i \in P \cup {n + 1} : Min(P \cup {n + 1}) <= i
    BY <2>2, MinIn
  <2>4. \A i \in P : i \in Nat /\ i < n + 1
    BY <1>0
  <2>5. Min(P) \in Nat /\ Min(P) < n + 1 /\ Min(P \cup {n + 1}) <= Min(P)
    BY <2>1, <2>3, <2>4
  <2>6. Min(P \cup {n + 1}) \in P
    BY <2>3, <2>5
  <2>7. Min(P) <= Min(P \cup {n + 1}) /\ Min(P \cup {n + 1}) \in Nat
    BY <2>1, <2>4, <2>6
  <2> QED
    BY <2>5, <2>7
<1>7. P = {} => Min(P \cup {n + 1}) = n + 1
  <2>1. {n + 1} \in SUBSET Nat /\ {n + 1} # {}
    OBVIOUS
  <2>2. Min({n + 1}) \in {n + 1}
    BY <2>1, MinIn
  <2> HIDE DEF P
  <2>3. P = {} => P \cup {n + 1} = {n + 1}
    OBVIOUS
  <2> QED
    BY <2>2, <2>3
<1>8. Resolved(s, at) = IF LastGiven(s) # Absent[s] \/ P = {} THEN LastGiven(s)
                        ELSE Said(stated[Min(P)])
  BY DEF Resolved, Telling
<1>9. Resolved(s, at)' = IF LastGiven(s) # Absent[s] \/ Q = {} THEN LastGiven(s)
                         ELSE Said(stated'[Min(Q)])
  BY <1>1 DEF Resolved, Telling, Said
<1>10. Resolved(s, at \cup {n + 1})'
         = IF LastGiven(s) # Absent[s] \/ R = {} THEN LastGiven(s) ELSE Said(stated'[Min(R)])
  BY <1>1 DEF Resolved, Telling, Said
<1> HIDE DEF P, Q, R
<1>11. Resolved(s, at)' = Resolved(s, at)
  BY <1>3, <1>5, <1>8, <1>9
<1>12. Resolved(s, at \cup {n + 1})' = IF Resolved(s, at) # Absent[s] THEN Resolved(s, at)
                                       ELSE Said(x)
  <2>1. CASE LastGiven(s) # Absent[s]
    BY <1>8, <1>10, <2>1
  <2>2. CASE LastGiven(s) = Absent[s] /\ P = {}
    <3>1. Resolved(s, at) = Absent[s]
      BY <1>8, <2>2
    <3>2. CASE Said(x) # Absent[s]
      <4>1. R = P \cup {n + 1} /\ Min(R) = n + 1 /\ R # {}
        BY <1>4, <1>7, <2>2, <3>2
      <4> QED
        BY <1>2, <1>10, <2>2, <3>1, <4>1
    <3>3. CASE Said(x) = Absent[s]
      <4>1. R = {}
        BY <1>4, <2>2, <3>3
      <4> QED
        BY <1>10, <2>2, <3>1, <3>3, <4>1
    <3> QED
      BY <3>2, <3>3
  <2>3. CASE LastGiven(s) = Absent[s] /\ P # {}
    <3>1. Resolved(s, at) = Said(stated[Min(P)]) /\ Resolved(s, at) # Absent[s]
      BY <1>5, <1>8, <2>3
    <3>2. R # {} /\ Min(R) = Min(P)
      BY <1>4, <1>6, <2>3
    <3> QED
      BY <1>5, <1>10, <2>3, <3>1, <3>2
  <2> QED
    BY <2>1, <2>2, <2>3
<1> QED
  BY <1>11, <1>12

\* The formats in which the statements so far were read stay as they were, and the
\* format set now is the one in which the next one is read.
LEMMA FormatsAppended ==
  ASSUME stated \in Seq(Statements), NEW x, stated' = Append(stated, x), given' = given,
         NEW n \in Nat, n = Len(stated)
  PROVE  /\ \A i \in 1..n : FormatBefore(i)' = FormatBefore(i)
         /\ FormatBefore(n + 1)' = Resolved("filterTimeFormat", Readable("filterTimeFormat"))
<1> DEFINE F == "filterTimeFormat"
           B(i) == {j \in Naming(F, stated) : j < i}
<1>1. PICK xs \in Seq(Statements) : xs = stated
  OBVIOUS
<1>2. /\ Naming(F, xs) \subseteq 1..n
      /\ \A j \in 1..n : j \in Naming(F, Append(xs, x)) <=> j \in Naming(F, xs)
      /\ Naming(F, Append(xs, x)) \subseteq 1..(n + 1)
  <2>1. x.name = F => Naming(F, Append(xs, x)) = Naming(F, xs) \cup {n + 1}
    BY <1>1, NamingAppended, ZenonT(40)
  <2>2. x.name # F => Naming(F, Append(xs, x)) = Naming(F, xs)
    BY <1>1, NamingAppended, ZenonT(40)
  <2>3. Naming(F, xs) \subseteq 1..n
    BY <1>1, NamingAppended, ZenonT(40)
  <2> QED
    BY <2>1, <2>2, <2>3
<1>3. ASSUME NEW i \in 1..(n + 1)
      PROVE  FormatBefore(i)' = Resolved(F, B(i))
  <2>1. PICK at \in SUBSET (1..n) : at = B(i)
    BY <1>1, <1>2
  <2>2. {j \in Naming(F, stated') : j < i} = at
    BY <1>1, <1>2, <2>1
  <2>3. FormatBefore(i)' = Resolved(F, at)'
    BY <2>2 DEF FormatBefore
  <2>4. Resolved(F, at)' = Resolved(F, at)
    BY ResolvedAppended
  <2> QED
    BY <2>1, <2>3, <2>4
<1>4. \A i \in 1..n : FormatBefore(i)' = FormatBefore(i)
  BY <1>3 DEF FormatBefore
<1>5. B(n + 1) = Readable(F)
  <2>1. B(n + 1) = Naming(F, stated)
    BY <1>1, <1>2
  <2>2. \A i \in Naming(F, stated) : Reading(stated[i], FormatBefore(i)) # {}
    BY ReadingIs DEF Naming
  <2> QED
    BY <2>1, <2>2 DEF Readable
<1> QED
  BY <1>3, <1>4, <1>5

\* A statement is among the readable ones if it can be read in the format set now.
LEMMA ReadableAppended ==
  ASSUME stated \in Seq(Statements), NEW x, stated' = Append(stated, x), given' = given,
         NEW n \in Nat, n = Len(stated), NEW s,
         NEW format, format = Resolved("filterTimeFormat", Readable("filterTimeFormat"))
  PROVE  /\ Readable(s) \subseteq 1..n
         /\ Readable(s)' = IF x.name = s /\ Reading(x, format) # {}
                           THEN Readable(s) \cup {n + 1} ELSE Readable(s)
<1>1. PICK xs \in Seq(Statements) : xs = stated
  OBVIOUS
<1>2. /\ Naming(s, xs) \subseteq 1..n
      /\ x.name = s => Naming(s, Append(xs, x)) = Naming(s, xs) \cup {n + 1}
      /\ x.name # s => Naming(s, Append(xs, x)) = Naming(s, xs)
  BY <1>1, NamingAppended
<1>3. (\A i \in 1..n : stated'[i] = stated[i]) /\ stated'[n + 1] = x
  BY AppendIs
<1>4. (\A i \in 1..n : FormatBefore(i)' = FormatBefore(i)) /\ FormatBefore(n + 1)' = format
  BY FormatsAppended
<1>5. Readable(s)' = {i \in Naming(s, stated') : Reading(stated'[i], FormatBefore(i)') # {}}
  BY DEF Readable, Reading
<1> DEFINE Can(i) == Reading(stated'[i], FormatBefore(i)') # {}
<1>6. Readable(s) = {i \in Naming(s, xs) : Can(i)}
  BY <1>1, <1>2, <1>3, <1>4 DEF Readable
<1>7. Can(n + 1) <=> Reading(x, format) # {}
  BY <1>3, <1>4
<1> HIDE DEF Can
<1>8. Readable(s)' = {i \in Naming(s, stated') : Can(i)}
  BY <1>5 DEF Can
<1> QED
  BY <1>1, <1>2, <1>6, <1>7, <1>8

-----------------------------------------------------------------------------
(* The lexer's stack.                                                       *)

LEMMA StackInit == FilesInit => StackOK
BY DEF FilesInit, StackOK, PlaceAt, Places, Opened, Reader, MaxNested

LEMMA PassedPlace ==
  ASSUME NEW l, PlaceAt(l, buffer) PROVE PlaceAt(l, Passed)
BY DEF PlaceAt, Places, Passed

LEMMA IncludedPlace ==
  ASSUME NEW l \in Nat \ {0}, NEW f \in DOMAIN Contents PROVE PlaceAt(l, Opened(f))
<1>1. f # Reader
  BY ConfFilesAssumption DEF Reader
<1> QED
  BY <1>1 DEF PlaceAt, Places, Opened

\* A statement, an include directive and the end of an included file keep the stack in
\* its array, whatever the files include.
LEMMA StackStep ==
  ASSUME StackOK,
         \/ \E item : PassStatement(item) \/ IncludeNothing(item) \/ IncludeFirst(item)
         \/ IncludeNext \/ BackToParent
         \/ UNCHANGED <<buffer, level, nested>>
  PROVE  StackOK'
<1>0. /\ level \in 0..MaxNested /\ PlaceAt(level, buffer) /\ MaxNested = 5
      /\ DOMAIN nested = 0..(MaxNested - 1)
      /\ \A l \in 0..(level - 1) : PlaceAt(l, nested[l].parent)
  BY DEF StackOK, MaxNested
<1>1. CASE \E item : PassStatement(item) \/ IncludeNothing(item)
  <2>1. buffer' = Passed /\ level' = level /\ nested' = nested
    BY <1>1 DEF PassStatement, IncludeNothing
  <2>2. PlaceAt(level, Passed)
    BY <1>0, PassedPlace
  <2> QED
    BY <1>0, <2>1, <2>2 DEF StackOK, PlaceAt
<1>2. CASE \E item : IncludeFirst(item)
  <2>1. PICK item : IncludeFirst(item)
    BY <1>2
  <2>2. /\ level < MaxNested /\ level' = level + 1
        /\ Head(Found[item.value]) \in DOMAIN Contents
        /\ buffer' = Opened(Head(Found[item.value]))
    BY <1>0, <2>1 DEF IncludeFirst, FirstMissing, Refused, TooDeep
  <2> DEFINE entry == [parent |-> Passed, filelist |-> Found[item.value], current |-> 1]
  <2>3. nested' = [nested EXCEPT ![level] = entry] /\ entry.parent = Passed
    BY <2>1 DEF IncludeFirst
  <2> HIDE DEF entry
  <2>4. PlaceAt(level + 1, buffer')
    <3>1. level + 1 \in Nat \ {0}
      BY <1>0
    <3> QED
      BY <2>2, <3>1, IncludedPlace
  <2>5. PlaceAt(level, Passed)
    BY <1>0, PassedPlace
  <2>6. ASSUME NEW l \in 0..level PROVE PlaceAt(l, nested'[l].parent)
    <3>1. CASE l = level
      BY <1>0, <2>2, <2>3, <2>5, <3>1
    <3>2. CASE l # level
      <4>1. l \in 0..(level - 1)
        BY <1>0, <3>2
      <4>2. nested'[l] = nested[l]
        BY <1>0, <2>3, <3>2, <4>1
      <4> QED
        BY <1>0, <4>1, <4>2
    <3> QED
      BY <3>1, <3>2
  <2>7. DOMAIN nested' = DOMAIN nested
    BY <2>3
  <2> QED
    BY <1>0, <2>2, <2>4, <2>6, <2>7 DEF StackOK, PlaceAt
<1>3. CASE IncludeNext \/ BackToParent
  <2>1. /\ level \in 1..MaxNested /\ DOMAIN nested' = DOMAIN nested
        /\ \A l \in 0..(level - 2) : nested'[l] = nested[l]
    BY <1>0, <1>3 DEF IncludeNext, BackToParent, EndOfIncluded
  <2>2. \A l \in 0..(level - 1) : nested'[l].parent = nested[l].parent
    <3>1. nested' = [nested EXCEPT ![level - 1].current = @ + 1]
      BY <1>3 DEF IncludeNext, BackToParent
    <3>2. level - 1 \in DOMAIN nested
      BY <1>0, <2>1
    <3> QED
      BY <1>0, <2>1, <3>1, <3>2
  <2>3. CASE IncludeNext
    <3>1. buffer' = Opened(Following) /\ Following \in DOMAIN Contents /\ level' = level
      BY <2>3 DEF IncludeNext
    <3>2. PlaceAt(level, buffer')
      BY <2>1, <3>1, IncludedPlace
    <3> QED
      BY <1>0, <2>1, <2>2, <3>1, <3>2 DEF StackOK, PlaceAt
  <2>4. CASE BackToParent
    <3>1. buffer' = nested[level - 1].parent /\ level' = level - 1
      BY <2>4 DEF BackToParent, Entry
    <3>2. PlaceAt(level - 1, buffer')
      BY <1>0, <2>1, <3>1
    <3> QED
      BY <1>0, <2>1, <2>2, <3>1, <3>2 DEF StackOK, PlaceAt
  <2> QED
    BY <1>3, <2>3, <2>4
<1>4. CASE UNCHANGED <<buffer, level, nested>>
  BY <1>0, <1>4 DEF StackOK, PlaceAt
<1> QED
  BY <1>1, <1>2, <1>3, <1>4

-----------------------------------------------------------------------------
(* The settings.                                                            *)

\* What can be read of an option is of its type.
LEMMA ReadingTyping ==
  ASSUME NEW x \in Arguments \cup Statements, x.name \in Numbers, NEW format,
         NEW v \in Reading(x, format)
  PROVE  v \in Int
<1>1. /\ x.name \in TimeSettings => x.value.time \in Int
      /\ x.name \in AddressSettings => x.value \in {BAD} \cup Int
      /\ x.name \in NumberSettings => x.value \in Int
  BY OptionsAssumption
<1> QED
  BY <1>1 DEF Reading, Numbers

\* While the command line is read there are no statements, so that the settings are
\* the last ones given.
LEMMA NothingStated ==
  ASSUME stated = <<>>, NEW s
  PROVE  Readable(s) = {} /\ Resolved(s, Readable(s)) = LastGiven(s)
<1>1. Readable(s) = {}
  BY DEF Readable, Naming
<1>2. Resolved(s, {}) = LastGiven(s)
  BY DEF Resolved, Telling
<1> QED
  BY <1>1, <1>2

LEMMA OptionsInit == Init => OInv
<1> SUFFICES ASSUME Init PROVE OInv
  OBVIOUS
<1>1. phase = "arguments" /\ opt = Initial /\ dirs = {} /\ inCLI = FALSE /\ confFile = FALSE
      /\ given = <<>> /\ stated = <<>> /\ FilesInit
  BY DEF Init
<1>2. OTypes
  <2>1. ASSUME NEW s \in Numbers PROVE Initial[s] \in Int
    <3>1. s \in Settings /\ s \notin TextSettings
      BY DEF Numbers, Settings, TimeSettings, AddressSettings, NumberSettings, TextSettings
    <3>2. s # "outputFormatDate"
      BY <3>1 DEF TextSettings
    <3> QED
      BY <3>1, <3>2 DEF Initial
  <2>2. DOMAIN Initial = Settings
    BY DEF Initial
  <2>3. given \in Seq(Arguments) /\ stated \in Seq(Statements)
    BY <1>1
  <2>4. DOMAIN opt = Settings /\ \A s \in Numbers : opt[s] \in Int
    BY <1>1, <2>1, <2>2
  <2> QED
    BY <1>1, <2>3, <2>4 DEF OTypes
<1>3. SoFar
  <2>1. \A s \in Settings : LastGiven(s) = Initial[s]
    BY <1>1 DEF LastGiven, Naming
  <2> QED
    BY <1>1, <2>1, NothingStated DEF SoFar
<1>4. DirsSoFar
  BY <1>1 DEF DirsSoFar, Naming, ValuesOf
<1>5. AsResolved
  BY <1>1 DEF AsResolved, Running
<1> QED
  BY <1>1, <1>2, <1>3, <1>4, <1>5, StackInit DEF OInv

\* As long as nothing is read, what was read says the same.
LEMMA SaidStays ==
  ASSUME UNCHANGED <<given, stated>>, NEW s
  PROVE  /\ Naming(s, given)' = Naming(s, given) /\ Naming(s, stated)' = Naming(s, stated)
         /\ LastGiven(s)' = LastGiven(s)
         /\ Readable(s)' = Readable(s)
         /\ Resolved(s, Readable(s))' = Resolved(s, Readable(s))
<1>1. given' = given /\ stated' = stated
  OBVIOUS
<1>2. \A r : Naming(r, given)' = Naming(r, given) /\ Naming(r, stated)' = Naming(r, stated)
  BY <1>1 DEF Naming
<1>3. \A r : LastGiven(r)' = LastGiven(r)
  BY <1>1, <1>2 DEF LastGiven, Said
<1>4. \A r, at : Resolved(r, at)' = Resolved(r, at)
  BY <1>1, <1>3 DEF Resolved, Telling, Said
<1>5. \A i : FormatBefore(i)' = FormatBefore(i)
  BY <1>2, <1>4 DEF FormatBefore
<1>6. Readable(s)' = Readable(s)
  BY <1>1, <1>2, <1>5 DEF Readable, Reading
<1> QED
  BY <1>2, <1>3, <1>4, <1>6

\* A value that was read and set, on the command line and in the file.
LEMMA SetTyping ==
  ASSUME OTypes, NEW x \in Arguments \cup Statements, x.name \in Settings, NEW format,
         NEW v \in Reading(x, format), Set(x.name, v)
  PROVE  /\ DOMAIN opt' = Settings
         /\ \A s \in Numbers : opt'[s] \in Int
         /\ \A s \in Settings : opt'[s] = IF s = x.name THEN Said(x) ELSE opt[s]
<1>1. opt' = [opt EXCEPT ![x.name] = v] /\ DOMAIN opt = Settings
  BY DEF Set, OTypes
<1>2. v = Said(x)
  BY ReadingIs
<1>3. \A s \in Settings : opt'[s] = IF s = x.name THEN v ELSE opt[s]
  BY <1>1
<1>4. ASSUME NEW s \in Numbers PROVE opt'[s] \in Int
  <2>1. s \in Settings
    BY DEF Numbers, Settings
  <2>2. CASE s = x.name
    BY <1>3, <2>1, <2>2, ReadingTyping
  <2>3. CASE s # x.name
    BY <1>3, <2>1, <2>3 DEF OTypes
  <2> QED
    BY <2>2, <2>3
<1> QED
  BY <1>1, <1>2, <1>3, <1>4

LEMMA ArgumentKeeps == ASSUME OInv, ReadArgument PROVE OInv'
<1>1. OTypes /\ StackOK /\ SoFar /\ DirsSoFar /\ phase = "arguments" /\ stated = <<>>
  BY DEF OInv, SoFar, ReadArgument
<1>2. PICK a \in Arguments : /\ GetSetting(a) \/ GetDataDir(a) \/ GetConfFile(a) \/ GiveUp(a)
                             /\ given' = Append(given, a)
  BY DEF ReadArgument
<1>3. stated' = stated /\ UNCHANGED <<buffer, level, nested>>
  BY DEF ReadArgument, files
<1>4. given \in Seq(Arguments) /\ given' \in Seq(Arguments) /\ stated' \in Seq(Statements)
  BY <1>1, <1>2, <1>3 DEF OTypes
<1>5. StackOK'
  BY <1>1, <1>3, StackStep
<1>6. \A s : LastGiven(s)' = IF a.name = s THEN Said(a) ELSE LastGiven(s)
  BY <1>2, <1>4, LastGivenAppended
<1>7. \A s : Resolved(s, Readable(s))' = LastGiven(s)'
  <2>1. stated' = <<>>
    BY <1>1, <1>3
  <2>2. \A s : Readable(s)' = {}
    BY <2>1 DEF Readable, Naming
  <2>3. \A s : Resolved(s, {})' = LastGiven(s)'
    BY DEF Resolved, Telling
  <2> QED
    BY <2>2, <2>3 DEF Resolved, Telling
<1>8. \A s \in Settings : opt[s] = LastGiven(s)
  BY <1>1, NothingStated DEF SoFar, Reads
<1> DEFINE D == "dataDir"
<1>9. /\ a.name = D => ValuesOf(D, given') = ValuesOf(D, given) \cup {a.value} /\ Naming(D, given') # {}
      /\ a.name # D => ValuesOf(D, given') = ValuesOf(D, given) /\ Naming(D, given') = Naming(D, given)
  BY <1>2, <1>4, ValuesAppended, ZenonT(40)
<1>10. Naming(D, stated) = {} /\ Naming(D, stated') = {}
  BY <1>1, <1>3 DEF Naming
<1>11. /\ inCLI <=> Naming(D, given) # {}
       /\ dirs = ValuesOf(D, given)
  <2>1. Naming(D, given) = {} => ValuesOf(D, given) = {} /\ dirs = {}
    BY <1>1, <1>10 DEF ValuesOf, DirsSoFar, Reads
  <2> QED
    BY <1>1, <2>1 DEF ValuesOf, DirsSoFar, Reads
<1>12. D \notin Settings
  BY DEF Settings, TimeSettings, AddressSettings, NumberSettings, TextSettings
<1>13. OTypes' /\ phase' \in {"arguments", "exit"}
  <2>1. CASE GetSetting(a)
    <3>1. PICK v \in Reading(a, opt["filterTimeFormat"]) : Set(a.name, v)
      BY <2>1 DEF GetSetting
    <3>2. DOMAIN opt' = Settings /\ \A s \in Numbers : opt'[s] \in Int
      BY <1>1, <2>1, <3>1, SetTyping DEF GetSetting
    <3> QED
      BY <1>1, <1>4, <2>1, <3>2 DEF OTypes, GetSetting
  <2>2. CASE GetDataDir(a) \/ GetConfFile(a) \/ GiveUp(a)
    BY <1>1, <1>4, <2>2 DEF OTypes, GetDataDir, GetConfFile, GiveUp
  <2> QED
    BY <1>2, <2>1, <2>2
<1>14. ASSUME phase' = "arguments" PROVE \A s \in Settings : opt'[s] = LastGiven(s)'
  <2>1. CASE GetSetting(a)
    <3>1. PICK v \in Reading(a, opt["filterTimeFormat"]) : Set(a.name, v)
      BY <2>1 DEF GetSetting
    <3>2. \A s \in Settings : opt'[s] = IF s = a.name THEN Said(a) ELSE opt[s]
      BY <1>1, <2>1, <3>1, SetTyping DEF GetSetting
    <3> QED
      BY <1>6, <1>8, <3>2
  <2>2. CASE GetDataDir(a) \/ GetConfFile(a)
    <3>1. opt' = opt /\ a.name \notin Settings
      BY <2>2 DEF GetDataDir, GetConfFile, Settings, TimeSettings, AddressSettings,
        NumberSettings, TextSettings
    <3> QED
      BY <1>6, <1>8, <3>1
  <2> QED
    BY <1>2, <1>14, <2>1, <2>2 DEF GiveUp
<1>15. ASSUME phase' = "arguments"
       PROVE  (inCLI' <=> Naming(D, given') # {}) /\ dirs' = ValuesOf(D, given')
  <2>1. CASE GetSetting(a) \/ GetConfFile(a)
    <3>1. inCLI' = inCLI /\ dirs' = dirs /\ a.name # D
      BY <1>12, <2>1 DEF GetSetting, GetConfFile
    <3> QED
      BY <1>9, <1>11, <3>1
  <2>2. CASE GetDataDir(a)
    <3>1. inCLI' = TRUE /\ dirs' = dirs \cup {a.value} /\ a.name = D
      BY <2>2 DEF GetDataDir, SetDir
    <3> QED
      BY <1>9, <1>11, <3>1
  <2> QED
    BY <1>2, <1>15, <2>1, <2>2 DEF GiveUp
<1>16. SoFar'
  BY <1>3, <1>1, <1>7, <1>13, <1>14 DEF SoFar, Reads
<1>17. DirsSoFar'
  <2>1. Naming(D, given') = {} => ValuesOf(D, given') = {} /\ ValuesOf(D, stated') = {}
    BY <1>10 DEF ValuesOf
  <2> QED
    BY <1>13, <1>15, <2>1 DEF DirsSoFar, Reads
<1>18. AsResolved'
  BY <1>13 DEF AsResolved, Running
<1> QED
  BY <1>5, <1>13, <1>16, <1>17, <1>18 DEF OInv

LEMMA StatementKeeps == ASSUME OInv, ReadStatement PROVE OInv'
<1>1. OTypes /\ StackOK /\ SoFar /\ DirsSoFar /\ phase = "statements"
  BY DEF OInv, ReadStatement
<1>2. PICK x : /\ PassStatement(x)
               /\ TakeSetting(x) \/ TakeDataDir(x) \/ Unrecognized(x)
               /\ stated' = Append(stated, x)
  BY DEF ReadStatement
<1>3. x \in Statements /\ given' = given /\ inCLI' = inCLI /\ confFile' = confFile
  <2>1. x \in Statements
    BY <1>2 DEF PassStatement
  <2>2. UNCHANGED <<inCLI, confFile, given>>
    BY DEF ReadStatement
  <2> QED
    BY <2>1, <2>2
<1>4. PICK n \in Nat : n = Len(stated)
  BY <1>1, AppendIs DEF OTypes
<1>5. stated \in Seq(Statements) /\ stated' \in Seq(Statements)
  BY <1>1, <1>2, <1>3 DEF OTypes
<1>6. StackOK'
  <2>1. \E item : PassStatement(item) \/ IncludeNothing(item) \/ IncludeFirst(item)
    BY <1>2
  <2> QED
    BY <1>1, <2>1, StackStep
<1>7. PICK format : format = opt["filterTimeFormat"]
  OBVIOUS
<1>8. format = Resolved("filterTimeFormat", Readable("filterTimeFormat"))
  <2>1. "filterTimeFormat" \in Settings
    BY DEF Settings, TextSettings
  <2> QED
    BY <1>1, <1>7, <2>1 DEF SoFar, Reads
<1>9. ASSUME NEW s \in Settings
      PROVE  Resolved(s, Readable(s))'
               = IF x.name = s /\ Reading(x, format) # {} /\ opt[s] = Absent[s]
                 THEN Said(x) ELSE opt[s]
  <2>1. PICK at : at = Readable(s)
    OBVIOUS
  <2>2. at \in SUBSET (1..n)
    BY <1>2, <1>3, <1>4, <1>5, <1>8, <2>1, ReadableAppended
  <2>3. Readable(s)' = IF x.name = s /\ Reading(x, format) # {} THEN at \cup {n + 1} ELSE at
    BY <1>2, <1>3, <1>4, <1>5, <1>8, <2>1, ReadableAppended
  <2>4. /\ Resolved(s, at)' = Resolved(s, at)
        /\ Resolved(s, at \cup {n + 1})' = IF Resolved(s, at) # Absent[s] THEN Resolved(s, at)
                                          ELSE Said(x)
    <3>1. stated' = Append(stated, x) /\ given' = given
      BY <1>2, <1>3
    <3> QED
      BY <1>4, <1>5, <2>2, <3>1, ResolvedAppended
  <2>5. opt[s] = Resolved(s, at)
    BY <1>1, <2>1 DEF SoFar, Reads
  <2>6. Resolved(s, Readable(s))' = IF x.name = s /\ Reading(x, format) # {}
                                    THEN Resolved(s, at \cup {n + 1})' ELSE Resolved(s, at)'
    <3>1. CASE x.name = s /\ Reading(x, format) # {}
      <4>1. Readable(s)' = at \cup {n + 1}
        BY <2>3, <3>1
      <4> QED
        BY <3>1, <4>1 DEF Resolved, Telling
    <3>2. CASE ~(x.name = s /\ Reading(x, format) # {})
      <4>1. Readable(s)' = at
        BY <2>3, <3>2
      <4> QED
        BY <3>2, <4>1 DEF Resolved, Telling
    <3> QED
      BY <3>1, <3>2
  <2> QED
    BY <2>4, <2>5, <2>6
<1>10. ASSUME TakeSetting(x)
       PROVE  /\ phase' = "statements" /\ dirs' = dirs /\ x.name # "dataDir"
              /\ DOMAIN opt' = Settings
              /\ \A s \in Numbers : opt'[s] \in Int
              /\ \A s \in Settings :
                   opt'[s] = IF x.name = s /\ Reading(x, format) # {} /\ opt[s] = Absent[s]
                             THEN Said(x) ELSE opt[s]
  <2>1. x.name \in Settings /\ phase' = phase /\ dirs' = dirs
    BY <1>10 DEF TakeSetting
  <2>2. x.name # "dataDir"
    BY <2>1 DEF Settings, TimeSettings, AddressSettings, NumberSettings, TextSettings
  <2>3. CASE opt[x.name] = Absent[x.name] /\ Reading(x, format) # {}
    <3>1. PICK v \in Reading(x, format) : Set(x.name, v)
      BY <1>7, <1>10, <2>3 DEF TakeSetting
    <3>2. /\ DOMAIN opt' = Settings
          /\ \A s \in Numbers : opt'[s] \in Int
          /\ \A s \in Settings : opt'[s] = IF s = x.name THEN Said(x) ELSE opt[s]
      BY <1>1, <1>3, <2>1, <3>1, SetTyping
    <3> QED
      BY <1>1, <2>1, <2>2, <2>3, <3>2
  <2>4. CASE ~(opt[x.name] = Absent[x.name] /\ Reading(x, format) # {})
    <3>1. opt' = opt
      BY <1>7, <1>10, <2>4 DEF TakeSetting
    <3> QED
      BY <1>1, <2>1, <2>2, <2>4, <3>1 DEF OTypes
  <2> QED
    BY <2>3, <2>4
<1> DEFINE D == "dataDir"
<1>11. D \notin Settings
  BY DEF Settings, TimeSettings, AddressSettings, NumberSettings, TextSettings
<1>12. OTypes' /\ phase' \in {"statements", "exit"}
  <2>1. CASE TakeSetting(x)
    BY <1>1, <1>3, <1>5, <1>10, <2>1 DEF OTypes
  <2>2. CASE TakeDataDir(x) \/ Unrecognized(x)
    BY <1>1, <1>3, <1>5, <2>2 DEF OTypes, TakeDataDir, Unrecognized
  <2> QED
    BY <1>2, <2>1, <2>2
<1>13. ASSUME phase' = "statements" PROVE \A s \in Settings : opt'[s] = Resolved(s, Readable(s))'
  <2>1. CASE TakeSetting(x)
    BY <1>9, <1>10, <2>1
  <2>2. CASE TakeDataDir(x)
    <3>1. opt' = opt /\ x.name \notin Settings
      BY <1>11, <2>2 DEF TakeDataDir
    <3> QED
      BY <1>9, <3>1
  <2> QED
    BY <1>2, <1>13, <2>1, <2>2 DEF Unrecognized
<1>14. /\ x.name = D => ValuesOf(D, stated') = ValuesOf(D, stated) \cup {x.value}
       /\ x.name # D => ValuesOf(D, stated') = ValuesOf(D, stated)
  BY <1>2, <1>5, ValuesAppended
<1>15. ASSUME phase' = "statements"
       PROVE  /\ inCLI' <=> Naming(D, given') # {}
              /\ dirs' = IF Naming(D, given') # {} THEN ValuesOf(D, given')
                         ELSE ValuesOf(D, stated')
  <2>1. /\ inCLI <=> Naming(D, given) # {}
        /\ dirs = IF Naming(D, given) # {} THEN ValuesOf(D, given) ELSE ValuesOf(D, stated)
    BY <1>1 DEF DirsSoFar, Reads
  <2>2. CASE TakeSetting(x)
    BY <1>3, <1>10, <1>14, <2>1, <2>2
  <2>3. CASE TakeDataDir(x)
    <3>1. x.name = D /\ dirs' = IF inCLI THEN dirs ELSE dirs \cup {x.value}
      BY <2>3 DEF TakeDataDir, SetDir
    <3> QED
      BY <1>3, <1>14, <2>1, <3>1
  <2> QED
    BY <1>2, <1>15, <2>2, <2>3 DEF Unrecognized
<1>16. SoFar'
  BY <1>12, <1>13 DEF SoFar, Reads
<1>17. DirsSoFar'
  BY <1>12, <1>15 DEF DirsSoFar, Reads
<1>18. AsResolved'
  BY <1>12 DEF AsResolved, Running
<1> QED
  BY <1>6, <1>12, <1>16, <1>17, <1>18 DEF OInv

\* The steps in which nothing is read and no setting changes, but for the last.
LEMMA QuietKeeps ==
  ASSUME OInv, UNCHANGED <<opt, dirs, inCLI, confFile, given, stated>>, StackOK',
         phase' \in {"arguments", "statements", "start", "running", "exit", "crashed"},
         phase' \in Reads => phase \in Reads /\ (phase' = "arguments" => phase = "arguments"),
         phase' = "running" => phase = "running"
  PROVE  OInv'
<1>1. OTypes /\ SoFar /\ DirsSoFar /\ AsResolved
  BY DEF OInv
<1>2. \A s : /\ Naming(s, given)' = Naming(s, given) /\ Naming(s, stated)' = Naming(s, stated)
             /\ Resolved(s, Readable(s))' = Resolved(s, Readable(s))
  BY SaidStays
<1>3. ValuesOf("dataDir", given)' = ValuesOf("dataDir", given)
      /\ ValuesOf("dataDir", stated)' = ValuesOf("dataDir", stated)
  BY DEF ValuesOf, Naming
<1>4. OTypes'
  BY <1>1 DEF OTypes
<1>5. SoFar'
  BY <1>1, <1>2 DEF SoFar, Reads
<1>6. DirsSoFar'
  BY <1>1, <1>2, <1>3 DEF DirsSoFar, Reads
<1>7. AsResolved'
  BY <1>1, <1>2, <1>3 DEF AsResolved, Running
<1> QED
  BY <1>4, <1>5, <1>6, <1>7 DEF OInv

\* The threads start with what was resolved, and one of them if none was asked for.
LEMMA StartKeeps == ASSUME OInv, Start PROVE OInv'
<1>1. OTypes /\ StackOK /\ SoFar /\ DirsSoFar /\ phase = "start"
  BY DEF OInv, Start
<1>2. UNCHANGED <<dirs, inCLI, confFile, given, stated, buffer, level, nested>>
  BY DEF Start, files
<1>3. StackOK'
  BY <1>1, <1>2, StackStep
<1>4. CASE phase' = "exit" /\ opt' = opt
  BY <1>2, <1>3, <1>4, QuietKeeps DEF Reads
<1>5. CASE /\ phase' = "running"
           /\ IF opt["converterThreadCount"] = 0
              THEN Set("converterThreadCount", DefaultThreadCount) ELSE UNCHANGED opt
  <2> DEFINE T == "converterThreadCount"
  <2>1. T \in Settings /\ T \in Numbers
    BY DEF Settings, Numbers, NumberSettings
  <2>2. /\ DOMAIN opt' = Settings
        /\ \A s \in Settings :
             opt'[s] = IF s = T /\ opt[s] = 0 THEN DefaultThreadCount ELSE opt[s]
    <3>1. DOMAIN opt = Settings
      BY <1>1 DEF OTypes
    <3>2. CASE opt[T] = 0
      <4>1. opt' = [opt EXCEPT ![T] = DefaultThreadCount]
        BY <1>5, <3>2 DEF Set
      <4> QED
        BY <2>1, <3>1, <3>2, <4>1
    <3>3. CASE opt[T] # 0
      BY <1>5, <3>1, <3>3
    <3> QED
      BY <3>2, <3>3
  <2>3. \A s \in Numbers : s \in Settings /\ opt'[s] \in Int
    <3>1. \A s \in Numbers : s \in Settings
      BY DEF Numbers, Settings
    <3> QED
      BY <1>1, <2>2, <3>1 DEF OTypes, DefaultThreadCount
  <2>4. OTypes'
    BY <1>1, <1>2, <1>5, <2>2, <2>3 DEF OTypes
  <2>5. \A s : /\ Naming(s, given)' = Naming(s, given)
               /\ Resolved(s, Readable(s))' = Resolved(s, Readable(s))
    BY <1>2, SaidStays
  <2>6. ValuesOf("dataDir", given)' = ValuesOf("dataDir", given)
        /\ ValuesOf("dataDir", stated)' = ValuesOf("dataDir", stated)
    BY <1>2 DEF ValuesOf, Naming
  <2>7. /\ inCLI <=> Naming("dataDir", given) # {}
        /\ dirs = IF Naming("dataDir", given) # {} THEN ValuesOf("dataDir", given)
                  ELSE ValuesOf("dataDir", stated)
    BY <1>1 DEF DirsSoFar, Reads
  <2>8. DirsSoFar'
    BY <1>2, <1>5, <2>5, <2>6, <2>7 DEF DirsSoFar, Reads
  <2>9. \A s \in Settings : opt[s] = Resolved(s, Readable(s))
    BY <1>1 DEF SoFar, Reads
  <2>10. AsResolved'
    <3>1. \A s \in Settings :
            opt'[s] = IF s = T /\ Resolved(s, Readable(s))' = 0
                      THEN DefaultThreadCount ELSE Resolved(s, Readable(s))'
      BY <2>2, <2>5, <2>9
    <3>2. dirs' = IF Naming("dataDir", given)' # {} THEN ValuesOf("dataDir", given)'
                  ELSE ValuesOf("dataDir", stated)'
      BY <1>2, <2>5, <2>6, <2>7
    <3> QED
      BY <3>1, <3>2 DEF AsResolved, DefaultThreadCount
  <2>11. SoFar'
    BY <1>5 DEF SoFar, Reads
  <2> QED
    BY <1>3, <2>4, <2>8, <2>10, <2>11 DEF OInv
<1> QED
  BY <1>4, <1>5 DEF Start

LEMMA OptionsNext == OInv /\ [Next]_vars => OInv'
<1> SUFFICES ASSUME OInv, [Next]_vars PROVE OInv'
  OBVIOUS
<1>0. OTypes /\ StackOK
  BY DEF OInv
<1>1. CASE ReadArgument
  BY <1>1, ArgumentKeeps
<1>2. CASE ReadStatement
  BY <1>2, StatementKeeps
<1>3. CASE Start
  BY <1>3, StartKeeps
<1>4. CASE EndOfArguments \/ FailToInclude \/ EndOfStatements
  <2>1. UNCHANGED <<opt, dirs, inCLI, confFile, given, stated, buffer, level, nested>>
    BY <1>4 DEF EndOfArguments, FailToInclude, EndOfStatements, files
  <2>2. phase \in Reads /\ phase' \in {"statements", "start", "exit", "crashed"}
    BY <1>4 DEF EndOfArguments, FailToInclude, EndOfStatements, Reads
  <2>3. StackOK'
    BY <1>0, <2>1, StackStep
  <2> QED
    BY <2>1, <2>2, <2>3, QuietKeeps
<1>5. CASE ChangeFile
  <2>1. UNCHANGED <<phase, opt, dirs, inCLI, confFile, given, stated>> /\ phase = "statements"
    BY <1>5 DEF ChangeFile
  <2>2. StackOK'
    BY <1>0, <1>5, StackStep DEF ChangeFile
  <2> QED
    BY <1>0, <2>1, <2>2, QuietKeeps DEF Reads
<1>6. CASE Settled \/ UNCHANGED vars
  <2>1. UNCHANGED <<phase, opt, dirs, inCLI, confFile, given, stated, buffer, level, nested>>
    BY <1>6 DEF Settled, vars, files
  <2>2. StackOK'
    BY <1>0, <2>1, StackStep
  <2> QED
    BY <1>0, <2>1, <2>2, QuietKeeps DEF OTypes
<1> QED
  BY <1>1, <1>2, <1>3, <1>4, <1>5, <1>6 DEF Next

-----------------------------------------------------------------------------
(* Texts one behind the other: FlattenSeq.                                  *)

\* The first n members of p, one behind the other.
Joined(p, n) == FlattenSeq([i \in 1..n |-> p[i]])

Ranging(f, n) == f = [i \in 1..n |-> f[i]]

\* Each member of f is what the members of p up to it make.
Joins(f, p, n) ==
  /\ Ranging(f, n)
  /\ \A i \in 1..n : f[i] = IF i = 1 THEN p[1] ELSE f[i - 1] \o p[i]

\* There is such an f, and any two agree as far as both go.
LEMMA JoinsExists ==
  ASSUME NEW p
  PROVE  \A n \in Nat : \E f : Joins(f, p, n)
<1> DEFINE S == {n \in Nat : \E f : Joins(f, p, n)}
<1>1. 0 \in S
  <2>1. Joins([i \in 1..0 |-> 0], p, 0)
    BY DEF Joins, Ranging
  <2> QED
    BY <2>1
<1>2. ASSUME NEW n \in Nat, n \in S PROVE n + 1 \in S
  <2>1. PICK f : Joins(f, p, n)
    BY <1>2
  <2> DEFINE g == [i \in 1..(n + 1) |-> IF i <= n THEN f[i]
                                         ELSE IF n = 0 THEN p[1] ELSE f[n] \o p[n + 1]]
  <2>2. g = [i \in 1..(n + 1) |-> g[i]]
    OBVIOUS
  <2>3. ASSUME NEW i \in 1..(n + 1) PROVE g[i] = IF i = 1 THEN p[1] ELSE g[i - 1] \o p[i]
    <3>1. CASE i <= n
      <4>1. i \in 1..n /\ f[i] = IF i = 1 THEN p[1] ELSE f[i - 1] \o p[i]
        BY <2>1, <3>1 DEF Joins
      <4>2. i # 1 => g[i - 1] = f[i - 1]
        BY <3>1
      <4> QED
        BY <3>1, <4>1, <4>2
    <3>2. CASE i = n + 1
      BY <3>2
    <3> QED
      BY <3>1, <3>2
  <2>4. Joins(g, p, n + 1)
    BY <2>2, <2>3 DEF Joins, Ranging
  <2> QED
    BY <2>4
<1> HIDE DEF S
<1>3. \A n \in Nat : n \in S
  BY <1>1, <1>2, Induction
<1> QED
  BY <1>3 DEF S

LEMMA JoinsAgree ==
  ASSUME NEW p, NEW n \in Nat, NEW m \in Nat, n <= m, NEW f, NEW g, Joins(f, p, n), Joins(g, p, m)
  PROVE  \A i \in 1..n : f[i] = g[i]
<1> DEFINE S == {i \in Nat : i + 1 <= n => f[i + 1] = g[i + 1]}
<1>0. \A i \in 1..n : /\ f[i] = IF i = 1 THEN p[1] ELSE f[i - 1] \o p[i]
                      /\ g[i] = IF i = 1 THEN p[1] ELSE g[i - 1] \o p[i]
  BY DEF Joins
<1>1. 0 \in S
  BY <1>0
<1>2. ASSUME NEW i \in Nat, i \in S PROVE i + 1 \in S
  <2>1. ASSUME i + 2 <= n PROVE f[i + 2] = g[i + 2]
    <3>1. f[i + 1] = g[i + 1] /\ i + 2 \in 1..n /\ i + 2 # 1 /\ (i + 2) - 1 = i + 1
      BY <1>2, <2>1
    <3> QED
      BY <1>0, <3>1
  <2>2. i + 1 \in Nat /\ (i + 1) + 1 = i + 2
    OBVIOUS
  <2> QED
    BY <2>1, <2>2
<1> HIDE DEF S
<1>3. \A i \in Nat : i \in S
  BY <1>1, <1>2, Induction
<1>4. \A i \in 1..n : i - 1 \in Nat /\ (i - 1) + 1 = i /\ i <= n
  OBVIOUS
<1> QED
  BY <1>3, <1>4 DEF S

\* So the sequence that FlattenSeq chooses is one of them.
LEMMA JoinedIs ==
  ASSUME NEW p, NEW n \in Nat, n >= 1
  PROVE  \E f : Joins(f, p, n) /\ Joined(p, n) = f[n]
<1>1. PICK s : s = [i \in 1..n |-> p[i]]
  OBVIOUS
<1>2. Len(s) = n
  BY <1>1
<1> DEFINE R(f) == f = [i \in 1..Len(s) |-> IF i = 1 THEN s[i] ELSE f[i - 1] \o s[i]]
           c == CHOOSE f : R(f)
<1>3. FlattenSeq(s) = c[n]
  BY <1>2 DEF FlattenSeq
<1>4. ASSUME NEW f PROVE R(f) <=> Joins(f, p, n)
  <2>1. PICK h : h = [i \in 1..n |-> IF i = 1 THEN p[1] ELSE f[i - 1] \o p[i]]
    OBVIOUS
  <2>2. R(f) <=> f = h
    BY <1>1, <1>2, <2>1
  <2>3. \A i \in 1..n : h[i] = IF i = 1 THEN p[1] ELSE f[i - 1] \o p[i]
    BY <2>1
  <2>4. h = [i \in 1..n |-> h[i]]
    BY <2>1
  <2> HIDE DEF R
  <2>5. Joins(f, p, n) => f = h
    BY <2>3, <2>4 DEF Joins, Ranging
  <2>6. f = h => Joins(f, p, n)
    BY <2>3, <2>4 DEF Joins, Ranging
  <2> QED
    BY <2>2, <2>5, <2>6
<1>5. \E f : R(f)
  BY <1>4, JoinsExists
<1> HIDE DEF R
<1>6. R(c)
  BY <1>5
<1> QED
  BY <1>1, <1>3, <1>4, <1>6 DEF Joined

\* Joining a member more; the first one is taken as it is.
LEMMA JoinedProperties ==
  ASSUME NEW p, NEW n \in Nat
  PROVE  /\ Joined(p, 0) = <<>>
         /\ Joined(p, 1) = p[1]
         /\ n >= 1 => Joined(p, n + 1) = Joined(p, n) \o p[n + 1]
<1>1. Joined(p, 0) = <<>>
  BY DEF Joined, FlattenSeq
<1>2. Joined(p, 1) = p[1]
  <2>1. PICK f : Joins(f, p, 1) /\ Joined(p, 1) = f[1]
    BY JoinedIs
  <2> QED
    BY <2>1 DEF Joins
<1>3. ASSUME n >= 1 PROVE Joined(p, n + 1) = Joined(p, n) \o p[n + 1]
  <2>1. PICK f : Joins(f, p, n) /\ Joined(p, n) = f[n]
    BY <1>3, JoinedIs
  <2>2. PICK g : Joins(g, p, n + 1) /\ Joined(p, n + 1) = g[n + 1]
    BY <1>3, JoinedIs
  <2>3. f[n] = g[n]
    BY <1>3, <2>1, <2>2, JoinsAgree
  <2>4. n + 1 \in 1..(n + 1) /\ n + 1 # 1 /\ (n + 1) - 1 = n
    BY <1>3
  <2>5. g[n + 1] = g[n] \o p[n + 1]
    BY <2>2, <2>4 DEF Joins
  <2> QED
    BY <2>1, <2>2, <2>3, <2>5
<1> QED
  BY <1>1, <1>2, <1>3

\* What the parser was given or will be given.
Texts == Seq(Statements)

LEMMA ConcatTyping ==
  ASSUME NEW r \in Texts, NEW s \in Texts PROVE r \o s \in Texts
BY DEF Texts

LEMMA ConcatAssociates ==
  ASSUME NEW r \in Texts, NEW s \in Texts, NEW t \in Texts
  PROVE  (r \o s) \o t = r \o (s \o t)
BY DEF Texts

LEMMA ConcatEmpty ==
  ASSUME NEW r \in Texts PROVE <<>> \o r = r /\ r \o <<>> = r
BY DEF Texts

\* Only the first n members count.
LEMMA JoinedSame ==
  ASSUME NEW p, NEW q, NEW n \in Nat, \A i \in 1..n : p[i] = q[i]
  PROVE  Joined(p, n) = Joined(q, n)
<1>1. [i \in 1..n |-> p[i]] = [i \in 1..n |-> q[i]]
  OBVIOUS
<1> QED
  BY <1>1 DEF Joined

-----------------------------------------------------------------------------
(* The reference, item by item.                                            *)

\* What the files stand for that an item at level l may include.
TextsAt(l) == TextOver[MaxNested - l]
ItemTexts(items, l) == [i \in DOMAIN items |-> ItemText(items[i], TextsAt(l))]
FileTexts(found, l) == [k \in DOMAIN found |-> TextsAt(l)[found[k]]]

\* The text of the first n items at a level, and of the first n of the files that a
\* directive at this level found.
Upto(items, l, n) == Joined(ItemTexts(items, l), n)
FilesUpto(found, l, n) == Joined(FileTexts(found, l), n)

\* No item, no text.
LEMMA NothingYet ==
  ASSUME NEW x, NEW l
  PROVE  Upto(x, l, 0) = <<>> /\ FilesUpto(x, l, 0) = <<>>
BY JoinedProperties DEF Upto, FilesUpto

\* All items, and all files found, make the text of the reference.
LEMMA WholeIs ==
  ASSUME NEW S, NEW xs \in Seq(S), NEW l
  PROVE  /\ Upto(xs, l, Len(xs)) = Expand(xs, TextsAt(l))
         /\ FilesUpto(xs, l, Len(xs)) = TextOf(xs, TextsAt(l))
<1>1. DOMAIN xs = 1..Len(xs)
  OBVIOUS
<1>2. [i \in 1..Len(xs) |-> ItemTexts(xs, l)[i]] = [i \in DOMAIN xs |-> ItemText(xs[i], TextsAt(l))]
  BY <1>1 DEF ItemTexts
<1>3. [i \in 1..Len(xs) |-> FileTexts(xs, l)[i]] = [k \in DOMAIN xs |-> TextsAt(l)[xs[k]]]
  BY <1>1 DEF FileTexts
<1> QED
  BY <1>2, <1>3 DEF Upto, FilesUpto, Joined, Expand, TextOf

\* The text of a file at one level is its items' text at the next.
LEMMA TextOverIs ==
  ASSUME NEW l \in 0..(MaxNested - 1), NEW f \in DOMAIN Contents
  PROVE  TextsAt(l)[f] = Expand(Contents[f], TextsAt(l + 1))
<1> DEFINE D == DOMAIN Contents
           t0 == [g \in D |-> TooMuch]
           t1 == [g \in D |-> Expand(Contents[g], t0)]
           t2 == [g \in D |-> Expand(Contents[g], t1)]
           t3 == [g \in D |-> Expand(Contents[g], t2)]
           t4 == [g \in D |-> Expand(Contents[g], t3)]
           t5 == [g \in D |-> Expand(Contents[g], t4)]
           R(t) == t = [n \in 0..MaxNested |->
                          [g \in D |-> IF n = 0 THEN TooMuch ELSE Expand(Contents[g], t[n - 1])]]
           t == [n \in 0..MaxNested |->
                   IF n = 0 THEN t0 ELSE IF n = 1 THEN t1 ELSE IF n = 2 THEN t2
                   ELSE IF n = 3 THEN t3 ELSE IF n = 4 THEN t4 ELSE t5]
<1>1. MaxNested = 5
  BY DEF MaxNested
<1>2. PICK u : u = [n \in 0..MaxNested |->
                      [g \in D |-> IF n = 0 THEN TooMuch ELSE Expand(Contents[g], t[n - 1])]]
  OBVIOUS
<1>3. ASSUME NEW n \in 0..MaxNested PROVE u[n] = t[n]
  <2>1. u[n] = [g \in D |-> IF n = 0 THEN TooMuch ELSE Expand(Contents[g], t[n - 1])]
    BY <1>2
  <2>2. n = 0 \/ n = 1 \/ n = 2 \/ n = 3 \/ n = 4 \/ n = 5
    BY <1>1
  <2>3. t[0] = t0 /\ t[1] = t1 /\ t[2] = t2 /\ t[3] = t3 /\ t[4] = t4 /\ t[5] = t5
    <3> HIDE DEF t0, t1, t2, t3, t4, t5
    <3> QED
      BY <1>1
  <2> HIDE DEF t
  <2>4. CASE n = 0
    BY <2>1, <2>3, <2>4
  <2>5. CASE n # 0
    <3>1. u[n] = [g \in D |-> Expand(Contents[g], t[n - 1])]
      BY <2>1, <2>5
    <3>2. /\ t1 = [g \in D |-> Expand(Contents[g], t0)]
          /\ t2 = [g \in D |-> Expand(Contents[g], t1)]
          /\ t3 = [g \in D |-> Expand(Contents[g], t2)]
          /\ t4 = [g \in D |-> Expand(Contents[g], t3)]
          /\ t5 = [g \in D |-> Expand(Contents[g], t4)]
      OBVIOUS
    <3> HIDE DEF t0, t1, t2, t3, t4, t5
    <3>3. /\ n = 1 => n - 1 = 0
          /\ n = 2 => n - 1 = 1
          /\ n = 3 => n - 1 = 2
          /\ n = 4 => n - 1 = 3
          /\ n = 5 => n - 1 = 4
      OBVIOUS
    <3> QED
      BY <2>2, <2>3, <2>5, <3>1, <3>2, <3>3
  <2> QED
    BY <2>4, <2>5
<1>4. t = u
  <2>1. DOMAIN u = 0..MaxNested
    BY <1>2
  <2>2. u = [n \in 0..MaxNested |-> u[n]]
    BY <1>2
  <2>3. t = [n \in 0..MaxNested |-> t[n]]
    <3> HIDE DEF t0, t1, t2, t3, t4, t5
    <3> QED
      OBVIOUS
  <2> HIDE DEF t
  <2> QED
    BY <1>3, <2>2, <2>3
<1>5. R(t)
  <2> HIDE DEF t
  <2> QED
    BY <1>2, <1>4
<1>6. \E x : R(x)
  <2> HIDE DEF R, t
  <2> QED
    BY <1>5
<1> DEFINE c == CHOOSE x : R(x)
<1>7. TextOver = c
  BY DEF TextOver
<1>8. R(c)
  <2> HIDE DEF R
  <2> QED
    BY <1>6
<1>9. R(TextOver)
  BY <1>7, <1>8
<1>10. PICK v : v = TextOver
  OBVIOUS
<1>11. ASSUME NEW n \in 1..MaxNested PROVE v[n] = [g \in D |-> Expand(Contents[g], v[n - 1])]
  <2>1. PICK w : w = [m \in 0..MaxNested |->
                        [g \in D |-> IF m = 0 THEN TooMuch ELSE Expand(Contents[g], v[m - 1])]]
    OBVIOUS
  <2>2. v = w
    BY <1>9, <1>10, <2>1
  <2>3. w[n] = [g \in D |-> Expand(Contents[g], v[n - 1])]
    BY <2>1, <1>1
  <2> QED
    BY <2>2, <2>3
<1>12. MaxNested - l \in 1..MaxNested /\ (MaxNested - l) - 1 = MaxNested - (l + 1)
  BY <1>1
<1>13. TextsAt(l) = v[MaxNested - l] /\ TextsAt(l + 1) = v[MaxNested - (l + 1)]
  BY <1>10 DEF TextsAt
<1>14. v[MaxNested - l] = [g \in D |-> Expand(Contents[g], v[MaxNested - (l + 1)])]
  BY <1>11, <1>12
<1>15. TextsAt(l) = [g \in D |-> Expand(Contents[g], TextsAt(l + 1))]
  BY <1>13, <1>14
<1> QED
  BY <1>15

\* The first n items are the same.
SameUpto(more, items, n) ==
  \A i \in 1..n : i \in DOMAIN items /\ i \in DOMAIN more /\ more[i] = items[i]

\* One item more.
LEMMA OneMore ==
  ASSUME NEW items, NEW more, NEW l, NEW n \in Nat,
         NEW m, m = n + 1, m \in DOMAIN more,
         SameUpto(more, items, n), Upto(items, l, n) \in Texts, ItemText(more[m], TextsAt(l)) \in Texts
  PROVE  /\ Upto(more, l, n) = Upto(items, l, n)
         /\ Upto(more, l, m) = Upto(items, l, n) \o ItemText(more[m], TextsAt(l))
         /\ Upto(more, l, m) \in Texts
<1>1. \A i \in 1..n : ItemTexts(items, l)[i] = ItemTexts(more, l)[i]
  BY DEF ItemTexts, SameUpto
<1>2. Upto(more, l, n) = Upto(items, l, n)
  BY <1>1, JoinedSame DEF Upto
<1>3. ItemTexts(more, l)[m] = ItemText(more[m], TextsAt(l))
  BY DEF ItemTexts
<1>4. CASE n = 0
  <2>1. Upto(more, l, m) = ItemText(more[m], TextsAt(l))
    BY <1>3, <1>4, JoinedProperties DEF Upto
  <2>2. Upto(items, l, n) = <<>>
    BY <1>4, NothingYet
  <2> QED
    BY <1>2, <2>1, <2>2
<1>5. CASE n # 0
  <2>1. Upto(more, l, m) = Upto(more, l, n) \o ItemText(more[m], TextsAt(l))
    <3>1. n >= 1
      BY <1>5
    <3>2. Joined(ItemTexts(more, l), n + 1) = Joined(ItemTexts(more, l), n) \o ItemTexts(more, l)[m]
      BY <3>1, JoinedProperties
    <3> QED
      BY <1>3, <3>2 DEF Upto
  <2>2. Upto(items, l, n) \o ItemText(more[m], TextsAt(l)) \in Texts
    BY ConcatTyping
  <2> QED
    BY <1>2, <2>1, <2>2
<1> QED
  BY <1>4, <1>5

\* One file more.
LEMMA OneFileMore ==
  ASSUME NEW found, NEW l, NEW n \in Nat, NEW m, m = n + 1, m \in DOMAIN found,
         FilesUpto(found, l, n) \in Texts, TextsAt(l)[found[m]] \in Texts
  PROVE  /\ FilesUpto(found, l, m) = FilesUpto(found, l, n) \o TextsAt(l)[found[m]]
         /\ FilesUpto(found, l, m) \in Texts
<1>3. FileTexts(found, l)[m] = TextsAt(l)[found[m]]
  BY DEF FileTexts
<1>4. CASE n = 0
  <2>1. FilesUpto(found, l, m) = TextsAt(l)[found[m]]
    BY <1>3, <1>4, JoinedProperties DEF FilesUpto
  <2>2. FilesUpto(found, l, n) = <<>>
    BY <1>4, NothingYet
  <2> QED
    BY <2>1, <2>2
<1>5. CASE n # 0
  <2>1. FilesUpto(found, l, m) = FilesUpto(found, l, n) \o TextsAt(l)[found[m]]
    <3>1. n >= 1
      BY <1>5
    <3>2. Joined(FileTexts(found, l), n + 1) = Joined(FileTexts(found, l), n) \o FileTexts(found, l)[m]
      BY <3>1, JoinedProperties
    <3> QED
      BY <1>3, <3>2 DEF FilesUpto
  <2>2. FilesUpto(found, l, n) \o TextsAt(l)[found[m]] \in Texts
    BY ConcatTyping
  <2> QED
    BY <2>1, <2>2
<1> QED
  BY <1>4, <1>5

-----------------------------------------------------------------------------
(* The lexer in its files.                                                  *)

\* The file that is read at level l and its items.
FileAt(l) == IF l = level THEN buffer.file ELSE nested[l].parent.file
ItemsAt(l) == IF l = 0 THEN root ELSE Contents[FileAt(l)]

AnyItems == Seq(Statements \cup Directives)

\* A level below the last: e is its entry of the stack, and file the one that is read
\* at the next level.  The directive that was found there is at the place before the
\* one to go on at; the texts before it and of the files before this one were read.
Below(b, l, e, items, file) ==
  /\ "current" \in DOMAIN e
  /\ e.filelist \in Seq({e.filelist[k] : k \in DOMAIN e.filelist})
  /\ e.current \in 1..Len(e.filelist) /\ file = e.filelist[e.current]
  /\ e.parent.at - 1 \in 1..Len(items)
  /\ items[e.parent.at - 1].name = "include"
  /\ Found[items[e.parent.at - 1].value] = e.filelist
  /\ Upto(items, l, e.parent.at - 2) \in Texts
  /\ FilesUpto(e.filelist, l, e.current - 1) \in Texts
  /\ b[l + 1] = (b[l] \o Upto(items, l, e.parent.at - 2))
                  \o FilesUpto(e.filelist, l, e.current - 1)

\* b[l] is what had been read when the file at level l was opened.
Laid(b) ==
  /\ b \in [0..MaxNested -> Texts] /\ b[0] = <<>>
  /\ \A l \in 0..(level - 1) : Below(b, l, nested[l], ItemsAt(l), FileAt(l + 1))
  /\ Upto(ItemsAt(level), level, buffer.at - 1) \in Texts
  /\ stated = b[level] \o Upto(ItemsAt(level), level, buffer.at - 1)

\* The place in the first file.
RootAt == IF level = 0 THEN buffer.at ELSE nested[0].parent.at

\* What the parser was given is the text of what the lexer passed, level by level.
ReadSoFar ==
  /\ root \in AnyItems /\ RootAt = Len(root) + 1
  /\ buffer.at - 1 \in 0..Len(ItemsAt(level))
  /\ \E b : Laid(b)

\* The items at a level in use are statements and directives.
LEMMA ItemsTyping ==
  ASSUME StackOK, root \in AnyItems, NEW l \in 0..level
  PROVE  ItemsAt(l) \in AnyItems /\ (l > 0 => FileAt(l) \in DOMAIN Contents)
<1>1. PICK n \in 0..5 : n = level
  BY DEF StackOK, MaxNested
<1>2. /\ l \in 0..n
      /\ l = n => PlaceAt(l, buffer)
      /\ l # n => PlaceAt(l, nested[l].parent)
  BY <1>1 DEF StackOK
<1>3. ASSUME l > 0 PROVE FileAt(l) \in DOMAIN Contents
  BY <1>1, <1>2, <1>3 DEF PlaceAt, Places, FileAt
<1>4. \A f \in DOMAIN Contents : Contents[f] \in AnyItems
  BY ConfFilesAssumption DEF AnyItems
<1> QED
  BY <1>1, <1>2, <1>3, <1>4 DEF ItemsAt

\* The item that the lexer finds, and those before it.
LEMMA ItemRead ==
  ASSUME StackOK, ReadSoFar, NEW item \in Items, Noted(item),
         NEW more, more = IF level = 0 THEN root' ELSE Contents[buffer.file]
  PROVE  /\ item \in Statements \cup Directives
         /\ root' \in AnyItems /\ more \in AnyItems
         /\ buffer.at \in Nat \ {0} /\ buffer.at \in 1..Len(more) /\ more[buffer.at] = item
         /\ \A i \in 1..(buffer.at - 1) :
              /\ i \in DOMAIN ItemsAt(level)
              /\ i \in DOMAIN more
              /\ more[i] = ItemsAt(level)[i]
         /\ level = 0 => buffer.at = Len(root')
         /\ level > 0 => root' = root
<1> DEFINE V == Statements \cup Directives
<1>1. PICK r \in Seq(V) : r = root
  BY DEF ReadSoFar, AnyItems
<1>2. level \in 0..5 /\ PlaceAt(level, buffer) /\ (InRoot <=> level = 0)
  BY DEF StackOK, MaxNested, PlaceAt, InRoot, Reader
<1>3. CASE level = 0
  <2>1. buffer.at = Len(r) + 1 /\ ItemsAt(level) = r /\ root' = Append(r, item) /\ more = root'
    BY <1>1, <1>2, <1>3 DEF ReadSoFar, RootAt, ItemsAt, Noted
  <2>2. item \in V
    BY <1>2, <1>3, ConfFilesAssumption DEF Items
  <2> HIDE DEF V
  <2>3. /\ Len(r) \in Nat /\ DOMAIN r = 1..Len(r)
        /\ Append(r, item) \in Seq(V) /\ Len(Append(r, item)) = Len(r) + 1
        /\ DOMAIN Append(r, item) = 1..(Len(r) + 1)
        /\ Append(r, item)[Len(r) + 1] = item
        /\ \A i \in 1..Len(r) : Append(r, item)[i] = r[i]
    BY <2>2
  <2>4. \A i \in 1..(buffer.at - 1) : i \in 1..Len(r) /\ i \in 1..(Len(r) + 1)
    BY <2>1, <2>3
  <2>5. buffer.at \in Nat \ {0} /\ buffer.at \in 1..Len(more)
    BY <2>1, <2>3
  <2>6. more \in Seq(V) /\ more[buffer.at] = item
    BY <2>1, <2>3
  <2>7. \A i \in 1..(buffer.at - 1) :
              /\ i \in DOMAIN ItemsAt(level)
              /\ i \in DOMAIN more
              /\ more[i] = ItemsAt(level)[i]
    BY <2>1, <2>3, <2>4
  <2>8. buffer.at = Len(root')
    BY <2>1, <2>3
  <2> QED
    BY <1>3, <2>1, <2>2, <2>5, <2>6, <2>7, <2>8 DEF AnyItems, V
<1>4. CASE level # 0
  <2>1. PICK xs \in Seq(V) : xs = more
    <3>1. ItemsAt(level) \in AnyItems /\ ItemsAt(level) = Contents[buffer.file]
      BY <1>1, <1>2, <1>4, ItemsTyping DEF ReadSoFar, ItemsAt, FileAt
    <3> QED
      BY <1>4, <3>1 DEF AnyItems
  <2>2. ItemsAt(level) = xs /\ root' = root
    BY <1>2, <1>4, <2>1 DEF ItemsAt, FileAt, Noted
  <2>3. item = xs[buffer.at] /\ buffer.at <= Len(xs)
    BY <1>2, <1>4, <2>1 DEF Items
  <2>4. buffer.at - 1 \in 0..Len(xs) /\ buffer.at \in Nat
    BY <1>2, <2>2 DEF ReadSoFar, PlaceAt, Places
  <2> HIDE DEF V
  <2>5. Len(xs) \in Nat /\ DOMAIN xs = 1..Len(xs) /\ \A i \in 1..Len(xs) : xs[i] \in V
    OBVIOUS
  <2>6. buffer.at \in 1..Len(xs) /\ \A i \in 1..(buffer.at - 1) : i \in 1..Len(xs)
    BY <2>3, <2>4, <2>5
  <2>7. item \in V
    BY <2>3, <2>5, <2>6
  <2> QED
    BY <1>1, <1>4, <2>1, <2>2, <2>3, <2>5, <2>6, <2>7 DEF AnyItems, V
<1> QED
  BY <1>3, <1>4

\* A statement, or a directive that finds no file: its text is said and passed.
LEMMA PassedText ==
  ASSUME StackOK, ReadSoFar, NEW item \in Items, Noted(item), buffer' = Passed,
         UNCHANGED <<level, nested>>, NEW said \in Texts, said = ItemText(item, TextsAt(level)),
         stated' = stated \o said
  PROVE  ReadSoFar'
<1>1. PICK L \in 0..5 : L = level
  BY DEF StackOK, MaxNested
<1>2. PICK n \in Nat : n = buffer.at - 1
  <2>1. buffer.at - 1 \in Nat
    BY ItemRead
  <2> QED
    BY <2>1
<1>3. PICK b : Laid(b)
  BY DEF ReadSoFar
<1>4. PICK items : items = ItemsAt(level)
  OBVIOUS
<1>5. PICK more : more = IF level = 0 THEN root' ELSE Contents[buffer.file]
  OBVIOUS
<1>6. buffer'.at = n + 2 /\ buffer'.file = buffer.file /\ buffer.at = n + 1
  <2>1. PlaceAt(level, buffer)
    BY DEF StackOK
  <2> QED
    BY <1>2, <2>1 DEF Passed, PlaceAt, Places
<1>7. ItemsAt(level)' = more
  BY <1>1, <1>5, <1>6 DEF ItemsAt, FileAt
<1>8. /\ root' \in AnyItems /\ more \in AnyItems
      /\ n + 1 \in 1..Len(more) /\ more[n + 1] = item
      /\ \A i \in 1..n : i \in DOMAIN items /\ i \in DOMAIN more /\ more[i] = items[i]
      /\ level = 0 => n + 1 = Len(root')
      /\ level > 0 => root' = root
  <2>1. /\ root' \in AnyItems /\ more \in AnyItems
        /\ buffer.at \in 1..Len(more) /\ more[buffer.at] = item
        /\ \A i \in 1..(buffer.at - 1) :
              /\ i \in DOMAIN ItemsAt(level)
              /\ i \in DOMAIN more
              /\ more[i] = ItemsAt(level)[i]
        /\ level = 0 => buffer.at = Len(root')
        /\ level > 0 => root' = root
    BY <1>5, ItemRead
  <2>2. buffer.at - 1 = n
    BY <1>2
  <2> QED
    BY <1>4, <1>6, <2>1, <2>2
<1>9. n + 1 \in DOMAIN more
  BY <1>8 DEF AnyItems
<1>10. Upto(items, L, n) \in Texts /\ stated = b[L] \o Upto(items, L, n)
       /\ b \in [0..MaxNested -> Texts] /\ b[0] = <<>>
  BY <1>1, <1>2, <1>3, <1>4 DEF Laid
<1>11. /\ Upto(more, L, n + 1) = Upto(items, L, n) \o said
       /\ Upto(more, L, n + 1) \in Texts
  <2>1. said = ItemText(more[n + 1], TextsAt(L)) /\ said \in Texts
    BY <1>1, <1>8
  <2>0. PICK m : m = n + 1
    OBVIOUS
  <2>2. SameUpto(more, items, n)
    BY <1>8 DEF SameUpto
  <2>3. ItemText(more[m], TextsAt(L)) \in Texts /\ Upto(items, L, n) \in Texts /\ m \in DOMAIN more
    BY <1>9, <1>10, <2>0, <2>1
  <2>4. /\ Upto(more, L, m) = Upto(items, L, n) \o ItemText(more[m], TextsAt(L))
        /\ Upto(more, L, m) \in Texts
    BY <2>0, <2>2, <2>3, OneMore
  <2> QED
    BY <2>0, <2>1, <2>4
<1>12. stated' = b[L] \o Upto(more, L, n + 1)
  <2>1. b[L] \in Texts
    BY <1>1, <1>10 DEF MaxNested
  <2>2. (b[L] \o Upto(items, L, n)) \o said = b[L] \o (Upto(items, L, n) \o said)
    BY <1>10, <2>1, ConcatAssociates
  <2> QED
    BY <1>10, <1>11, <2>2
<1>13. ASSUME NEW l \in 0..(L - 1)
       PROVE  Below(b, l, nested'[l], ItemsAt(l)', FileAt(l + 1)')
  <2>1. ItemsAt(l)' = ItemsAt(l) /\ FileAt(l + 1)' = FileAt(l + 1)
    BY <1>1, <1>6, <1>8 DEF ItemsAt, FileAt
  <2> QED
    BY <1>1, <1>3, <2>1 DEF Laid
<1>14. Laid(b)'
  <2>1. (buffer.at - 1)' = n + 1
    BY <1>6
  <2> QED
    BY <1>1, <1>7, <1>10, <1>11, <1>12, <1>13, <2>1 DEF Laid
<1>15. RootAt' = Len(root') + 1
  <2>1. CASE level = 0
    BY <1>6, <1>8, <2>1 DEF RootAt
  <2>2. CASE level # 0
    BY <1>1, <1>8, <2>2 DEF RootAt, ReadSoFar
  <2> QED
    BY <2>1, <2>2
<1>16. (buffer.at - 1)' \in 0..Len(ItemsAt(level)')
  BY <1>6, <1>7, <1>8
<1> QED
  BY <1>8, <1>14, <1>15, <1>16 DEF ReadSoFar

\* A directive stands for the files it finds.
LEMMA DirectiveIs ==
  ASSUME NEW d \in Directives, ~ Refused(d)
  PROVE  /\ d.name = "include"
         /\ Found[d.value] \in Seq({Found[d.value][k] : k \in DOMAIN Found[d.value]})
         /\ \A l : ItemText(d, TextsAt(l)) = TextOf(Found[d.value], TextsAt(l))
<1>1. PICK p \in DOMAIN Found : d = [name |-> "include", value |-> p]
  BY DEF Directives
<1>2. d.name = "include" /\ d.value = p
  BY <1>1
<1>3. Found[p] # ABORTED
  BY <1>2 DEF Refused
<1> QED
  BY <1>2, <1>3, ConfFilesAssumption DEF ItemText

\* A directive that finds no file stands for nothing.
LEMMA NothingFound ==
  ASSUME NEW d \in Directives, IncludeNothing(d), NEW l
  PROVE  ItemText(d, TextsAt(l)) = <<>>
<1>1. Found[d.value] = <<>> /\ ItemText(d, TextsAt(l)) = TextOf(Found[d.value], TextsAt(l))
  BY DirectiveIs DEF IncludeNothing
<1>2. <<>> \in Seq({}) /\ Len(<<>>) = 0
  OBVIOUS
<1>3. FilesUpto(<<>>, l, 0) = TextOf(<<>>, TextsAt(l))
  BY <1>2, WholeIs
<1> QED
  BY <1>1, <1>3, NothingYet

\* A directive that finds files: its level waits, with nothing of them read.
LEMMA IncludedText ==
  ASSUME StackOK, ReadSoFar, stated \in Texts, NEW item \in Items \cap Directives,
         IncludeFirst(item), stated' = stated
  PROVE  ReadSoFar'
<1>1. PICK L \in 0..4 : L = level
  <2>1. level \in 0..5 /\ ~(level >= 5)
    BY DEF StackOK, MaxNested, IncludeFirst, Refused, TooDeep
  <2> QED
    BY <2>1
<1>2. level' = L + 1 /\ buffer'.at = 1 /\ buffer'.file = Head(Found[item.value])
      /\ Noted(item) /\ ~ Refused(item) /\ Found[item.value] # <<>>
  BY <1>1 DEF IncludeFirst, Opened
<1>3. PICK n \in Nat : n = buffer.at - 1
  <2>1. buffer.at - 1 \in Nat
    BY <1>2, ItemRead
  <2> QED
    BY <2>1
<1>4. PICK b : Laid(b)
  BY DEF ReadSoFar
<1>5. PICK items : items = ItemsAt(level)
  OBVIOUS
<1>6. PICK more : more = IF level = 0 THEN root' ELSE Contents[buffer.file]
  OBVIOUS
<1>7. /\ PlaceAt(level, buffer) /\ DOMAIN nested = 0..4
      /\ buffer.at = n + 1
      /\ Passed.at = n + 2 /\ Passed.file = buffer.file
  <2>1. PlaceAt(level, buffer) /\ DOMAIN nested = 0..4
    BY DEF StackOK, MaxNested
  <2> QED
    BY <1>3, <2>1 DEF Passed, PlaceAt, Places
<1>8. PICK e : e = [parent |-> Passed, filelist |-> Found[item.value], current |-> 1]
  OBVIOUS
<1>9. /\ nested'[L] = e
      /\ \A l \in 0..(L - 1) : nested'[l] = nested[l]
  <2>1. nested' = [nested EXCEPT ![level] = e]
    BY <1>8 DEF IncludeFirst
  <2> QED
    BY <1>1, <1>7, <2>1
<1>10. /\ root' \in AnyItems /\ more \in AnyItems
       /\ n + 1 \in 1..Len(more) /\ more[n + 1] = item
       /\ SameUpto(more, items, n)
       /\ level = 0 => n + 1 = Len(root')
       /\ level > 0 => root' = root
  <2>1. /\ root' \in AnyItems /\ more \in AnyItems
        /\ buffer.at \in 1..Len(more) /\ more[buffer.at] = item
        /\ \A i \in 1..(buffer.at - 1) :
              /\ i \in DOMAIN ItemsAt(level)
              /\ i \in DOMAIN more
              /\ more[i] = ItemsAt(level)[i]
        /\ level = 0 => buffer.at = Len(root')
        /\ level > 0 => root' = root
    BY <1>2, <1>6, ItemRead
  <2>2. buffer.at - 1 = n
    BY <1>3
  <2> QED
    BY <1>5, <1>7, <2>1, <2>2 DEF SameUpto
<1>11. /\ FileAt(L + 1)' = Head(Found[item.value])
       /\ \A l \in 1..L : FileAt(l)' = FileAt(l)
       /\ ItemsAt(L)' = more
       /\ \A l \in 0..(L - 1) : ItemsAt(l)' = ItemsAt(l)
  <2>1. FileAt(L + 1)' = Head(Found[item.value])
    BY <1>1, <1>2 DEF FileAt
  <2>2. ASSUME NEW l \in 0..L PROVE FileAt(l)' = FileAt(l)
    <3>1. level' # l
      BY <1>2
    <3>2. CASE l = L
      BY <1>1, <1>7, <1>8, <1>9, <3>1, <3>2 DEF FileAt
    <3>3. CASE l # L
      <4>1. l \in 0..(L - 1)
        BY <3>3
      <4> QED
        BY <1>1, <1>9, <3>1, <3>3, <4>1 DEF FileAt
    <3> QED
      BY <3>2, <3>3
  <2>3. ItemsAt(L)' = more
    BY <1>1, <1>6, <2>2 DEF ItemsAt, FileAt
  <2>4. ASSUME NEW l \in 0..(L - 1) PROVE ItemsAt(l)' = ItemsAt(l)
    BY <1>1, <1>10, <2>2 DEF ItemsAt
  <2> QED
    BY <2>1, <2>2, <2>3, <2>4
<1>12. Upto(items, L, n) \in Texts /\ stated = b[L] \o Upto(items, L, n)
       /\ b \in [0..MaxNested -> Texts] /\ b[0] = <<>>
  BY <1>1, <1>3, <1>4, <1>5 DEF Laid
<1>13. Upto(more, L, n) = Upto(items, L, n)
  <2>1. \A i \in 1..n : ItemTexts(items, L)[i] = ItemTexts(more, L)[i]
    BY <1>10 DEF ItemTexts, SameUpto
  <2> QED
    BY <2>1, JoinedSame DEF Upto
<1>21. PICK c : c = [b EXCEPT ![L + 1] = stated]
  OBVIOUS
<1>14. c \in [0..MaxNested -> Texts] /\ c[0] = <<>> /\ c[L + 1] = stated
       /\ \A l \in 0..L : c[l] = b[l]
  BY <1>12, <1>21 DEF MaxNested
<1>15. Below(c, L, e, more, Head(Found[item.value]))
  <2>1. PICK found : found = Found[item.value]
    OBVIOUS
  <2>2. found \in Seq({found[k] : k \in DOMAIN found}) /\ item.name = "include"
    BY <1>2, <2>1, DirectiveIs
  <2>3. found # <<>>
    BY <1>2, <2>1
  <2>4. Len(found) \in Nat \ {0} /\ Head(found) = found[1]
    <3> DEFINE X == {found[k] : k \in DOMAIN found}
    <3> HIDE DEF X
    <3>1. found \in Seq(X)
      BY <2>2 DEF X
    <3> QED
      BY <2>3, <3>1
  <2>5. e.filelist = found /\ e.current = 1 /\ e.parent.at = n + 2
    BY <1>7, <1>8, <2>1
  <2>6. e.parent.at - 1 = n + 1 /\ e.parent.at - 2 = n /\ e.current - 1 = 0
    BY <2>5
  <2>7. FilesUpto(found, L, 0) = <<>> /\ <<>> \in Texts
    BY NothingYet DEF Texts
  <2>8. (b[L] \o Upto(more, L, n)) \o <<>> = stated
    BY <1>12, <1>13, ConcatEmpty
  <2>9. c[L + 1] = (c[L] \o Upto(more, L, n)) \o FilesUpto(found, L, 0)
    <3>1. c[L] = b[L]
      BY <1>14
    <3> QED
      BY <1>14, <2>7, <2>8, <3>1
  <2>10. /\ e.filelist \in Seq({e.filelist[k] : k \in DOMAIN e.filelist})
         /\ e.current \in 1..Len(e.filelist) /\ Head(Found[item.value]) = e.filelist[e.current]
    BY <2>1, <2>2, <2>4, <2>5
  <2>11. /\ e.parent.at - 1 \in 1..Len(more)
         /\ more[e.parent.at - 1].name = "include"
         /\ Found[more[e.parent.at - 1].value] = e.filelist
    BY <1>10, <2>1, <2>2, <2>5, <2>6
  <2>12. /\ Upto(more, L, e.parent.at - 2) \in Texts
         /\ FilesUpto(e.filelist, L, e.current - 1) \in Texts
    BY <1>12, <1>13, <2>5, <2>6, <2>7
  <2>13. c[L + 1] = (c[L] \o Upto(more, L, e.parent.at - 2))
                      \o FilesUpto(e.filelist, L, e.current - 1)
    BY <2>5, <2>6, <2>9
  <2>14. "current" \in DOMAIN e
    BY <1>8
  <2> QED
    BY <2>10, <2>11, <2>12, <2>13, <2>14 DEF Below
<1>16. ASSUME NEW l \in 0..L
       PROVE  Below(c, l, nested'[l], ItemsAt(l)', FileAt(l + 1)')
  <2>1. CASE l = L
    BY <1>9, <1>11, <1>15, <2>1
  <2>2. CASE l # L
    <3>1. l \in 0..(L - 1) /\ l + 1 \in 1..L
      BY <2>2
    <3>2. Below(b, l, nested[l], ItemsAt(l), FileAt(l + 1))
      BY <1>1, <1>4, <3>1 DEF Laid
    <3>3. c[l] = b[l] /\ c[l + 1] = b[l + 1]
      BY <1>14, <3>1
    <3>4. Below(c, l, nested[l], ItemsAt(l), FileAt(l + 1))
      BY <3>2, <3>3 DEF Below
    <3> QED
      BY <1>9, <1>11, <3>1, <3>4
  <2> QED
    BY <2>1, <2>2
<1>17. Upto(ItemsAt(level)', level', (buffer.at - 1)') = <<>>
  <2>1. (buffer.at - 1)' = 0
    BY <1>2
  <2> QED
    BY <2>1, NothingYet
<1>18. Laid(c)'
  <2>1. stated' = c[L + 1] \o <<>> /\ <<>> \in Texts
    BY <1>14, ConcatEmpty DEF Texts
  <2>2. level' - 1 = L
    BY <1>2
  <2> QED
    BY <1>2, <1>14, <1>16, <1>17, <2>1, <2>2 DEF Laid
<1>19. RootAt' = Len(root') + 1
  <2>1. RootAt' = nested'[0].parent.at
    BY <1>2 DEF RootAt
  <2>2. CASE L = 0
    BY <1>1, <1>7, <1>8, <1>9, <1>10, <2>1, <2>2
  <2>3. CASE L # 0
    <3>1. nested'[0] = nested[0] /\ root' = root
      BY <1>1, <1>9, <1>10, <2>3
    <3> QED
      BY <1>1, <2>1, <2>3, <3>1 DEF RootAt, ReadSoFar
  <2> QED
    BY <2>2, <2>3
<1>20. (buffer.at - 1)' \in 0..Len(ItemsAt(level)')
  <2>1. Head(Found[item.value]) \in DOMAIN Contents
    BY <1>2 DEF IncludeFirst, FirstMissing
  <2>2. ItemsAt(level)' = Contents[Head(Found[item.value])]
    BY <1>1, <1>2, <1>11 DEF ItemsAt
  <2>3. Len(Contents[Head(Found[item.value])]) \in Nat
    BY <2>1, ConfFilesAssumption
  <2> QED
    BY <1>2, <2>2, <2>3
<1> QED
  BY <1>10, <1>18, <1>19, <1>20 DEF ReadSoFar

\* At the end of an included file all its text is read, and with it so much of what
\* the directive found.
LEMMA FileRead ==
  ASSUME StackOK, ReadSoFar, EndOfIncluded,
         NEW b, Laid(b), NEW l, l = level - 1, NEW e, e = nested[l], NEW items, items = ItemsAt(l)
  PROVE  /\ l \in 0..4 /\ b[l] \in Texts
         /\ Below(b, l, e, items, FileAt(level))
         /\ FilesUpto(e.filelist, l, e.current) \in Texts
         /\ stated = (b[l] \o Upto(items, l, e.parent.at - 2)) \o FilesUpto(e.filelist, l, e.current)
<1>1. level \in 1..5 /\ ~ InRoot /\ PlaceAt(level, buffer) /\ Items = {}
  BY DEF StackOK, MaxNested, EndOfIncluded, PlaceAt, InRoot, Reader
<1>2. l \in 0..4 /\ l + 1 = level /\ l \in 0..(level - 1)
  BY <1>1
<1>3. /\ Below(b, l, e, items, FileAt(level))
      /\ b \in [0..MaxNested -> Texts]
      /\ Upto(ItemsAt(level), level, buffer.at - 1) \in Texts
      /\ stated = b[level] \o Upto(ItemsAt(level), level, buffer.at - 1)
  BY <1>2 DEF Laid
<1>4. b[l] \in Texts /\ b[level] \in Texts
  BY <1>1, <1>2, <1>3 DEF MaxNested
<1>5. PICK f \in DOMAIN Contents : f = FileAt(level)
  BY <1>1, ItemsTyping DEF ReadSoFar
<1>6. ItemsAt(level) = Contents[f] /\ FileAt(level) = buffer.file
  BY <1>1, <1>5 DEF ItemsAt, FileAt
<1>7. PICK xs \in AnyItems : xs = Contents[f]
  BY ConfFilesAssumption DEF AnyItems
<1>8. buffer.at - 1 = Len(xs)
  <2>1. ~(buffer.at <= Len(xs))
    BY <1>1, <1>5, <1>6, <1>7 DEF Items
  <2>2. buffer.at - 1 \in 0..Len(xs) /\ buffer.at \in Nat
    BY <1>1, <1>6, <1>7 DEF ReadSoFar, PlaceAt, Places
  <2>3. Len(xs) \in Nat
    BY DEF AnyItems
  <2> QED
    BY <2>1, <2>2, <2>3
<1>9. Upto(xs, level, Len(xs)) = TextsAt(l)[f]
  <2>1. Upto(xs, level, Len(xs)) = Expand(xs, TextsAt(level))
    BY WholeIs DEF AnyItems
  <2>2. TextsAt(l)[f] = Expand(Contents[f], TextsAt(l + 1))
    BY <1>2, TextOverIs DEF MaxNested
  <2> QED
    BY <1>2, <1>7, <2>1, <2>2
<1>10. TextsAt(l)[f] \in Texts /\ stated = b[level] \o TextsAt(l)[f]
  BY <1>3, <1>6, <1>7, <1>8, <1>9
<1>11. PICK found, c : found = e.filelist /\ c = e.current
  OBVIOUS
<1>12. /\ c \in 1..Len(found) /\ f = found[c] /\ c \in DOMAIN found
       /\ FilesUpto(found, l, c - 1) \in Texts
       /\ Upto(items, l, e.parent.at - 2) \in Texts
       /\ b[l + 1] = (b[l] \o Upto(items, l, e.parent.at - 2)) \o FilesUpto(found, l, c - 1)
  <2>1. /\ found \in Seq({found[k] : k \in DOMAIN found})
        /\ c \in 1..Len(found) /\ f = found[c]
        /\ FilesUpto(found, l, c - 1) \in Texts
        /\ Upto(items, l, e.parent.at - 2) \in Texts
        /\ b[l + 1] = (b[l] \o Upto(items, l, e.parent.at - 2)) \o FilesUpto(found, l, c - 1)
    BY <1>3, <1>5, <1>11 DEF Below
  <2>2. c \in DOMAIN found
    <3> DEFINE X == {found[k] : k \in DOMAIN found}
    <3> HIDE DEF X
    <3>1. found \in Seq(X)
      BY <2>1 DEF X
    <3> QED
      BY <2>1, <3>1
  <2> QED
    BY <2>1, <2>2
<1>13. /\ FilesUpto(found, l, c) = FilesUpto(found, l, c - 1) \o TextsAt(l)[f]
       /\ FilesUpto(found, l, c) \in Texts
  <2>1. PICK d \in Nat : d = c - 1
    <3>1. c - 1 \in Nat
      BY <1>12
    <3> QED
      BY <3>1
  <2>2. c = d + 1
    BY <1>12, <2>1
  <2>3. FilesUpto(found, l, d) \in Texts /\ TextsAt(l)[found[c]] \in Texts
    BY <1>10, <1>12, <2>1
  <2>4. /\ FilesUpto(found, l, c) = FilesUpto(found, l, d) \o TextsAt(l)[found[c]]
        /\ FilesUpto(found, l, c) \in Texts
    BY <1>12, <2>2, <2>3, OneFileMore
  <2> QED
    BY <1>12, <2>1, <2>4
<1>14. stated = (b[l] \o Upto(items, l, e.parent.at - 2)) \o FilesUpto(found, l, c)
  <2>1. PICK u : u = b[l] \o Upto(items, l, e.parent.at - 2)
    OBVIOUS
  <2>2. PICK v, w : v = FilesUpto(found, l, c - 1) /\ w = TextsAt(l)[f]
    OBVIOUS
  <2>3. u \in Texts /\ v \in Texts /\ w \in Texts
    BY <1>4, <1>10, <1>12, <2>1, <2>2, ConcatTyping
  <2>4. (u \o v) \o w = u \o (v \o w)
    BY <2>3, ConcatAssociates
  <2>5. stated = (u \o v) \o w
    BY <1>2, <1>10, <1>12, <2>1, <2>2
  <2> QED
    BY <1>13, <2>1, <2>2, <2>4, <2>5
<1> QED
  BY <1>2, <1>3, <1>4, <1>11, <1>13, <1>14

\* The next file that the directive found.
LEMMA NextText ==
  ASSUME StackOK, ReadSoFar, stated \in Texts, IncludeNext, stated' = stated
  PROVE  ReadSoFar'
<1>1. PICK b : Laid(b)
  BY DEF ReadSoFar
<1>2. PICK l, e : l = level - 1 /\ e = nested[l]
  OBVIOUS
<1>3. PICK items : items = ItemsAt(l)
  OBVIOUS
<1>4. /\ l \in 0..4 /\ b[l] \in Texts
      /\ Below(b, l, e, items, FileAt(level))
      /\ FilesUpto(e.filelist, l, e.current) \in Texts
      /\ stated = (b[l] \o Upto(items, l, e.parent.at - 2)) \o FilesUpto(e.filelist, l, e.current)
  <2>1. EndOfIncluded
    BY DEF IncludeNext
  <2> QED
    BY <1>1, <1>2, <1>3, <2>1, FileRead
<1>5. PICK next : next = Following
  OBVIOUS
<1>6. /\ level = l + 1 /\ level' = level /\ root' = root
      /\ buffer'.at = 1 /\ buffer'.file = next
      /\ next \in DOMAIN Contents /\ next = e.filelist[e.current + 1]
      /\ e.current # Len(e.filelist)
  <2>1. level \in Nat
    BY DEF StackOK, MaxNested
  <2> QED
    BY <1>2, <1>5, <2>1 DEF IncludeNext, Opened, Following, IsLast, Entry
<1>7. PICK h : h = [e EXCEPT !.current = @ + 1]
  OBVIOUS
<1>8. nested'[l] = h /\ \A k \in DOMAIN nested : k # l => nested'[k] = nested[k]
  <2>1. nested' = [nested EXCEPT ![l].current = @ + 1] /\ DOMAIN nested = 0..4
    BY <1>2 DEF IncludeNext, StackOK, MaxNested
  <2> QED
    BY <1>2, <1>4, <1>7, <2>1
<1>10. PICK c : c = [b EXCEPT ![l + 1] = stated]
  OBVIOUS
<1>11. /\ c \in [0..MaxNested -> Texts] /\ c[0] = <<>> /\ c[l + 1] = stated
       /\ \A k \in 0..l : c[k] = b[k]
  <2>1. b \in [0..MaxNested -> Texts] /\ b[0] = <<>> /\ stated \in Texts
    BY <1>1 DEF Laid, Texts
  <2>2. l + 1 \in 0..MaxNested /\ l + 1 # 0 /\ \A k \in 0..l : k # l + 1 /\ k \in 0..MaxNested
    BY <1>4 DEF MaxNested
  <2> QED
    BY <1>10, <2>1, <2>2
<1>12. h.current = e.current + 1 /\ h.filelist = e.filelist /\ h.parent = e.parent
       /\ "current" \in DOMAIN h
  <2>1. "current" \in DOMAIN e
    BY <1>4 DEF Below
  <2> QED
    BY <1>7, <2>1
<1>13. DOMAIN nested = 0..4 /\ \A k \in 0..4 : nested'[k].parent = nested[k].parent
  <2>1. DOMAIN nested = 0..4
    BY DEF StackOK, MaxNested
  <2> QED
    BY <1>2, <1>8, <1>12, <2>1
<1>14. /\ FileAt(l + 1)' = next
       /\ \A k \in 1..l : FileAt(k)' = FileAt(k)
       /\ \A k \in 0..l : ItemsAt(k)' = ItemsAt(k)
  <2>1. FileAt(l + 1)' = next
    BY <1>6 DEF FileAt
  <2>2. \A k \in 0..l : k \in 0..4 /\ level # k /\ level' # k
    BY <1>4, <1>6
  <2>3. \A k \in 0..l : FileAt(k)' = FileAt(k)
    BY <1>13, <2>2 DEF FileAt
  <2>4. \A k \in 0..l : ItemsAt(k)' = ItemsAt(k)
    BY <1>6, <2>3 DEF ItemsAt
  <2> QED
    BY <2>1, <2>3, <2>4
<1>15. Below(c, l, h, items, next)
  <2>1. PICK found, m : found = e.filelist /\ m = e.current
    OBVIOUS
  <2>2. Len(found) \in Nat
    <3> DEFINE X == {found[k] : k \in DOMAIN found}
    <3> HIDE DEF X
    <3>1. found \in Seq(X)
      BY <1>4, <2>1 DEF Below, X
    <3> QED
      BY <3>1
  <2>3. m \in 1..Len(found) /\ m # Len(found)
    BY <1>4, <1>6, <2>1 DEF Below
  <2>4. h.current = m + 1 /\ m + 1 \in 1..Len(found) /\ h.current - 1 = m
    BY <1>12, <2>1, <2>2, <2>3
  <2>5. next = h.filelist[h.current]
    BY <1>6, <1>12, <2>1, <2>4
  <2>6. c[l] = b[l] /\ c[l + 1] = stated
    BY <1>4, <1>11
  <2>7. c[l + 1] = (c[l] \o Upto(items, l, h.parent.at - 2)) \o FilesUpto(h.filelist, l, h.current - 1)
    BY <1>4, <1>12, <2>1, <2>4, <2>6
  <2>8. FilesUpto(h.filelist, l, h.current - 1) \in Texts
    BY <1>4, <1>12, <2>1, <2>4
  <2>9. /\ h.filelist \in Seq({h.filelist[k] : k \in DOMAIN h.filelist})
        /\ h.parent.at - 1 \in 1..Len(items)
        /\ items[h.parent.at - 1].name = "include"
        /\ Found[items[h.parent.at - 1].value] = h.filelist
        /\ Upto(items, l, h.parent.at - 2) \in Texts
    BY <1>4, <1>12 DEF Below
  <2>10. h.current \in 1..Len(h.filelist)
    BY <1>12, <2>1, <2>4
  <2> QED
    BY <1>12, <2>5, <2>7, <2>8, <2>9, <2>10 DEF Below
<1>16. ASSUME NEW k \in 0..l
       PROVE  Below(c, k, nested'[k], ItemsAt(k)', FileAt(k + 1)')
  <2>1. CASE k = l
    BY <1>3, <1>8, <1>14, <1>15, <2>1
  <2>2. CASE k # l
    <3>1. k \in 0..(l - 1) /\ k + 1 \in 1..l /\ k \in 0..4 /\ k \in 0..(level - 1)
      BY <1>4, <1>6, <2>2
    <3>2. Below(b, k, nested[k], ItemsAt(k), FileAt(k + 1))
      BY <1>1, <3>1 DEF Laid
    <3>3. c[k] = b[k] /\ c[k + 1] = b[k + 1]
      BY <1>11, <3>1
    <3>4. Below(c, k, nested[k], ItemsAt(k), FileAt(k + 1))
      BY <3>2, <3>3 DEF Below
    <3>5. nested'[k] = nested[k]
      BY <1>8, <1>13, <2>2, <3>1
    <3> QED
      BY <1>14, <3>1, <3>4, <3>5
  <2> QED
    BY <2>1, <2>2
<1>17. Upto(ItemsAt(level)', level', (buffer.at - 1)') = <<>>
  <2>1. (buffer.at - 1)' = 0
    BY <1>6
  <2> QED
    BY <2>1, NothingYet
<1>18. Laid(c)'
  <2>1. stated' = c[l + 1] \o <<>> /\ <<>> \in Texts
    BY <1>11, ConcatEmpty DEF Texts
  <2>2. level' = l + 1 /\ level' - 1 = l
    BY <1>4, <1>6
  <2> QED
    BY <1>11, <1>16, <1>17, <2>1, <2>2 DEF Laid
<1>19. RootAt' = Len(root') + 1
  <2>1. level # 0 /\ level' # 0 /\ nested'[0].parent = nested[0].parent
    BY <1>4, <1>6, <1>13
  <2> QED
    BY <1>6, <2>1 DEF RootAt, ReadSoFar
<1>20. (buffer.at - 1)' \in 0..Len(ItemsAt(level)')
  <2>1. ItemsAt(level)' = Contents[next]
    BY <1>4, <1>6 DEF ItemsAt, FileAt
  <2>2. Len(Contents[next]) \in Nat
    BY <1>6, ConfFilesAssumption
  <2> QED
    BY <1>6, <2>1, <2>2
<1> QED
  BY <1>6, <1>18, <1>19, <1>20 DEF ReadSoFar

\* Back in the file with the directive, all that it found is read.
LEMMA ParentText ==
  ASSUME StackOK, ReadSoFar, stated \in Texts, BackToParent, stated' = stated
  PROVE  ReadSoFar'
<1>1. PICK b : Laid(b)
  BY DEF ReadSoFar
<1>2. PICK l, e : l = level - 1 /\ e = nested[l]
  OBVIOUS
<1>3. PICK items : items = ItemsAt(l)
  OBVIOUS
<1>4. /\ l \in 0..4 /\ b[l] \in Texts
      /\ Below(b, l, e, items, FileAt(level))
      /\ FilesUpto(e.filelist, l, e.current) \in Texts
      /\ stated = (b[l] \o Upto(items, l, e.parent.at - 2)) \o FilesUpto(e.filelist, l, e.current)
  <2>1. EndOfIncluded
    BY DEF BackToParent
  <2> QED
    BY <1>1, <1>2, <1>3, <2>1, FileRead
<1>5. /\ level = l + 1 /\ level' = l /\ root' = root /\ buffer' = e.parent
      /\ e.current = Len(e.filelist)
  <2>1. level \in Nat
    BY DEF StackOK, MaxNested
  <2> QED
    BY <1>2, <2>1 DEF BackToParent, IsLast, Entry
<1>6. DOMAIN nested = 0..4 /\ \A k \in 0..4 : k # l => nested'[k] = nested[k]
  <2>1. nested' = [nested EXCEPT ![l].current = @ + 1] /\ DOMAIN nested = 0..4
    BY <1>2 DEF BackToParent, StackOK, MaxNested
  <2> QED
    BY <1>4, <2>1
<1>7. PICK xs \in AnyItems : xs = items
  <2>1. l \in 0..level
    BY <1>4, <1>5
  <2> QED
    BY <1>3, <2>1, ItemsTyping DEF ReadSoFar
<1>8. PlaceAt(l, e.parent)
  <2>1. l \in 0..(level - 1)
    BY <1>4, <1>5
  <2>2. \A k \in 0..(level - 1) : PlaceAt(k, nested[k].parent)
    BY DEF StackOK
  <2> QED
    BY <1>2, <2>1, <2>2
<1>9. PICK m \in Nat : m = e.parent.at - 1 /\ m \in 1..Len(xs)
  <2>1. e.parent.at - 1 \in 1..Len(xs)
    BY <1>4, <1>7 DEF Below
  <2> QED
    BY <2>1
<1>10. PICK n \in Nat : m = n + 1 /\ n = e.parent.at - 2
  <2>1. e.parent.at \in Nat
    BY <1>8 DEF PlaceAt, Places
  <2>2. e.parent.at - 2 \in Nat
    BY <1>9, <2>1
  <2> QED
    BY <1>9, <2>1, <2>2
<1>11. DOMAIN xs = 1..Len(xs) /\ Len(xs) \in Nat
  BY DEF AnyItems
<1>12. FileAt(l) = e.parent.file /\ FileAt(l)' = e.parent.file
  <2>1. level # l
    BY <1>4, <1>5
  <2>2. FileAt(l) = e.parent.file
    BY <1>2, <2>1 DEF FileAt
  <2>3. FileAt(l)' = e.parent.file
    BY <1>5 DEF FileAt
  <2> QED
    BY <2>2, <2>3
<1>13. /\ \A k \in 0..l : ItemsAt(k)' = ItemsAt(k)
       /\ \A k \in 1..l : FileAt(k)' = FileAt(k)
  <2>1. \A k \in 0..(l - 1) : k \in 0..4 /\ k # l /\ level # k /\ level' # k
    BY <1>4, <1>5
  <2>2. \A k \in 0..(l - 1) : FileAt(k)' = FileAt(k)
    BY <1>6, <2>1 DEF FileAt
  <2>3. \A k \in 0..l : k = l \/ k \in 0..(l - 1)
    BY <1>4
  <2>4. \A k \in 0..l : FileAt(k)' = FileAt(k)
    BY <1>12, <2>2, <2>3
  <2>5. \A k \in 0..l : ItemsAt(k)' = ItemsAt(k)
    BY <1>5, <2>4 DEF ItemsAt
  <2> QED
    BY <1>4, <2>4, <2>5
<1>14. ItemText(xs[m], TextsAt(l)) = FilesUpto(e.filelist, l, e.current)
  <2>1. PICK found : found = e.filelist
    OBVIOUS
  <2>2. found \in Seq({found[k] : k \in DOMAIN found})
    BY <1>4, <2>1 DEF Below
  <2>3. FilesUpto(found, l, Len(found)) = TextOf(found, TextsAt(l))
    BY <2>2, WholeIs
  <2>4. xs[m].name = "include" /\ Found[xs[m].value] = found
    BY <1>4, <1>7, <1>9, <2>1 DEF Below
  <2> QED
    BY <1>5, <2>1, <2>3, <2>4 DEF ItemText
<1>15. PICK said : said = ItemText(xs[m], TextsAt(l)) /\ said \in Texts
  BY <1>4, <1>14
<1>16. PICK u \in Texts : u = Upto(xs, l, n)
  BY <1>4, <1>7, <1>10 DEF Below
<1>17. Upto(xs, l, m) = u \o said /\ Upto(xs, l, m) \in Texts
  <2>1. SameUpto(xs, xs, n) /\ m \in DOMAIN xs
    BY <1>9, <1>10, <1>11 DEF SameUpto
  <2>2. Upto(xs, l, n) \in Texts /\ ItemText(xs[m], TextsAt(l)) \in Texts
    BY <1>15, <1>16
  <2>3. m = n + 1
    BY <1>10
  <2>4. /\ Upto(xs, l, m) = Upto(xs, l, n) \o ItemText(xs[m], TextsAt(l))
        /\ Upto(xs, l, m) \in Texts
    BY <2>1, <2>2, <2>3, OneMore
  <2> QED
    BY <1>15, <1>16, <2>4
<1>18. stated = b[l] \o Upto(xs, l, m)
  <2>1. PICK v \in Texts : v = b[l]
    BY <1>4
  <2>2. (v \o u) \o said = v \o (u \o said)
    BY <1>15, ConcatAssociates
  <2>3. stated = (v \o u) \o said
    BY <1>4, <1>7, <1>10, <1>14, <1>15, <1>16, <2>1
  <2> QED
    BY <1>17, <2>1, <2>2, <2>3
<1>19. ItemsAt(level)' = xs /\ (buffer.at - 1)' = m
  <2>1. ItemsAt(level)' = ItemsAt(l)'
    BY <1>5 DEF ItemsAt, FileAt
  <2>2. ItemsAt(l)' = ItemsAt(l)
    BY <1>4, <1>13
  <2> QED
    BY <1>3, <1>5, <1>7, <1>9, <2>1, <2>2
<1>20. ASSUME NEW k \in 0..(l - 1)
       PROVE  Below(b, k, nested'[k], ItemsAt(k)', FileAt(k + 1)')
  <2>1. k \in 0..l /\ k + 1 \in 1..l /\ k \in 0..4 /\ k # l /\ k \in 0..(level - 1)
    BY <1>4, <1>5
  <2>2. Below(b, k, nested[k], ItemsAt(k), FileAt(k + 1))
    BY <1>1, <2>1 DEF Laid
  <2> QED
    BY <1>6, <1>13, <2>1, <2>2
<1>21. Laid(b)'
  <2>1. b \in [0..MaxNested -> Texts] /\ b[0] = <<>>
    BY <1>1 DEF Laid
  <2>2. stated' = b[l] \o Upto(xs, l, m)
    BY <1>18
  <2> QED
    BY <1>5, <1>17, <1>19, <1>20, <2>1, <2>2 DEF Laid
<1>22. RootAt' = Len(root') + 1
  <2>1. RootAt = nested[0].parent.at
    BY <1>4, <1>5 DEF RootAt
  <2>2. RootAt' = nested[0].parent.at
    <3>1. CASE l = 0
      <4>1. RootAt' = e.parent.at
        BY <1>5, <3>1 DEF RootAt
      <4> QED
        BY <1>2, <3>1, <4>1
    <3>2. CASE l # 0
      <4>1. RootAt' = nested'[0].parent.at
        BY <1>5, <3>2 DEF RootAt
      <4>2. nested'[0] = nested[0]
        BY <1>6, <3>2
      <4> QED
        BY <4>1, <4>2
    <3> QED
      BY <3>1, <3>2
  <2> QED
    BY <1>5, <2>1, <2>2 DEF ReadSoFar
<1>23. (buffer.at - 1)' \in 0..Len(ItemsAt(level)')
  BY <1>9, <1>11, <1>19
<1> QED
  BY <1>5, <1>21, <1>22, <1>23 DEF ReadSoFar

\* The parser leaves the lexer in the first file.
Outside == phase \in {"arguments", "start", "running"} => level = 0

FInv == OInv /\ ReadSoFar /\ Outside

\* Nothing is read at first.
LEMMA FilesBegin == Init => FInv
<1> SUFFICES ASSUME Init PROVE FInv
  OBVIOUS
<1>1. OInv
  BY OptionsInit
<1>2. level = 0 /\ buffer = Opened("conffile") /\ root = <<>> /\ stated = <<>>
  BY DEF Init, FilesInit
<1>3. buffer.at = 1 /\ buffer.at - 1 = 0 /\ level - 1 = -1 /\ Len(root) = 0
  BY <1>2 DEF Opened
<1>4. PICK b : b = [l \in 0..MaxNested |-> <<>>]
  OBVIOUS
<1>5. b \in [0..MaxNested -> Texts] /\ b[0] = <<>> /\ <<>> \in Texts
  BY <1>4 DEF Texts, MaxNested
<1>6. Upto(ItemsAt(level), level, buffer.at - 1) = <<>>
  BY <1>3, NothingYet
<1>7. <<>> = <<>> \o <<>>
  BY <1>5, ConcatEmpty
<1>8. Laid(b)
  <2>1. 0..(level - 1) = {}
    BY <1>2
  <2> QED
    BY <1>2, <1>5, <1>6, <1>7, <2>1 DEF Laid
<1>9. root \in AnyItems /\ ItemsAt(level) = root /\ RootAt = buffer.at
  BY <1>2 DEF AnyItems, ItemsAt, RootAt
<1>10. ReadSoFar
  BY <1>3, <1>8, <1>9 DEF ReadSoFar
<1> QED
  BY <1>1, <1>2, <1>10 DEF FInv, Outside

\* A statement stands for itself.
LEMMA StatementText ==
  ASSUME StackOK, ReadSoFar, stated \in Texts, ReadStatement
  PROVE  ReadSoFar' /\ level' = level
<1>1. PICK s \in Items : PassStatement(s) /\ stated' = Append(stated, s)
  BY DEF ReadStatement
<1>2. s \in Statements /\ buffer' = Passed /\ Noted(s) /\ UNCHANGED <<level, nested>>
  BY <1>1 DEF PassStatement
<1>3. PICK said : said = <<s>>
  OBVIOUS
<1>4. said \in Texts /\ stated' = stated \o said
  BY <1>1, <1>2, <1>3 DEF Texts
<1>5. said = ItemText(s, TextsAt(level))
  BY <1>2, <1>3, ConfFilesAssumption DEF ItemText
<1> QED
  BY <1>2, <1>4, <1>5, PassedText

\* From file to file the parser is given nothing, and no text is lost.
LEMMA FilesText ==
  ASSUME StackOK, ReadSoFar, stated \in Texts, ChangeFile
  PROVE  ReadSoFar'
<1>1. stated' = stated
  BY DEF ChangeFile
<1>2. CASE IncludeNext
  BY <1>1, <1>2, NextText
<1>3. CASE BackToParent
  BY <1>1, <1>3, ParentText
<1>4. CASE \E d \in Items \cap Directives : IncludeFirst(d)
  BY <1>1, <1>4, IncludedText
<1>5. CASE \E d \in Items \cap Directives : IncludeNothing(d)
  <2>1. PICK d \in Items \cap Directives : IncludeNothing(d)
    BY <1>5
  <2>2. PICK said : said = <<>>
    OBVIOUS
  <2>3. said \in Texts /\ stated' = stated \o said
    BY <1>1, <2>2, ConcatEmpty DEF Texts
  <2>4. said = ItemText(d, TextsAt(level))
    BY <2>1, <2>2, NothingFound
  <2>5. buffer' = Passed /\ Noted(d) /\ UNCHANGED <<level, nested>>
    BY <2>1 DEF IncludeNothing
  <2> QED
    BY <2>1, <2>3, <2>4, <2>5, PassedText
<1> QED
  BY <1>2, <1>3, <1>4, <1>5 DEF ChangeFile

\* Every other step leaves the files alone.
LEMMA FilesStay ==
  ASSUME ReadSoFar, UNCHANGED <<files, stated>>
  PROVE  ReadSoFar'
<1>1. UNCHANGED <<buffer, level, nested, root, stated>>
  BY DEF files
<1>2. PICK b : Laid(b)
  BY DEF ReadSoFar
<1>3. /\ \A l : FileAt(l)' = FileAt(l)
      /\ \A l : ItemsAt(l)' = ItemsAt(l)
      /\ ItemsAt(level)' = ItemsAt(level)
      /\ RootAt' = RootAt
  BY <1>1 DEF FileAt, ItemsAt, RootAt
<1>4. Laid(b)'
  BY <1>1, <1>2, <1>3 DEF Laid
<1> QED
  BY <1>1, <1>3, <1>4 DEF ReadSoFar

LEMMA FilesNext == FInv /\ [Next]_vars => FInv'
<1> SUFFICES ASSUME FInv, [Next]_vars PROVE FInv'
  OBVIOUS
<1>1. OInv' /\ StackOK /\ ReadSoFar /\ Outside /\ stated \in Texts
  BY OptionsNext DEF FInv, OInv, OTypes, Texts
<1>2. CASE ReadStatement
  <2>1. phase = "statements" /\ phase' \in {"statements", "exit"}
    BY <1>2 DEF ReadStatement, TakeSetting, TakeDataDir, Unrecognized
  <2> QED
    BY <1>1, <1>2, <2>1, StatementText DEF FInv, Outside
<1>3. CASE ChangeFile
  <2>1. phase' = "statements"
    BY <1>3 DEF ChangeFile
  <2> QED
    BY <1>1, <1>3, <2>1, FilesText DEF FInv, Outside
<1>4. CASE ReadArgument \/ EndOfArguments \/ FailToInclude \/ EndOfStatements \/ Start
           \/ Settled \/ UNCHANGED vars
  <2>1. UNCHANGED <<files, stated>>
    BY <1>4 DEF ReadArgument, EndOfArguments, FailToInclude, EndOfStatements, Start, Settled, vars
  <2>2. level' = level
    BY <2>1 DEF files
  <2>3. Outside'
    <3>1. CASE EndOfStatements
      BY <2>2, <3>1 DEF EndOfStatements, AtEnd, Outside
    <3>2. CASE ReadArgument \/ EndOfArguments
      BY <1>1, <2>2, <3>2 DEF ReadArgument, EndOfArguments, Outside
    <3>3. CASE FailToInclude
      BY <2>2, <3>3 DEF FailToInclude, Outside
    <3>4. CASE Start
      BY <1>1, <2>2, <3>4 DEF Start, Outside
    <3>5. CASE Settled \/ UNCHANGED vars
      BY <1>1, <2>2, <3>5 DEF Settled, vars, Outside
    <3> QED
      BY <1>4, <3>1, <3>2, <3>3, <3>4, <3>5
  <2> QED
    BY <1>1, <2>1, <2>3, FilesStay DEF FInv
<1> QED
  BY <1>2, <1>3, <1>4 DEF Next

-----------------------------------------------------------------------------
(* The theorems.                                                            *)

\* Reading the options keeps OInv.
THEOREM OptionsInvariant == Spec => []OInv
<1>1. Init => OInv
  BY OptionsInit
<1>2. OInv /\ [Next]_vars => OInv'
  BY OptionsNext
<1> QED
  BY <1>1, <1>2, PTL DEF Spec

\* Whatever files include one another, and be it without end, the lexer stays within
\* its array of nested files and is at level 0 in the first file only
\* (conf.l:126-216); every option keeps its type.
THEOREM OptionsTyping == Spec => []TypeOK
<1>1. OInv => TypeOK
  BY DEF OInv, OTypes, Numbers, StackOK, PlaceAt, TypeOK, InRoot, Reader
<1> QED
  BY <1>1, OptionsInvariant, PTL

\* The program runs with what the help text promises: the last value of the command
\* line, else the first of the file that can be read in the format in force there, else
\* the default; but two settings of the file are never used, and a value of the command
\* line that is the one for "not given" yields to the file's (options.cpp:117-138,
\* 241-254, conf.y:169-327).
THEOREM SettingsAreResolved == Spec => []SettingsResolved
<1>1. AsResolved => SettingsResolved
  <2> SUFFICES ASSUME AsResolved, Running PROVE SettingsResolved
    BY DEF SettingsResolved
  <2>1. ASSUME NEW s \in Settings
        PROVE  Resolved(s, Readable(s)) =
                 IF Overlooked(s) THEN Initial[s]
                 ELSE IF Overruled(s) THEN FromFileOr(s, LastGiven(s))
                 ELSE Documented(s)
    <3>1. Resolved(s, Readable(s)) = IF LastGiven(s) # Absent[s] THEN LastGiven(s)
                                     ELSE FromFileOr(s, LastGiven(s))
      BY DEF Resolved, FromFileOr
    <3>2. CASE Naming(s, given) # {}
      <4>1. ~Overlooked(s) /\ Documented(s) = LastGiven(s)
        BY <3>2 DEF Overlooked, Documented
      <4> QED
        BY <3>1, <3>2, <4>1 DEF Overruled
    <3>3. CASE Naming(s, given) = {}
      <4>1. LastGiven(s) = Initial[s]
        BY <3>3 DEF LastGiven
      <4>2. CASE s \in {"filterTimeStop", "outputFormatDate"}
        <5>1. Overlooked(s)
          BY <3>3, <4>2 DEF Overlooked
        <5>2. Initial[s] # Absent[s]
          <6>1. CASE s = "filterTimeStop"
            <7>1. Initial[s] = -1 /\ Absent[s] = 0
              BY <6>1 DEF Initial, Absent, TextSettings
            <7> QED
              BY <7>1
          <6>2. CASE s = "outputFormatDate"
            <7>1. Initial[s] = DefaultFormat /\ Absent[s] = ""
              BY <6>2 DEF Initial, Absent, Empty, TextSettings
            <7> QED
              BY <7>1, OptionsAssumption
          <6> QED
            BY <4>2, <6>1, <6>2
        <5> QED
          BY <3>1, <4>1, <5>1, <5>2
      <4>3. CASE s \notin {"filterTimeStop", "outputFormatDate"}
        <5>1. ~Overlooked(s) /\ ~Overruled(s)
          BY <3>3, <4>3 DEF Overlooked, Overruled
        <5>2. Initial[s] = Absent[s]
          BY <4>3 DEF Initial, Absent, TextSettings
        <5>3. Documented(s) = FromFileOr(s, Initial[s])
          BY <3>3 DEF Documented
        <5> QED
          BY <3>1, <4>1, <5>1, <5>2, <5>3
      <4> QED
        BY <4>2, <4>3
    <3> QED
      BY <3>2, <3>3
  <2>2. ASSUME NEW s \in Settings
        PROVE  opt[s] = Final(s, Resolved(s, Readable(s)))
    BY DEF AsResolved, Final
  <2> QED
    BY <2>1, <2>2 DEF AsResolved, SettingsResolved
<1>2. OInv => AsResolved
  BY DEF OInv
<1> QED
  BY <1>1, <1>2, OptionsInvariant, PTL

\* Reading the files keeps FInv.
THEOREM FilesInvariant == Spec => []FInv
<1>1. Init => FInv
  BY FilesBegin
<1>2. FInv /\ [Next]_vars => FInv'
  BY FilesNext
<1> QED
  BY <1>1, <1>2, PTL DEF Spec

\* Whatever files include one another, over as many levels as the lexer has: a program
\* that runs was given the text of the first file with every directive replaced by the
\* text of all files that glob found for it, each once and in its order
\* (conf.l:113-218).
THEOREM IncludesStandInPlace == Spec => []IncludesInPlace
<1>1. FInv => IncludesInPlace
  <2> SUFFICES ASSUME FInv, Running PROVE InRoot /\ stated = Expanded(root)
    BY DEF IncludesInPlace
  <2>1. level = 0 /\ StackOK /\ ReadSoFar
    BY DEF FInv, OInv, Outside, Running
  <2>2. InRoot
    BY <2>1 DEF StackOK, PlaceAt, Reader, InRoot
  <2>3. buffer.at = Len(root) + 1 /\ ItemsAt(level) = root /\ root \in AnyItems
    BY <2>1 DEF ReadSoFar, RootAt, ItemsAt
  <2>4. buffer.at - 1 = Len(root)
    BY <2>3 DEF AnyItems
  <2>5. Upto(root, 0, Len(root)) \in Texts /\ stated = <<>> \o Upto(root, 0, Len(root))
    BY <2>1, <2>3, <2>4 DEF ReadSoFar, Laid
  <2>6. stated = Upto(root, 0, Len(root))
    BY <2>5, ConcatEmpty
  <2>7. Upto(root, 0, Len(root)) = Expand(root, TextsAt(0))
    BY <2>3, WholeIs DEF AnyItems
  <2>8. TextsAt(0) = TextOver[MaxNested]
    <3>1. MaxNested - 0 = MaxNested
      BY DEF MaxNested
    <3> QED
      BY <3>1 DEF TextsAt
  <2> QED
    BY <2>2, <2>6, <2>7, <2>8 DEF Expanded
<1> QED
  BY <1>1, FilesInvariant, PTL
=============================================================================
