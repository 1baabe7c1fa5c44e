--------------------------- MODULE DataLoader_proofs ---------------------------
(***************************************************************************)
(* For every file and every sequence of requests: the data loader hands    *)
(* out the bytes of the file in their order, what it has handed out is     *)
(* there when it is looked at, nothing of a file is held when the thread   *)
(* has done with it, and no answer keeps a reader at its place.            *)
(***************************************************************************)
EXTENDS DataLoader, NumberTheorems

-----------------------------------------------------------------------------
(* The bytes of a sequence of tokens.                                      *)

LEMMA BytesToProperties ==
  ASSUME NEW T, NEW s \in Seq(T)
  PROVE  /\ BytesTo(s, 0) = <<>>
         /\ \A n \in 1..Len(s) :
              BytesTo(s, n) = IF s[n] \in NotBytes THEN BytesTo(s, n - 1)
                              ELSE Append(BytesTo(s, n - 1), s[n])
         /\ \A n \in 0..Len(s) : BytesTo(s, n) \in Seq(T)
<1> DEFINE Next1(i, b) == IF s[i] \in NotBytes THEN b ELSE Append(b, s[i])
           Bytes(f, n) == /\ f \in [0..n -> Seq(T)] /\ f[0] = <<>>
                          /\ \A i \in 1..n : f[i] = Next1(i, f[i - 1])
           All(f) == f = [i \in 0..Len(s) |-> IF i = 0 THEN <<>>
                                              ELSE IF s[i] \in NotBytes THEN f[i - 1]
                                              ELSE Append(f[i - 1], s[i])]
           S == {n \in Nat : n <= Len(s) => \E f : Bytes(f, n)}
<1>0. Len(s) \in Nat /\ \A i \in 1..Len(s) : s[i] \in T
  OBVIOUS
<1>1. 0 \in S
  <2>1. Bytes([i \in 0..0 |-> <<>>], 0)
    OBVIOUS
  <2> QED
    BY <2>1
<1>2. ASSUME NEW n \in Nat, n + 1 <= Len(s), NEW f, Bytes(f, n)
      PROVE  \E h : Bytes(h, n + 1)
  <2> DEFINE g == [i \in 0..(n + 1) |-> IF i <= n THEN f[i] ELSE Next1(n + 1, f[n])]
  <2>1. s[n + 1] \in T /\ f[n] \in Seq(T)
    BY <1>0, <1>2
  <2>2. Next1(n + 1, f[n]) \in Seq(T)
    BY <2>1
  <2>3. g \in [0..(n + 1) -> Seq(T)] /\ g[0] = <<>>
    <3> HIDE DEF Next1
    <3> QED
      BY <1>2, <2>2
  <2>4. ASSUME NEW i \in 1..(n + 1) PROVE g[i] = Next1(i, g[i - 1])
    <3> HIDE DEF Next1
    <3>1. CASE i = n + 1
      <4>1. g[i - 1] = f[n]
        BY <3>1
      <4> QED
        BY <3>1, <4>1
    <3>2. CASE i # n + 1
      <4>1. i \in 1..n /\ g[i] = f[i] /\ g[i - 1] = f[i - 1]
        BY <3>2
      <4> QED
        BY <1>2, <4>1
    <3> QED
      BY <3>1, <3>2
  <2>5. Bytes(g, n + 1)
    <3> HIDE DEF g, Next1
    <3> QED
      BY <2>3, <2>4
  <2> QED
    BY <2>5
<1>3. ASSUME NEW n \in Nat, n \in S PROVE n + 1 \in S
  <2> HIDE DEF Bytes
  <2>1. ASSUME n + 1 <= Len(s) PROVE \E f : Bytes(f, n + 1)
    <3>1. n <= Len(s)
      BY <1>0, <2>1
    <3>2. PICK f : Bytes(f, n)
      BY <1>3, <3>1
    <3> QED
      BY <1>2, <2>1, <3>2
  <2> QED
    BY <2>1
<1>4. PICK f : Bytes(f, Len(s))
  <2> HIDE DEF S
  <2>1. Len(s) \in S
    BY <1>0, <1>1, <1>3, Induction
  <2> QED
    BY <2>1, <1>0 DEF S
<1>5. All(f)
  <2>1. ASSUME NEW i \in 0..Len(s)
        PROVE  f[i] = IF i = 0 THEN <<>> ELSE IF s[i] \in NotBytes THEN f[i - 1]
                      ELSE Append(f[i - 1], s[i])
    <3>1. CASE i = 0
      BY <1>4, <3>1
    <3>2. CASE i # 0
      <4>1. i \in 1..Len(s)
        BY <1>0, <3>2
      <4>2. f[i] = Next1(i, f[i - 1])
        BY <1>4, <4>1
      <4> QED
        BY <3>2, <4>2
    <3> QED
      BY <3>1, <3>2
  <2>2. DOMAIN f = 0..Len(s) /\ f = [i \in 0..Len(s) |-> f[i]]
    BY <1>4
  <2> QED
    BY <2>1, <2>2
<1> DEFINE g == CHOOSE h : All(h)
<1>6. All(g)
  <2> HIDE DEF All
  <2> QED
    BY <1>5
<1>7. \A n : BytesTo(s, n) = g[n]
  BY DEF BytesTo
<1> HIDE DEF g
<1>8. g[0] = <<>> /\ \A n \in 1..Len(s) : g[n] = Next1(n, g[n - 1])
  <2>1. \A i \in 0..Len(s) :
          g[i] = IF i = 0 THEN <<>> ELSE IF s[i] \in NotBytes THEN g[i - 1]
                 ELSE Append(g[i - 1], s[i])
    BY <1>6
  <2> QED
    BY <1>0, <2>1
<1>9. ASSUME NEW n \in 0..Len(s) PROVE g[n] \in Seq(T)
  <2> DEFINE U == {k \in Nat : k <= Len(s) => g[k] \in Seq(T)}
  <2>1. 0 \in U
    <3>1. g[0] \in Seq(T)
      <4>1. <<>> \in Seq(T)
        OBVIOUS
      <4> QED
        BY <1>8, <4>1
    <3> QED
      BY <3>1
  <2>2. ASSUME NEW k \in Nat, k \in U PROVE k + 1 \in U
    <3> SUFFICES ASSUME k + 1 <= Len(s) PROVE g[k + 1] \in Seq(T)
      OBVIOUS
    <3>1. g[k] \in Seq(T) /\ s[k + 1] \in T /\ k + 1 \in 1..Len(s) /\ (k + 1) - 1 = k
      BY <1>0, <2>2
    <3>2. g[k + 1] = Next1(k + 1, g[k])
      BY <1>8, <3>1
    <3> QED
      BY <3>1, <3>2
  <2> HIDE DEF U
  <2>3. n \in Nat /\ n \in U
    BY <1>0, <2>1, <2>2, Induction
  <2> QED
    BY <2>3 DEF U
<1> QED
  BY <1>7, <1>8, <1>9

\* What the first p tokens yield is the beginning of what more of them yield; as
\* long as all are bytes it is these tokens.
LEMMA BytesToGrows ==
  ASSUME NEW T, NEW s \in Seq(T), NEW p \in 0..Len(s), NEW q \in p..Len(s)
  PROVE  /\ Len(BytesTo(s, p)) <= Len(BytesTo(s, q))
         /\ Len(BytesTo(s, q)) <= Len(BytesTo(s, p)) + (q - p)
         /\ SubSeq(BytesTo(s, q), 1, Len(BytesTo(s, p))) = BytesTo(s, p)
<1> DEFINE G(k) == /\ Len(BytesTo(s, p)) <= Len(BytesTo(s, k))
                   /\ Len(BytesTo(s, k)) <= Len(BytesTo(s, p)) + (k - p)
                   /\ SubSeq(BytesTo(s, k), 1, Len(BytesTo(s, p))) = BytesTo(s, p)
           S == {d \in Nat : p + d <= Len(s) => G(p + d)}
<1>0. Len(s) \in Nat /\ p \in Nat /\ p <= Len(s)
  OBVIOUS
<1>1. 0 \in S
  <2>1. BytesTo(s, p) \in Seq(T)
    BY BytesToProperties
  <2>2. G(p)
    BY <1>0, <2>1
  <2>3. p + 0 = p
    BY <1>0
  <2> HIDE DEF G
  <2> QED
    BY <2>2, <2>3
<1>2. ASSUME NEW d \in Nat, d \in S PROVE d + 1 \in S
  <2> SUFFICES ASSUME p + (d + 1) <= Len(s) PROVE G(p + (d + 1))
    OBVIOUS
  <2> DEFINE k == p + d
  <2>1. k \in 0..Len(s) /\ k + 1 \in 1..Len(s) /\ k + 1 = p + (d + 1) /\ (k + 1) - 1 = k
    BY <1>0
  <2>2. G(k)
    BY <1>0, <1>2
  <2> HIDE DEF k
  <2>3. /\ BytesTo(s, k) \in Seq(T) /\ BytesTo(s, p) \in Seq(T) /\ s[k + 1] \in T
        /\ BytesTo(s, k + 1) = IF s[k + 1] \in NotBytes THEN BytesTo(s, k)
                               ELSE Append(BytesTo(s, k), s[k + 1])
    <3>1. BytesTo(s, k) \in Seq(T) /\ BytesTo(s, p) \in Seq(T)
      BY <2>1, BytesToProperties
    <3>2. s[k + 1] \in T
      BY <2>1
    <3>3. BytesTo(s, k + 1) = IF s[k + 1] \in NotBytes THEN BytesTo(s, (k + 1) - 1)
                              ELSE Append(BytesTo(s, (k + 1) - 1), s[k + 1])
      BY <2>1, BytesToProperties
    <3> QED
      BY <2>1, <3>1, <3>2, <3>3
  <2>4. G(k + 1)
    <3> DEFINE b == BytesTo(s, k)
               a == BytesTo(s, p)
    <3>1. /\ b \in Seq(T) /\ a \in Seq(T) /\ Len(a) <= Len(b) /\ Len(b) <= Len(a) + (k - p)
          /\ SubSeq(b, 1, Len(a)) = a
      BY <2>2, <2>3
    <3>2. CASE BytesTo(s, k + 1) = b
      BY <1>0, <2>1, <3>1, <3>2
    <3>3. CASE BytesTo(s, k + 1) = Append(b, s[k + 1])
      <4> HIDE DEF a, b
      <4>1. Len(Append(b, s[k + 1])) = Len(b) + 1
        BY <3>1
      <4>2. SubSeq(Append(b, s[k + 1]), 1, Len(a)) = SubSeq(b, 1, Len(a))
        BY <2>3, <3>1
      <4>3. Len(a) \in Nat /\ Len(b) \in Nat
        BY <3>1
      <4>4. Len(a) <= Len(b) + 1 /\ Len(b) + 1 <= Len(a) + ((k + 1) - p)
        BY <1>0, <2>1, <3>1, <4>3
      <4> QED
        BY <3>1, <3>3, <4>1, <4>2, <4>4 DEF a
    <3> QED
      BY <2>3, <3>2, <3>3
  <2> QED
    BY <2>1, <2>4
<1>3. q - p \in Nat /\ p + (q - p) = q
  BY <1>0
<1>4. q - p \in S
  <2> HIDE DEF S
  <2> QED
    BY <1>1, <1>2, <1>3, Induction
<1> QED
  BY <1>3, <1>4

LEMMA BytesToOfBytes ==
  ASSUME NEW T, NEW s \in Seq(T), NEW p \in 0..Len(s),
         \A i \in 1..p : s[i] \notin NotBytes
  PROVE  BytesTo(s, p) = SubSeq(s, 1, p)
<1> DEFINE S == {k \in Nat : k <= p => BytesTo(s, k) = SubSeq(s, 1, k)}
<1>0. Len(s) \in Nat /\ p \in Nat /\ p <= Len(s)
  OBVIOUS
<1>1. 0 \in S
  BY BytesToProperties
<1>2. ASSUME NEW k \in Nat, k \in S PROVE k + 1 \in S
  <2> SUFFICES ASSUME k + 1 <= p PROVE BytesTo(s, k + 1) = SubSeq(s, 1, k + 1)
    OBVIOUS
  <2>1. k + 1 \in 1..p /\ k + 1 \in 1..Len(s) /\ (k + 1) - 1 = k
    BY <1>0
  <2>2. BytesTo(s, k + 1) = Append(BytesTo(s, k), s[k + 1])
    BY <2>1, BytesToProperties
  <2>3. BytesTo(s, k) = SubSeq(s, 1, k)
    BY <1>0, <1>2
  <2>4. Append(SubSeq(s, 1, k), s[k + 1]) = SubSeq(s, 1, k + 1)
    BY <1>0, <2>1
  <2> QED
    BY <2>2, <2>3, <2>4
<1>3. p \in S
  <2> HIDE DEF S
  <2> QED
    BY <1>0, <1>1, <1>2, Induction
<1> QED
  BY <1>0, <1>3

-----------------------------------------------------------------------------
(* The inductive invariant.                                                *)

Tokens == Nat \cup NotBytes

\* The first p tokens are bytes.
BytesUpTo(p) == \A i \in 1..p : Mapped[i] \notin NotBytes

\* What has been handed out: a plain file up to the offset; of a compressed file
\* all that was consumed, until the stream ended or failed; then, unless the file
\* is damaged, all its bytes.
Handed ==
  /\ served \in Seq(Tokens)
  /\ file.kind = "plain" => stream = "ok" /\ served = SubSeq(Mapped, 1, offs)
  /\ file.kind = "bz2" /\ stream = "ok" => BytesUpTo(taken) /\ served = SubSeq(Mapped, 1, taken)
  /\ file.kind = "bz2" /\ stream # "ok" /\ ~Damaged => served = Payload

Reading == {"version", "header", "body"}

\* What is held at each place, and what is lost: a block that the decompressor left
\* empty sends the reader to "close", unless no bytes were asked for.
Holding ==
  /\ at \in {"scanned", "opened", "mapped"} => answer = 0
  /\ at \in {"scanned", "refused", "closed"} => held = {}
  /\ at = "opened" => held = {"fd"}
  /\ at = "mapped" => held = {"fd", "map"}
  /\ at \in Reading => {"fd", "map"} \subseteq held
  /\ at \in Reading /\ file.kind = "bz2" =>
       "bz2" \in held /\ (answer > 0 => "block" \in held)
  /\ lost <= empty + 1
  /\ at \notin {"close", "closed"} => lost <= empty

LInv == TypeOK /\ Handed /\ Holding

LEMMA FileTyping ==
  ASSUME file \in Files
  PROVE  /\ file.kind \in {"plain", "bz2"} /\ file.size \in Nat
         /\ file.size + HeaderSize < Huge
         /\ InputSize \in 0..file.size /\ (file.size < UIntSize => InputSize = file.size)
         /\ Mapped \in Seq(Tokens) /\ Len(Mapped) = file.size
         /\ \A i \in 1..file.size : Mapped[i] = VOID => i > Len(file.content)
         /\ Len(file.content) \in Nat
         /\ file.kind = "plain" =>
              \A i \in 1..file.size : Mapped[i] \in NotBytes => i > Len(file.content)
<1>1. /\ file.kind \in {"plain", "bz2"} /\ file.size \in Nat
      /\ file.size + HeaderSize < Huge
      /\ file.content \in Seq(Nat \cup {END, BAD})
      /\ file.kind = "plain" => file.content \in Seq(Nat)
  BY LoaderAssumption
<1>2. Len(file.content) \in Nat
  BY <1>1
<1>3. ASSUME NEW i \in 1..file.size
      PROVE  /\ Mapped[i] = IF i <= Len(file.content) THEN file.content[i] ELSE VOID
             /\ i <= Len(file.content) => file.content[i] \in Nat \cup {END, BAD}
             /\ file.kind = "plain" /\ i <= Len(file.content) => file.content[i] \in Nat
  <2>1. i <= Len(file.content) => i \in 1..Len(file.content)
    BY <1>1, <1>2
  <2> QED
    BY <1>1, <2>1 DEF Mapped
<1>4. Mapped \in Seq(Tokens) /\ Len(Mapped) = file.size
  <2>1. \A i \in 1..file.size : Mapped[i] \in Tokens
    BY <1>3 DEF Tokens, NotBytes
  <2>2. DOMAIN Mapped = 1..file.size /\ Mapped = [i \in 1..file.size |-> Mapped[i]]
    BY DEF Mapped
  <2>3. file.size \in Nat
    BY <1>1
  <2>4. Mapped \in [1..file.size -> Tokens]
    BY <2>1, <2>2
  <2> QED
    BY <2>3, <2>4
<1>5. ASSUME NEW i \in 1..file.size, Mapped[i] = VOID PROVE i > Len(file.content)
  <2>1. VOID \notin Nat \cup {END, BAD}
    BY LoaderAssumption DEF NotBytes
  <2> QED
    BY <1>1, <1>2, <1>3, <1>5, <2>1
<1>6. ASSUME NEW i \in 1..file.size, Mapped[i] \in NotBytes, file.kind = "plain"
      PROVE  i > Len(file.content)
  <2>1. NotBytes \cap Nat = {}
    BY LoaderAssumption
  <2> QED
    BY <1>1, <1>2, <1>3, <1>6, <2>1
<1>7. InputSize \in 0..file.size /\ (file.size < UIntSize => InputSize = file.size)
  <2>1. UIntSize \in Nat /\ UIntSize > 0
    BY LoaderAssumption DEF VersionSize
  <2>2. PICK n \in Nat : n = file.size
    BY <1>1
  <2> QED
    BY <2>1, <2>2, RemainderIsSmall DEF InputSize
<1> QED
  BY <1>1, <1>2, <1>4, <1>5, <1>6, <1>7

LEMMA GreatestNumber ==
  ASSUME NEW n \in Nat, NEW T \in SUBSET (0..n), T # {}
  PROVE  \E x \in T : \A y \in T : y <= x
<1> DEFINE R == {n - x : x \in T}
<1>1. R \in SUBSET Nat /\ R # {}
  <2>1. \A x \in T : n - x \in Nat
    OBVIOUS
  <2>2. PICK x : x \in T
    OBVIOUS
  <2>3. n - x \in R
    BY <2>2
  <2> QED
    BY <2>1, <2>3
<1>2. PICK r \in R : \A q \in R : r <= q
  BY <1>1, LeastNumber
<1>3. PICK x \in T : r = n - x
  BY <1>2
<1>4. ASSUME NEW y \in T PROVE y <= x
  <2>1. n - y \in R
    OBVIOUS
  <2>2. n - x <= n - y
    BY <1>2, <1>3, <2>1
  <2> QED
    BY <2>2
<1> QED
  BY <1>4

\* What the decompressor does while its stream is neither ended nor refused.
LEMMA RunBz2Is ==
  ASSUME TypeOK, NEW n \in Nat, stream = "ok"
  PROVE  \E stop \in taken..InputSize :
           /\ stop - taken <= n /\ \A i \in taken + 1..stop : Mapped[i] \notin NotBytes
           /\ RunBz2(n).bytes = SubSeq(Mapped, taken + 1, stop)
           /\ \/ /\ RunBz2(n).result = "ok" /\ RunBz2(n).taken = stop
                 /\ stop - taken = n \/ stop = InputSize
              \/ /\ RunBz2(n).result = "end" /\ RunBz2(n).taken = stop + 1
                 /\ stop < InputSize /\ Mapped[stop + 1] = END
              \/ /\ RunBz2(n).result = "error" /\ RunBz2(n).taken = stop + 1
                 /\ stop < InputSize /\ Mapped[stop + 1] \in {BAD, VOID}
<1> DEFINE runs == {p \in taken..InputSize :
                 /\ p - taken <= n
                 /\ \A i \in taken + 1..p : Mapped[i] \notin NotBytes}
           last == CHOOSE p \in runs : \A q \in runs : q <= p
           Behind(p) == IF p < InputSize THEN Mapped[p + 1] ELSE 0
           Run(p) == [bytes  |-> SubSeq(Mapped, taken + 1, p),
                      taken  |-> IF Behind(p) \in NotBytes THEN p + 1 ELSE p,
                      result |-> IF Behind(p) \notin NotBytes THEN "ok"
                                 ELSE IF Behind(p) = END THEN "end" ELSE "error"]
<1>1. InputSize \in Nat /\ taken \in 0..InputSize
  BY FileTyping DEF TypeOK
<1>2. last \in runs /\ \A q \in runs : q <= last
  <2>1. runs \in SUBSET (0..InputSize)
    BY <1>1
  <2>2. taken \in runs
    BY <1>1
  <2> HIDE DEF runs
  <2>3. \E p \in runs : \A q \in runs : q <= p
    BY <1>1, <2>1, <2>2, GreatestNumber
  <2> QED
    BY <2>3
<1>3. RunBz2(n) = Run(last)
  BY DEF RunBz2
<1>30. PICK stop \in runs : /\ \A q \in runs : q <= stop
                           /\ RunBz2(n) = Run(stop)
  <2> HIDE DEF runs, last, Run
  <2> QED
    BY <1>2, <1>3
<1> DEFINE next == Behind(stop)
           consumed == IF next \in NotBytes THEN stop + 1 ELSE stop
           result == IF next \notin NotBytes THEN "ok"
                     ELSE IF next = END THEN "end" ELSE "error"
<1>31. /\ RunBz2(n).bytes = SubSeq(Mapped, taken + 1, stop)
       /\ RunBz2(n).taken = consumed /\ RunBz2(n).result = result
  <2> HIDE DEF runs
  <2> DEFINE yielded == SubSeq(Mapped, taken + 1, stop)
  <2>1. RunBz2(n) = [bytes |-> yielded, taken |-> consumed, result |-> result]
    BY <1>30
  <2> HIDE DEF yielded, consumed, result, next
  <2>2. /\ RunBz2(n).bytes = yielded
        /\ RunBz2(n).taken = consumed /\ RunBz2(n).result = result
    BY <2>1
  <2> QED
    BY <2>2 DEF yielded
<1> HIDE DEF consumed, result
<1>32. /\ next \in NotBytes => consumed = stop + 1
       /\ next \notin NotBytes => consumed = stop /\ result = "ok"
       /\ next \in NotBytes => \/ next = END /\ result = "end"
                               \/ next \in {BAD, VOID} /\ result = "error"
  <2> HIDE DEF next
  <2> QED
    BY DEF consumed, result, NotBytes
<1>4. stop \in taken..InputSize /\ stop \in Nat
  BY <1>1, <1>2
<1>5. 0 \notin NotBytes
  BY LoaderAssumption
<1>6. CASE next \notin NotBytes
  <2>1. stop - taken = n \/ stop = InputSize
    <3> SUFFICES ASSUME stop - taken # n, stop # InputSize PROVE FALSE
      OBVIOUS
    <3>1. stop + 1 \in taken..InputSize /\ stop + 1 - taken <= n
      BY <1>1, <1>30, <1>4
    <3>2. Mapped[stop + 1] \notin NotBytes
      BY <1>1, <1>4, <1>6
    <3>3. ASSUME NEW i \in taken + 1..stop + 1 PROVE Mapped[i] \notin NotBytes
      <4>1. CASE i = stop + 1
        BY <3>2, <4>1
      <4>2. CASE i # stop + 1
        BY <1>1, <1>30, <1>4, <4>2
      <4> QED
        BY <4>1, <4>2
    <3>4. stop + 1 \in runs
      <4>1. \A i \in taken + 1..stop + 1 : Mapped[i] \notin NotBytes
        BY <3>3
      <4> QED
        BY <1>1, <1>4, <3>1, <4>1
    <3> HIDE DEF runs
    <3> QED
      BY <1>30, <1>4, <3>4
  <2>2. RunBz2(n).result = "ok" /\ RunBz2(n).taken = stop
        /\ RunBz2(n).bytes = SubSeq(Mapped, taken + 1, stop)
    <3> HIDE DEF next
    <3> QED
      BY <1>6, <1>31, <1>32
  <2> QED
    BY <1>30, <1>4, <2>1, <2>2
<1>7. CASE next \in NotBytes
  <2>1. stop < InputSize /\ next = Mapped[stop + 1]
    BY <1>5, <1>7
  <2>2. /\ RunBz2(n).bytes = SubSeq(Mapped, taken + 1, stop)
        /\ RunBz2(n).taken = stop + 1
        /\ \/ next = END /\ RunBz2(n).result = "end"
           \/ next \in {BAD, VOID} /\ RunBz2(n).result = "error"
    <3> HIDE DEF next
    <3> QED
      BY <1>7, <1>31, <1>32
  <2> HIDE DEF next
  <2> QED
    BY <1>30, <1>4, <2>1, <2>2
<1> QED
  BY <1>6, <1>7

-----------------------------------------------------------------------------
(* One call of data_loader_get_data.                                       *)

LEMMA FileStays ==
  ASSUME UNCHANGED file
  PROVE  /\ Mapped' = Mapped /\ Payload' = Payload /\ Damaged' = Damaged
         /\ InputSize' = InputSize /\ TooLarge' = TooLarge /\ MayBeCut' = MayBeCut
BY DEF Mapped, Payload, Damaged, InputSize, TooLarge, MayBeCut

LEMMA OnePiece ==
  ASSUME NEW T, NEW s \in Seq(T), NEW a \in 0..Len(s), NEW b \in a..Len(s)
  PROVE  /\ SubSeq(s, 1, a) \o SubSeq(s, a + 1, b) = SubSeq(s, 1, b)
         /\ Len(SubSeq(s, a + 1, b)) = b - a /\ Len(SubSeq(s, 1, a)) = a
         /\ SubSeq(s, 1, a) \in Seq(T)
         /\ (a = b) <=> (SubSeq(s, a + 1, b) = <<>>)
<1>1. Len(s) \in Nat /\ a \in Nat /\ b \in Nat /\ a <= b /\ b <= Len(s)
  OBVIOUS
<1>2. /\ SubSeq(s, a + 1, b) \in Seq(T) /\ Len(SubSeq(s, a + 1, b)) = b - a
      /\ SubSeq(s, 1, a) \in Seq(T) /\ Len(SubSeq(s, 1, a)) = a
  BY <1>1
<1>3. SubSeq(s, 1, a) \o SubSeq(s, a + 1, b) = SubSeq(s, 1, b)
  BY <1>1
<1>4. (a = b) <=> (SubSeq(s, a + 1, b) = <<>>)
  BY <1>1, <1>2
<1> QED
  BY <1>2, <1>3, <1>4

\* The bytes of a compressed file begin with its first tokens, if these are bytes.
LEMMA PayloadBegins ==
  ASSUME file \in Files, file.kind = "bz2", NEW p \in 0..file.size, BytesUpTo(p)
  PROVE  /\ Payload \in Seq(Tokens) /\ p <= Len(Payload)
         /\ SubSeq(Payload, 1, p) = SubSeq(Mapped, 1, p)
         /\ p = file.size => Payload = SubSeq(Mapped, 1, p)
         /\ p + 1 = file.size /\ Mapped[file.size] \in NotBytes =>
              Payload = SubSeq(Mapped, 1, p)
<1>1. PICK m \in Seq(Tokens) : m = Mapped
  BY FileTyping
<1>2. PICK s \in Nat : s = file.size /\ Len(m) = s
  BY <1>1, FileTyping
<1>3. Payload = BytesTo(m, s)
  BY <1>1, <1>2 DEF Payload
<1>4. p \in 0..s /\ \A i \in 1..p : m[i] \notin NotBytes
  BY <1>1, <1>2 DEF BytesUpTo
<1>5. BytesTo(m, p) = SubSeq(m, 1, p)
  BY <1>2, <1>4, BytesToOfBytes
<1>6. Len(SubSeq(m, 1, p)) = p
  BY <1>2, <1>4
<1>7. BytesTo(m, s) \in Seq(Tokens)
  BY <1>2, BytesToProperties
<1>8. p <= Len(BytesTo(m, s)) /\ SubSeq(BytesTo(m, s), 1, p) = SubSeq(m, 1, p)
  <2>1. p \in 0..Len(m) /\ s \in p..Len(m)
    BY <1>2, <1>4
  <2> QED
    BY <2>1, <1>5, <1>6, BytesToGrows
<1>9. ASSUME p + 1 = s, m[s] \in NotBytes PROVE BytesTo(m, s) = SubSeq(m, 1, p)
  <2>1. s \in 1..Len(m) /\ s - 1 = p
    BY <1>2, <1>4, <1>9
  <2>2. BytesTo(m, s) = BytesTo(m, s - 1)
    BY <1>9, <2>1, BytesToProperties
  <2> QED
    BY <1>5, <2>1, <2>2
<1> QED
  BY <1>1, <1>2, <1>3, <1>5, <1>7, <1>8, <1>9

\* A step of the byte stream that hands out the next k bytes.
LEMMA StreamServes ==
  ASSUME UNCHANGED file, NEW n \in Nat, asked' = n,
         NEW P \in Seq(Tokens), P = Payload,
         NEW c \in 0..Len(P), Len(served) = c, NEW k \in 0..(Len(P) - c),
         AnsweredBytes' = k, served' = SubSeq(P, 1, c + k), k <= n,
         ~Cut, Cut' \/ k = n \/ k = Len(P) - c
  PROVE  Stream!Next
<1>1. Payload' = Payload /\ MayBeCut' = MayBeCut
  BY FileStays
<1>2. Len(P) \in Nat /\ c \in Nat /\ k \in Nat
  OBVIOUS
<1>3. Stream!Rest = Len(P) - c
  BY DEF Stream!Rest
<1>4. Stream!Serve(k)
  BY DEF Stream!Serve
<1>50. Cut \in BOOLEAN /\ Cut' \in BOOLEAN
  BY DEF Cut
<1>5. CASE ~Cut'
  <2>1. (IF n < Stream!Rest THEN n ELSE Stream!Rest) = k
    BY <1>2, <1>3, <1>5
  <2>2. Stream!Get(n)
    BY <1>4, <1>5, <1>50, <2>1 DEF Stream!Get
  <2> QED
    BY <1>1, <2>2 DEF Stream!Next
<1>6. CASE Cut'
  <2>1. k \in 0..n /\ k <= Stream!Rest
    BY <1>2, <1>3
  <2>2. MayBeCut
    BY <1>1, <1>6 DEF Cut
  <2>3. Stream!CutShort(n)
    BY <1>4, <1>6, <1>50, <2>1, <2>2 DEF Stream!CutShort
  <2> QED
    BY <1>1, <2>3 DEF Stream!Next
<1> QED
  BY <1>5, <1>6

\* What a call changes, for the types and for what is handed out.
Served(n) ==
  /\ Handed' /\ Stream!Next
  /\ offs' \in 0..file.size /\ taken' \in 0..InputSize
  /\ stream' \in {"ok", "end", "error"}
  /\ asked' = n /\ answer' \in 0..file.size \cup {Huge - Room(Huge)} /\ Len(served') <= file.size
  /\ empty' = IF n = 0 THEN empty + 1 ELSE empty

LEMMA GetPlainServes ==
  ASSUME TypeOK, Handed, NEW n \in Nat, UNCHANGED file,
         file.kind = "plain", GetPlain(n)
  PROVE  Served(n)
<1>1. PICK m \in Seq(Tokens) : m = Mapped
  BY FileTyping DEF TypeOK
<1>2. PICK s \in Nat : s = file.size /\ Len(m) = s
  BY <1>1, FileTyping DEF TypeOK
<1>3. PICK a \in 0..s : a = offs
  BY <1>2 DEF TypeOK
<1>4. PICK k \in 0..(s - a) : k = PlainAmount(n)
  BY <1>2, <1>3 DEF PlainAmount
<1>5. k <= n /\ (k = n \/ k = s - a)
  BY <1>2, <1>3, <1>4 DEF PlainAmount
<1>6. served = SubSeq(m, 1, a) /\ stream = "ok" /\ ~Cut /\ ~Cut'
  BY <1>1, <1>3 DEF Handed, Damaged, TooLarge, MayBeCut, Cut
<1>7. /\ asked' = n /\ answer' = k /\ AnsweredBytes' = k
      /\ served' = served \o SubSeq(m, a + 1, a + k) /\ offs' = a + k
      /\ empty' = IF n = 0 THEN empty + 1 ELSE empty
      /\ taken' = taken /\ stream' = stream
  BY <1>1, <1>3, <1>4 DEF GetPlain, Answered, AnsweredBytes
<1>8. a + k \in a..Len(m) /\ a \in 0..Len(m) /\ (a + k) - a = k /\ a + k \in 0..s
  BY <1>2
<1>9. /\ served' = SubSeq(m, 1, a + k) /\ answer' = k /\ Len(served) = a
  BY <1>6, <1>7, <1>8, OnePiece
<1>10. Len(served') = a + k /\ served' \in Seq(Tokens)
  BY <1>2, <1>8, <1>9
<1>11. Payload = m
  BY <1>1 DEF Payload
<1>12. k \in 0..(Len(m) - a)
  BY <1>2
<1>13. Stream!Next
  BY <1>2, <1>5, <1>6, <1>7, <1>8, <1>9, <1>11, <1>12, FileStays, StreamServes
<1>14. Handed'
  BY <1>1, <1>6, <1>7, <1>9, <1>10, FileStays DEF Handed
<1> QED
  BY <1>2, <1>7, <1>8, <1>9, <1>10, <1>13, <1>14 DEF Served, TypeOK

\* The sizes that the callers ask for.
Asked == {VersionSize, HeaderSize, Huge} \cup Requests

LEMMA RoomIs ==
  ASSUME NEW n \in Asked
  PROVE  /\ n \in Nat /\ Room(n) \in 0..n /\ (n # Huge => Room(n) = n)
         /\ Huge \in Nat /\ Huge - Room(Huge) \in 1..(Huge - 1)
<1>1. /\ UIntSize \in Nat /\ UIntSize > VersionSize /\ Requests \subseteq 0..UIntSize - 1
      /\ Huge \in Nat /\ Huge >= UIntSize /\ Huge % UIntSize # 0
  BY LoaderAssumption
<1>2. n \in Nat /\ UIntSize > 0 /\ (n # Huge => n < UIntSize)
  BY <1>1 DEF Asked, VersionSize, HeaderSize
<1>3. Room(n) \in 0..n /\ (n # Huge => Room(n) = n)
  BY <1>1, <1>2, RemainderIsSmall DEF Room
<1>4. Room(Huge) \in 1..UIntSize - 1
  BY <1>1, <1>2, RemainderIsSmall DEF Room
<1> QED
  BY <1>1, <1>2, <1>3, <1>4

\* The bytes that are handed out are those that are counted, but for the answer to a
\* request of Huge bytes.
LEMMA BytesAnswered ==
  ASSUME file.kind = "bz2", UNCHANGED file, NEW n \in Asked, GetBz2(n),
         RunBz2(Room(n)).bytes \in Seq(Tokens)
  PROVE  /\ AnsweredBytes' = Len(Yield(RunBz2(Room(n))))
         /\ answer' \in {AnsweredBytes', Huge - Room(Huge)}
         /\ n # Huge => answer' = AnsweredBytes'
         /\ n = Huge => answer' # Huge
<1> DEFINE run == RunBz2(Room(n))
           b == Len(run.bytes)
<1>1. b \in Nat /\ Len(<<>>) = 0
  OBVIOUS
<1>2. answer' = IF run.result = "error" THEN 0 ELSE n - (Room(n) - b)
  BY DEF GetBz2, Answered, Amount
<1>3. asked' = n
  BY DEF GetBz2, Answered
<1>4. Len(Yield(run)) = IF run.result = "error" THEN 0 ELSE b
  BY <1>1 DEF Yield
<1> HIDE DEF run, b
<1>5. CASE n = Huge
  <2>1. run.bytes = <<>>
    BY <1>5 DEF GetBz2, run
  <2>2. b = 0
    BY <1>1, <2>1 DEF b
  <2>3. AnsweredBytes' = 0 /\ Len(Yield(run)) = 0
    BY <1>3, <1>4, <1>5, <2>2 DEF AnsweredBytes
  <2>4. answer' \in {0, Huge - Room(Huge)}
    BY <1>2, <1>5, <2>2, RoomIs
  <2> QED
    BY <1>5, <2>3, <2>4, RoomIs DEF run
<1>6. CASE n # Huge
  <2>1. AnsweredBytes' = answer'
    BY <1>3, <1>6 DEF AnsweredBytes
  <2>2. answer' = Len(Yield(run))
    BY <1>1, <1>2, <1>4, <1>6, RoomIs
  <2> QED
    BY <1>6, <2>1, <2>2 DEF run
<1> QED
  BY <1>5, <1>6

LEMMA GetBz2Serves ==
  ASSUME TypeOK, Handed, NEW n \in Asked, UNCHANGED file, file.kind = "bz2", GetBz2(n)
  PROVE  Served(n)
<1> DEFINE run == RunBz2(Room(n))
<1>1. PICK m \in Seq(Tokens) : m = Mapped
  BY FileTyping DEF TypeOK
<1>2. PICK s \in Nat : s = file.size /\ Len(m) = s
  BY <1>1, FileTyping DEF TypeOK
<1>20. PICK i \in 0..s : i = InputSize
  BY <1>2, FileTyping DEF TypeOK
<1>21. (file.size < UIntSize => i = s) /\ UIntSize \in Nat
  BY <1>2, <1>20, FileTyping, LoaderAssumption DEF TypeOK
<1>3. PICK a \in 0..i : a = taken
  BY <1>20 DEF TypeOK
<1>30. PICK r \in 0..n : r = Room(n) /\ (n # Huge => r = n)
  BY RoomIs
<1>4. /\ asked' = n /\ served' = served \o Yield(run)
      /\ empty' = IF n = 0 THEN empty + 1 ELSE empty
      /\ taken' = run.taken /\ stream' = run.result /\ offs' = offs
      /\ n = Huge => run.bytes = <<>>
  BY DEF GetBz2, Answered
<1>5. file \in Files /\ n \in Nat
  BY RoomIs DEF TypeOK
<1>7. MayBeCut' = MayBeCut /\ InputSize' = i
  BY <1>20, FileStays
<1> HIDE DEF run
<1>8. ASSUME NEW k \in 0..s, AnsweredBytes' = k, run.bytes \in Seq(Tokens)
      PROVE  answer' \in 0..file.size \cup {Huge - Room(Huge)}
  BY <1>2, <1>8, BytesAnswered DEF run
<1>9. CASE stream = "ok"
  <2>1. BytesUpTo(a) /\ served = SubSeq(m, 1, a)
    BY <1>1, <1>3, <1>9 DEF Handed
  <2>2. PICK z \in a..i :
           /\ z - a <= r /\ \A x \in a + 1..z : m[x] \notin NotBytes
           /\ run.bytes = SubSeq(m, a + 1, z)
           /\ \/ /\ run.result = "ok" /\ run.taken = z
                 /\ z - a = r \/ z = i
              \/ /\ run.result = "end" /\ run.taken = z + 1
                 /\ z < i /\ m[z + 1] = END
              \/ /\ run.result = "error" /\ run.taken = z + 1
                 /\ z < i /\ m[z + 1] \in {BAD, VOID}
    <3>1. r \in Nat
      BY <1>5
    <3>2. \E z \in a..i :
           /\ z - a <= r /\ \A x \in a + 1..z : m[x] \notin NotBytes
           /\ run.bytes = SubSeq(m, a + 1, z)
           /\ \/ /\ run.result = "ok" /\ run.taken = z
                 /\ z - a = r \/ z = i
              \/ /\ run.result = "end" /\ run.taken = z + 1
                 /\ z < i /\ m[z + 1] = END
              \/ /\ run.result = "error" /\ run.taken = z + 1
                 /\ z < i /\ m[z + 1] \in {BAD, VOID}
      BY <1>1, <1>20, <1>3, <1>30, <1>9, <3>1, RunBz2Is DEF run
    <3> QED
      BY <3>2
  <2>3. z \in 0..s /\ z \in Nat /\ a \in Nat /\ a <= z /\ z <= i /\ i <= s
        /\ z - a <= n
    BY <1>2, <1>3, <1>5, <2>2
  <2>4. \A x \in 1..z : m[x] \notin NotBytes
    BY <1>1, <1>3, <2>1, <2>2, <2>3 DEF BytesUpTo
  <2>5. BytesUpTo(z)
    BY <1>1, <2>4 DEF BytesUpTo
  <2>6. PICK P \in Seq(Tokens) : P = Payload
    BY <1>2, <1>5, <2>3, <2>5, PayloadBegins
  <2>7. /\ z <= Len(P) /\ SubSeq(P, 1, z) = SubSeq(m, 1, z)
        /\ z = s => P = SubSeq(m, 1, z)
        /\ z + 1 = s /\ m[s] \in NotBytes => P = SubSeq(m, 1, z)
    BY <1>1, <1>2, <1>5, <2>3, <2>5, <2>6, PayloadBegins
  <2>8. Len(P) \in Nat /\ Len(SubSeq(m, 1, z)) = z /\ SubSeq(m, 1, z) \in Seq(Tokens)
    BY <1>2, <2>3
  <2>9. Len(served) = a /\ a \in 0..Len(P)
    BY <1>2, <1>3, <2>1, <2>3, <2>7, <2>8, OnePiece
  <2>10. /\ served \o SubSeq(m, a + 1, z) = SubSeq(m, 1, z)
         /\ Len(SubSeq(m, a + 1, z)) = z - a /\ run.bytes \in Seq(Tokens)
    <3>1. z \in a..Len(m) /\ a \in 0..Len(m)
      BY <1>2, <2>3
    <3>2. SubSeq(m, a + 1, z) \in Seq(Tokens)
      BY <2>3, <3>1
    <3>3. /\ SubSeq(m, 1, a) \o SubSeq(m, a + 1, z) = SubSeq(m, 1, z)
          /\ Len(SubSeq(m, a + 1, z)) = z - a
      BY <3>1, OnePiece
    <3> QED
      BY <2>1, <2>2, <3>2, <3>3
  <2>11. AnsweredBytes' = Len(Yield(run))
    BY <2>10, BytesAnswered DEF run
  <2>12. CASE run.result = "ok" /\ run.taken = z /\ (z - a = r \/ z = i)
    <3>1. /\ served' = SubSeq(m, 1, z) /\ AnsweredBytes' = z - a
          /\ taken' = z /\ stream' = "ok"
      BY <1>4, <2>2, <2>10, <2>11, <2>12 DEF Yield
    <3>2. z - a \in 0..(Len(P) - a) /\ a + (z - a) = z
      BY <2>3, <2>7, <2>8
    <3>3. Stream!Next
      <4>1. CASE Cut
        <5>1. a = i /\ z = a /\ z - a = 0
          BY <1>20, <1>3, <1>9, <2>3, <4>1 DEF Cut
        <5>2. served' = served /\ Cut'
          BY <1>20, <1>3, <1>7, <2>1, <3>1, <4>1, <5>1 DEF Cut
        <5>3. Stream!GetNothing(n)
          <6>1. Cut' = Cut
            BY <4>1, <5>2 DEF Cut
          <6> QED
            BY <3>1, <4>1, <5>1, <5>2, <6>1 DEF Stream!GetNothing
        <5>4. Payload' = Payload /\ MayBeCut' = MayBeCut /\ asked' = n /\ asked' \in Nat
          BY <1>4, <1>5, FileStays
        <5> QED
          BY <5>3, <5>4 DEF Stream!Next
      <4>2. CASE ~Cut
        <5>1. Cut' \/ z - a = n \/ z - a = Len(P) - a
          <6>1. CASE z = i
            <7>1. CASE MayBeCut
              BY <1>7, <3>1, <6>1, <7>1 DEF Cut
            <7>2. CASE ~MayBeCut
              <8>1. z = s
                BY <1>2, <1>21, <6>1, <7>2 DEF MayBeCut, TooLarge
              <8> QED
                BY <2>7, <2>8, <8>1
            <7> QED
              BY <7>1, <7>2
          <6>2. CASE z # i
            <7>1. z - a = r
              BY <2>12, <6>2
            <7>2. n # Huge
              <8> SUFFICES ASSUME n = Huge PROVE FALSE
                OBVIOUS
              <8>1. SubSeq(m, a + 1, z) = <<>>
                BY <1>4, <2>2
              <8>2. z - a = 0
                BY <2>10, <8>1
              <8>3. r # 0
                BY <1>30, RoomIs
              <8> QED
                BY <7>1, <8>2, <8>3
            <7> QED
              BY <1>30, <7>1, <7>2
          <6> QED
            BY <6>1, <6>2
        <5>2. served' = SubSeq(P, 1, a + (z - a)) /\ asked' = n /\ n \in Nat
          BY <1>4, <1>5, <2>7, <3>1, <3>2
        <5> QED
          BY <2>3, <2>6, <2>9, <3>1, <3>2, <4>2, <5>1, <5>2, StreamServes
      <4> QED
        BY <4>1, <4>2
    <3>4. Handed'
      BY <1>1, <2>4, <2>8, <3>1, FileStays DEF Handed, BytesUpTo
    <3>5. z - a \in 0..s /\ Len(served') <= s /\ taken' \in 0..i
      BY <2>3, <2>8, <3>1
    <3> QED
      BY <1>2, <1>20, <1>4, <1>8, <2>10, <3>1, <3>3, <3>4, <3>5 DEF Served, TypeOK
  <2>13. CASE run.result = "end" /\ run.taken = z + 1 /\ z < i /\ m[z + 1] = END
    <3>0. ~Cut
      BY <1>20, <1>3, <1>9, <2>3, <2>13 DEF Cut
    <3>1. /\ served' = SubSeq(m, 1, z) /\ AnsweredBytes' = z - a
          /\ taken' = z + 1 /\ stream' = "end"
      BY <1>4, <2>2, <2>10, <2>11, <2>13 DEF Yield
    <3>2. z - a \in 0..(Len(P) - a) /\ a + (z - a) = z
      BY <2>3, <2>7, <2>8
    <3>3. ASSUME ~Damaged PROVE P = SubSeq(m, 1, z) /\ z - a = Len(P) - a
      <4>1. z + 1 \in 1..s
        BY <2>3, <2>13
      <4>2. ~(z + 1 < s)
        BY <1>1, <1>2, <2>13, <3>3, <4>1 DEF Damaged
      <4>3. z + 1 = s
        BY <2>3, <2>13, <4>2
      <4>4. m[s] \in NotBytes
        BY <2>13, <4>3 DEF NotBytes
      <4> QED
        BY <2>7, <2>8, <4>3, <4>4
    <3>4. Cut' \/ z - a = n \/ z - a = Len(P) - a
      BY <1>7, <3>1, <3>3 DEF Cut, MayBeCut
    <3>5. Stream!Next
      BY <1>4, <1>5, <2>3, <2>6, <2>7, <2>9, <3>0, <3>1, <3>2, <3>4, StreamServes
    <3>6. Handed'
      BY <2>6, <2>8, <3>1, <3>3, FileStays DEF Handed
    <3>7. z - a \in 0..s /\ Len(served') <= s /\ taken' \in 0..i
      BY <2>3, <2>8, <2>13, <3>1
    <3> QED
      BY <1>2, <1>20, <1>4, <1>8, <2>10, <3>1, <3>5, <3>6, <3>7 DEF Served, TypeOK
  <2>14. CASE /\ run.result = "error" /\ run.taken = z + 1
              /\ z < i /\ m[z + 1] \in {BAD, VOID}
    <3>0. ~Cut
      BY <1>20, <1>3, <1>9, <2>3, <2>14 DEF Cut
    <3>1. Yield(run) = <<>> /\ Len(<<>>) = 0
      BY <2>14 DEF Yield
    <3>2. /\ served' = served \o <<>> /\ AnsweredBytes' = 0
          /\ taken' = z + 1 /\ stream' = "error"
      BY <1>4, <2>11, <2>14, <3>1
    <3>3. served' = SubSeq(m, 1, a) /\ served' \in Seq(Tokens)
      <4>1. SubSeq(m, 1, a) \in Seq(Tokens)
        BY <2>1 DEF Handed
      <4> QED
        BY <2>1, <3>2, <4>1
    <3>4. Damaged
      <4>1. z + 1 \in 1..s
        BY <2>3, <2>14
      <4> QED
        BY <1>1, <1>2, <2>14, <4>1 DEF Damaged
    <3>5. Cut'
      BY <1>7, <3>2, <3>4 DEF Cut, MayBeCut
    <3>6. SubSeq(P, 1, a) = SubSeq(m, 1, a)
      <4>1. a \in 0..file.size
        BY <1>2, <2>3
      <4> QED
        BY <1>1, <1>5, <2>1, <2>6, <4>1, PayloadBegins
    <3>7. 0 \in 0..(Len(P) - a) /\ a + 0 = a /\ 0 <= n
      BY <1>5, <2>3, <2>7, <2>8
    <3>8. Stream!Next
      BY <1>4, <1>5, <2>6, <2>9, <3>0, <3>2, <3>3, <3>5, <3>6, <3>7, StreamServes
    <3>9. Handed'
      BY <3>2, <3>3, <3>4, FileStays DEF Handed
    <3>10. 0 \in 0..s /\ Len(served') <= s /\ taken' \in 0..i
      BY <1>2, <2>1, <2>3, <2>9, <2>14, <3>2, <3>3
    <3> QED
      BY <1>2, <1>20, <1>4, <1>8, <2>10, <3>2, <3>8, <3>9, <3>10 DEF Served, TypeOK
  <2> QED
    BY <2>2, <2>12, <2>13, <2>14
<1>10. CASE stream # "ok"
  <2>1. run = [bytes |-> <<>>, taken |-> taken, result |-> "error"]
    BY <1>10 DEF RunBz2, run
  <2>2. Yield(run) = <<>> /\ Len(<<>>) = 0 /\ run.bytes \in Seq(Tokens)
    BY <2>1 DEF Yield
  <2>3. served' = served \o <<>> /\ AnsweredBytes' = 0 /\ taken' = taken /\ stream' = "error"
    <3>1. AnsweredBytes' = Len(Yield(run))
      BY <2>2, BytesAnswered DEF run
    <3> QED
      BY <1>4, <2>1, <2>2, <3>1
  <2>4. served \in Seq(Tokens)
    BY DEF Handed
  <2>5. served' = served
    BY <2>3, <2>4
  <2>6. Handed'
    BY <1>10, <2>3, <2>4, <2>5, FileStays DEF Handed
  <2>7. Stream!Next
    <3>1. CASE MayBeCut
      <4>1. Cut /\ Cut' = Cut
        BY <1>7, <1>10, <2>3, <3>1 DEF Cut
      <4>2. Stream!GetNothing(n)
        BY <2>3, <2>5, <4>1 DEF Stream!GetNothing
      <4> QED
        BY <1>4, <1>5, <1>7, <4>2, FileStays DEF Stream!Next
    <3>2. CASE ~MayBeCut
      <4>1. Payload = served
        BY <1>10, <3>2 DEF Handed, MayBeCut
      <4>2. /\ 0 \in 0..(Len(served) - Len(served)) /\ Len(served) + 0 = Len(served)
            /\ SubSeq(served, 1, Len(served)) = served /\ Len(served) \in 0..Len(served)
        BY <2>4
      <4>3. PICK P \in Seq(Tokens) : P = served
        BY <2>4
      <4>4. Len(P) \in 0..Len(P) /\ 0 \in 0..(Len(P) - Len(P)) /\ P = Payload
        BY <4>1, <4>2, <4>3
      <4>5. served' = SubSeq(P, 1, Len(P) + 0) /\ 0 = Len(P) - Len(P) /\ 0 <= n
        BY <1>5, <2>5, <4>2, <4>3
      <4>6. ~Cut /\ Len(served) = Len(P)
        BY <3>2, <4>3 DEF Cut
      <4> QED
        BY <1>4, <1>5, <2>3, <4>4, <4>5, <4>6, StreamServes
    <3> QED
      BY <3>1, <3>2
  <2>8. 0 \in 0..s
    OBVIOUS
  <2> QED
    BY <1>2, <1>20, <1>4, <1>8, <2>2, <2>3, <2>5, <2>6, <2>7, <2>8 DEF Served, TypeOK
<1> QED
  BY <1>9, <1>10

LEMMA GetDataServes ==
  ASSUME TypeOK, Handed, NEW n \in Asked, UNCHANGED file, GetData(n)
  PROVE  Served(n)
BY GetPlainServes, GetBz2Serves, RoomIs DEF GetData

\* What is held after a call; the block that a call loses comes with no bytes.
LEMMA GetDataHolds ==
  ASSUME TypeOK, Holding, at \in Reading, NEW n \in Asked, UNCHANGED file, GetData(n)
  PROVE  /\ held' \subseteq {"fd", "map", "bz2", "block"} /\ {"fd", "map"} \subseteq held'
         /\ file.kind = "bz2" => /\ "bz2" \in held'
                                 /\ answer' > 0 /\ n # Huge => "block" \in held'
         /\ lost' \in Nat /\ empty' \in Nat /\ lost' <= empty' + 1
         /\ ~(answer' = 0 /\ n # 0) => lost' <= empty'
<1>1. /\ held \subseteq {"fd", "map", "bz2", "block"} /\ {"fd", "map"} \subseteq held
      /\ file.kind = "bz2" => "bz2" \in held
      /\ lost \in Nat /\ empty \in Nat /\ lost <= empty
  BY DEF TypeOK, Holding, Reading
<1>2. CASE file.kind = "plain" /\ GetPlain(n)
  <2>1. held' = held /\ lost' = lost /\ empty' = IF n = 0 THEN empty + 1 ELSE empty
    BY <1>2 DEF GetPlain, Answered
  <2> QED
    BY <1>1, <1>2, <2>1
<1>3. CASE file.kind = "bz2" /\ GetBz2(n)
  <2> DEFINE run == RunBz2(Room(n))
  <2>1. empty' = IF n = 0 THEN empty + 1 ELSE empty
    BY <1>3 DEF GetBz2, Answered
  <2> HIDE DEF run
  <2>3. CASE n = Huge
    <3>1. held' = held \ {"block"} /\ lost' = lost
      BY <1>3, <2>3 DEF GetBz2
    <3> QED
      BY <1>1, <1>3, <2>1, <2>3, <3>1
  <2>4. CASE n # Huge
    <3>1. RenewBlock(run)
      BY <1>3, <2>4 DEF GetBz2, run
    <3>0. ASSUME run.result = "error" \/ run.bytes = <<>> PROVE answer' = 0
      <4>1. answer' = IF run.result = "error" THEN 0 ELSE n - (Room(n) - Len(run.bytes))
        BY <1>3 DEF GetBz2, Answered, Amount, run
      <4>2. n \in Nat /\ Room(n) = n
        BY <2>4, RoomIs
      <4>3. CASE run.result = "error"
        BY <4>1, <4>3
      <4>4. CASE run.bytes = <<>>
        <5>1. Len(run.bytes) = 0
          BY <4>4
        <5> QED
          BY <4>1, <4>2, <5>1
      <4> QED
        BY <3>0, <4>3, <4>4
    <3>2. CASE run.result # "error" /\ run.bytes # <<>>
      <4>1. held' = held \cup {"block"} /\ lost' = lost
        BY <3>1, <3>2 DEF RenewBlock
      <4> QED
        BY <1>1, <2>1, <4>1
    <3>3. CASE run.result = "error"
      <4>1. held' = held \ {"block"} /\ lost' = lost
        BY <3>1, <3>3 DEF RenewBlock
      <4> QED
        BY <1>1, <2>1, <3>0, <3>3, <4>1
    <3>4. CASE run.result # "error" /\ run.bytes = <<>>
      <4>1. held' = held \ {"block"} /\ lost' = lost + 1
        BY <3>1, <3>4 DEF RenewBlock
      <4> QED
        BY <1>1, <2>1, <3>0, <3>4, <4>1
    <3> QED
      BY <3>2, <3>3, <3>4
  <2> QED
    BY <2>3, <2>4
<1> QED
  BY <1>2, <1>3 DEF GetData

\* The callers ask for n bytes, and go on unless they get none of them; the answer to
\* a request of Huge bytes of an archive sends them to the end.
Asks(n) == /\ n \in Asked
           /\ GetData(n)
           /\ at' \in Reading => ~(answer' = 0 /\ n # 0)
           /\ at' \in Reading /\ file.kind = "bz2" => n # Huge

LEMMA YieldsTokens ==
  ASSUME TypeOK, NEW n \in Nat
  PROVE  RunBz2(n).bytes \in Seq(Tokens)
<1>1. PICK m \in Seq(Tokens) : m = Mapped /\ Len(m) = file.size
  BY FileTyping DEF TypeOK
<1>2. InputSize \in 0..file.size /\ taken \in 0..InputSize /\ file.size \in Nat
  BY FileTyping DEF TypeOK
<1>3. CASE stream = "ok"
  <2>1. PICK stop \in taken..InputSize : RunBz2(n).bytes = SubSeq(Mapped, taken + 1, stop)
    BY <1>3, RunBz2Is
  <2>2. taken \in Nat /\ stop \in Nat /\ taken <= stop /\ stop <= Len(m)
    BY <1>1, <1>2
  <2>3. SubSeq(m, taken + 1, stop) \in Seq(Tokens)
    BY <2>2
  <2> QED
    BY <1>1, <2>1, <2>3
<1>4. CASE stream # "ok"
  <2>1. RunBz2(n).bytes = <<>>
    BY <1>4 DEF RunBz2
  <2> QED
    BY <2>1
<1> QED
  BY <1>3, <1>4

LEMMA ReadStep ==
  ASSUME LInv, ReadVersion \/ ReadHeader \/ ReadBody
  PROVE  /\ file' = file /\ at \in Reading /\ at' \in Reading \cup {"close"}
         /\ \E n \in Asked : Asks(n)
<1>1. /\ VersionSize # 0 /\ HeaderSize # 0 /\ VersionSize # Huge /\ HeaderSize # Huge
      /\ {VersionSize, HeaderSize, Huge} \cup Requests = Asked
  BY LoaderAssumption DEF VersionSize, HeaderSize, Asked
<1>2. CASE ReadVersion
  BY <1>1, <1>2 DEF ReadVersion, Reading, Asks, Asked
<1>3. CASE ReadHeader
  BY <1>1, <1>3 DEF ReadHeader, Reading, Asks, Asked
<1>4. CASE ReadBody
  <2>1. file' = file /\ at = "body"
    BY <1>4 DEF ReadBody
  <2>2. PICK n \in Asked : /\ GetData(n)
                          /\ at' \in IF answer' = n THEN {"header", "version", "close"}
                                     ELSE {"close"}
    BY <1>1, <1>4 DEF ReadBody
  <2>3. ASSUME file.kind = "bz2", n = Huge PROVE answer' # n
    <3>1. GetBz2(n)
      BY <2>2, <2>3 DEF GetData
    <3>2. RunBz2(Room(n)).bytes \in Seq(Tokens)
      <4>1. Room(n) \in Nat
        BY RoomIs
      <4> QED
        BY <4>1, YieldsTokens DEF LInv
    <3> QED
      BY <2>1, <2>3, <3>1, <3>2, BytesAnswered
  <2>4. Asks(n)
    BY <2>2, <2>3 DEF Asks, Reading
  <2> QED
    BY <2>1, <2>2, <2>4 DEF Reading
<1> QED
  BY <1>2, <1>3, <1>4

-----------------------------------------------------------------------------
(* Every step.                                                             *)

LEMMA LoaderInit == Init => LInv
<1> SUFFICES ASSUME Init PROVE LInv
  OBVIOUS
<1>1. file \in Files /\ file.size \in Nat /\ Mapped \in Seq(Tokens) /\ 0 \in 0..InputSize
  BY FileTyping DEF Init
<1>2. Len(served) = 0 /\ served \in Seq(Tokens)
  BY DEF Init
<1>3. TypeOK
  BY <1>1, <1>2 DEF Init, TypeOK
<1>4. Handed
  <2>1. SubSeq(Mapped, 1, 0) = <<>>
    BY <1>1
  <2> QED
    BY <1>2, <2>1 DEF Init, Handed, BytesUpTo
<1>5. Holding
  BY DEF Init, Holding, Reading
<1> QED
  BY <1>3, <1>4, <1>5 DEF LInv

\* As long as no byte is read nothing is said of the bytes.
LEMMA HandedKept ==
  ASSUME Handed, UNCHANGED <<file, readVars>>
  PROVE  Handed'
<1>1. Mapped' = Mapped /\ Payload' = Payload /\ Damaged' = Damaged
  BY FileStays
<1> QED
  BY <1>1 DEF Handed, readVars, BytesUpTo

LEMMA OpenStep ==
  ASSUME LInv, Open
  PROVE  LInv'
<1> USE DEF Open, OpenFails, OpenFile, MapFails, Destroy, Map, CompareThrows, StartPlain, StartBz2
<1>1. UNCHANGED <<file, readVars>>
  OBVIOUS
<1>2. /\ file \in Files /\ file.kind \in {"plain", "bz2"}
      /\ held \subseteq {"fd", "map", "bz2", "block"}
  BY FileTyping DEF LInv, TypeOK
<1>3. /\ at' \in {"refused", "opened", "mapped", "crashed", "version"}
      /\ held' \subseteq {"fd", "map", "bz2", "block"}
  BY <1>2
<1>30. InputSize' = InputSize /\ Room(Huge)' = Room(Huge)
  BY <1>1, FileStays DEF Room
<1>4. TypeOK'
  BY <1>1, <1>3, <1>30 DEF LInv, TypeOK, readVars
<1>5. Handed'
  BY <1>1, HandedKept DEF LInv
<1>6. Holding'
  <2>1. lost' <= empty' + 1 /\ lost' <= empty' /\ answer' = 0
    BY <1>1 DEF LInv, Holding, readVars
  <2>2. /\ at' = "refused" => held' = {}
        /\ at' = "opened" => held' = {"fd"}
        /\ at' = "mapped" => held' = {"fd", "map"}
        /\ at' = "version" => {"fd", "map"} \subseteq held'
        /\ at' = "version" /\ file.kind = "bz2" => "bz2" \in held'
    BY DEF LInv, Holding
  <2> QED
    BY <1>1, <1>3, <2>1, <2>2, FileTyping DEF LInv, TypeOK, Holding, Reading
<1> QED
  BY <1>4, <1>5, <1>6 DEF LInv

LEMMA ReadKeeps ==
  ASSUME LInv, ReadVersion \/ ReadHeader \/ ReadBody
  PROVE  LInv' /\ Stream!Next
<1>1. /\ file' = file /\ at \in Reading /\ at' \in Reading \cup {"close"}
  BY ReadStep
<1>0. PICK n \in Asked : Asks(n)
  BY ReadStep
<1>2. /\ GetData(n)
      /\ at' \in Reading => ~(answer' = 0 /\ n # 0)
      /\ at' \in Reading /\ file.kind = "bz2" => n # Huge
  BY <1>0 DEF Asks
<1>3. Served(n)
  BY <1>1, <1>2, GetDataServes DEF LInv
<1>4. /\ held' \subseteq {"fd", "map", "bz2", "block"} /\ {"fd", "map"} \subseteq held'
      /\ file.kind = "bz2" => /\ "bz2" \in held'
                              /\ answer' > 0 /\ n # Huge => "block" \in held'
      /\ lost' \in Nat /\ empty' \in Nat /\ lost' <= empty' + 1
      /\ ~(answer' = 0 /\ n # 0) => lost' <= empty'
  BY <1>1, <1>2, GetDataHolds DEF LInv
<1>5. TypeOK'
  <2>1. InputSize' = InputSize /\ Room(Huge)' = Room(Huge)
    BY <1>1, FileStays DEF Room
  <2> QED
    BY <1>1, <1>3, <1>4, <2>1 DEF LInv, TypeOK, Served, Reading, Asked
<1>6. Holding'
  BY <1>1, <1>2, <1>4 DEF Holding, Reading
<1> QED
  BY <1>3, <1>5, <1>6 DEF LInv, Served

LEMMA FaultStep ==
  ASSUME LInv, ReadFault
  PROVE  LInv' /\ UNCHANGED <<file, readVars>>
<1>1. PICK n \in Nat : Fault(n)
  BY RoomIs DEF ReadFault, Asked
<1>2. at' = "crashed" /\ UNCHANGED <<file, held, readVars>>
  BY <1>1 DEF Fault
<1>3. at \in Reading
  BY DEF ReadFault, Reading
<1>4. TypeOK'
  <2>1. InputSize' = InputSize /\ Room(Huge)' = Room(Huge)
    BY <1>2, FileStays DEF Room
  <2> QED
    BY <1>2, <2>1 DEF LInv, TypeOK, readVars
<1>5. Handed'
  BY <1>2, HandedKept DEF LInv
<1>6. Holding'
  BY <1>2, <1>3 DEF LInv, Holding, Reading, readVars
<1> QED
  BY <1>2, <1>4, <1>5, <1>6 DEF LInv

LEMMA CloseStep ==
  ASSUME LInv, Close
  PROVE  LInv'
<1>1. at = "close" /\ at' = "closed" /\ held' = {} /\ UNCHANGED <<file, readVars>>
  BY DEF Close, Destroy
<1>20. InputSize' = InputSize /\ Room(Huge)' = Room(Huge)
  BY <1>1, FileStays DEF Room
<1>2. TypeOK' /\ Holding'
  BY <1>1, <1>20 DEF LInv, TypeOK, Holding, Reading, readVars
<1>3. Handed'
  BY <1>1, HandedKept DEF LInv
<1> QED
  BY <1>2, <1>3 DEF LInv

LEMMA LoaderStutters ==
  ASSUME LInv, UNCHANGED vars
  PROVE  LInv'
<1>1. UNCHANGED <<file, at, held>> /\ UNCHANGED readVars
  BY DEF vars, readVars
<1>20. InputSize' = InputSize /\ Room(Huge)' = Room(Huge)
  BY <1>1, FileStays DEF Room
<1>2. TypeOK' /\ Holding'
  BY <1>1, <1>20 DEF LInv, TypeOK, Holding, Reading, readVars
<1>3. Handed'
  BY <1>1, HandedKept DEF LInv
<1> QED
  BY <1>2, <1>3 DEF LInv

LEMMA LoaderNext == LInv /\ [Next]_vars => LInv'
BY LoaderStutters, OpenStep, ReadKeeps, FaultStep, CloseStep DEF Next, Operate, Over

\* The loader keeps LInv, whatever is asked of it.
THEOREM LoaderInvariant == Spec => []LInv
BY LoaderInit, LoaderNext, PTL DEF Spec

\* The type invariant holds for every file and every sequence of requests.
THEOREM LoaderTyping == Spec => []TypeOK
<1>1. LInv => TypeOK
  BY DEF LInv
<1> QED
  BY <1>1, LoaderInvariant, PTL

\* The bytes of the last answer are there when the caller looks at them.
THEOREM AnswersAreAlive == Spec => []AnswerAlive
<1>1. LInv => AnswerAlive
  BY FileTyping DEF LInv, TypeOK, Holding, Reading, AnswerAlive
<1> QED
  BY <1>1, LoaderInvariant, PTL

\* Nothing of a file is held when the thread has done with it, and at most one
\* block is lost beside those of requests for no bytes.
THEOREM NothingStays == Spec => []NothingKept
<1>1. LInv => NothingKept
  BY DEF LInv, Holding, NothingKept
<1> QED
  BY <1>1, LoaderInvariant, PTL

\* Whatever is asked for, the bytes of the file are handed out in their order, and all of
\* them but for a damaged archive and one that is larger than an unsigned int can tell.
THEOREM ByteStreamImplemented == Spec => ImplementsByteStream
<1>1. Init => Stream!Init
  BY DEF Init, Stream!Init, Cut, AnsweredBytes
<1>2. LInv /\ [Next]_vars => [Stream!Next]_(Stream!vars)
  <2> SUFFICES ASSUME LInv, [Next]_vars PROVE [Stream!Next]_(Stream!vars)
    OBVIOUS
  <2>1. ASSUME UNCHANGED <<file, readVars>> PROVE UNCHANGED Stream!vars
    <3>1. Payload' = Payload /\ MayBeCut' = MayBeCut /\ InputSize' = InputSize
      BY <2>1, FileStays
    <3> QED
      BY <2>1, <3>1 DEF Stream!vars, readVars, Cut, AnsweredBytes
  <2>2. CASE ReadVersion \/ ReadHeader \/ ReadBody
    BY <2>2, ReadKeeps
  <2>3. CASE UNCHANGED vars
    BY <2>1, <2>3 DEF vars, readVars
  <2>4. CASE Open \/ Close
    <3>1. UNCHANGED <<file, readVars>>
      BY <2>4 DEF Close, Open, OpenFails, OpenFile, MapFails, Map, CompareThrows, StartPlain,
         StartBz2
    <3> QED
      BY <2>1, <3>1
  <2>5. CASE ReadFault
    BY <2>1, <2>5, FaultStep
  <2> QED
    BY <2>2, <2>3, <2>4, <2>5 DEF Next, Operate, Over
<1> QED
  BY <1>1, <1>2, LoaderInvariant, PTL DEF Spec, ImplementsByteStream, Stream!Spec
-----------------------------------------------------------------------------
(* The reading.  That a file is left follows by induction from this and the *)
(* length that TypeOK gives served, which is TLC's part.                    *)

\* Whatever is asked for, a reader that goes on has been handed a byte, or no bytes were
\* asked for and a header or a version number is next.
ReaderGains ==
  at \in Reading => \/ at' \notin Reading
                    \/ Len(served') > Len(served)
                    \/ at = "body" /\ at' # "body" /\ served' = served

ReadersMoveOn == [][ReaderGains]_vars

\* No sequence of answers keeps a reader at its place.
THEOREM ReadingMovesOn == Spec => ReadersMoveOn
<1>1. LInv /\ [Next]_vars => [ReaderGains]_vars
  <2> SUFFICES ASSUME LInv, Next, vars' # vars, at \in Reading, at' \in Reading
               PROVE  \/ Len(served') > Len(served)
                      \/ at = "body" /\ at' # "body" /\ served' = served
    BY DEF ReaderGains
  <2>1. ReadVersion \/ ReadHeader \/ ReadBody
    BY DEF Next, Operate, Over, Open, OpenFails, OpenFile, MapFails, Map, CompareThrows, StartPlain,
       StartBz2, ReadFault, Fault, Close, Reading
  <2>2. PICK n \in Asked : Asks(n) /\ (at # "body" => n # 0) /\ (at = "body" => at' # "body")
    <3>1. CASE ReadVersion
      BY <3>1, LoaderAssumption DEF ReadVersion, Asks, Reading, VersionSize, HeaderSize, Asked
    <3>2. CASE ReadHeader
      BY <3>2, LoaderAssumption DEF ReadHeader, Asks, Reading, VersionSize, HeaderSize, Asked
    <3>3. CASE ReadBody
      BY <3>3, ReadStep DEF ReadBody
    <3> QED
      BY <2>1, <3>1, <3>2, <3>3
  <2>3. PICK bytes : /\ served' = served \o bytes /\ answer' = Len(bytes)
                     /\ bytes \in Seq(Tokens)
    <3>0. Mapped \in Seq(Tokens) /\ offs \in Nat /\ n \in Nat /\ Room(n) \in Nat /\ file' = file
      BY <2>1, FileTyping, RoomIs, ReadStep DEF LInv, TypeOK
    <3>1. CASE GetPlain(n)
      <4>1. /\ served' = served \o SubSeq(Mapped, offs + 1, offs + PlainAmount(n))
            /\ answer' = PlainAmount(n)
        BY <3>1 DEF GetPlain, Answered
      <4>2. PICK end \in offs..file.size : end = offs + PlainAmount(n) /\ end - offs = answer'
        <5>1. file.size \in Nat /\ offs \in 0..file.size
          BY FileTyping DEF LInv, TypeOK
        <5>2. PlainAmount(n) \in 0..(file.size - offs)
          BY <3>0, <5>1 DEF PlainAmount
        <5> QED
          BY <4>1, <5>1, <5>2
      <4>3. /\ SubSeq(Mapped, offs + 1, end) \in Seq(Tokens)
            /\ Len(SubSeq(Mapped, offs + 1, end)) = end - offs
        BY <3>0, <4>2, FileTyping DEF LInv, TypeOK
      <4> QED
        BY <4>1, <4>2, <4>3
    <3>2. CASE file.kind = "bz2" /\ GetBz2(n)
      <4>1. served' = served \o Yield(RunBz2(Room(n)))
        BY <3>2 DEF GetBz2, Answered
      <4>2. RunBz2(Room(n)).bytes \in Seq(Tokens)
        BY <3>0, YieldsTokens DEF LInv
      <4>3. n # Huge
        BY <2>2, <3>2 DEF Asks
      <4>4. answer' = Len(Yield(RunBz2(Room(n))))
        BY <3>0, <3>2, <4>2, <4>3, BytesAnswered
      <4>5. Yield(RunBz2(Room(n))) \in Seq(Tokens)
        BY <4>2 DEF Yield
      <4> QED
        BY <4>1, <4>4, <4>5
    <3> QED
      BY <2>2, <3>1, <3>2 DEF Asks, GetData
  <2>4. served \in Seq(Tokens)
    BY DEF LInv, Handed
  <2>5. CASE answer' = 0
    <3>1. n = 0 /\ at = "body" /\ at' # "body"
      BY <2>2, <2>5 DEF Asks
    <3> QED
      BY <2>3, <2>4, <2>5, <3>1
  <2>6. CASE answer' # 0
    BY <2>3, <2>4, <2>6
  <2> QED
    BY <2>5, <2>6
<1> QED
  BY <1>1, LoaderInvariant, PTL DEF Spec, ReadersMoveOn
=============================================================================
