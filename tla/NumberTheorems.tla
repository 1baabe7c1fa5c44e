---------------------------- MODULE NumberTheorems ----------------------------
(***************************************************************************)
(* What the proofs need of numbers: induction, sums of sequences and over  *)
(* finite sets, quotients and the arithmetic of a counter that wraps.  The *)
(* provers know no induction; it is drawn from the theorem that a          *)
(* well-founded set has minimal elements.                                  *)
(***************************************************************************)
EXTENDS Sums, Integers, FiniteSetTheorems, TLAPS

LEMMA LeastNumber ==
  ASSUME NEW T \in SUBSET Nat, T # {}
  PROVE  \E x \in T : \A y \in T : x <= y
<1> DEFINE R == {ss \in Nat \X Nat : ss[1] < ss[2]}
<1>1. IsWellFoundedOn(R, Nat)
  BY NatLessThanWellFounded, Zenon DEF OpToRel
<1> HIDE DEF R
<1>2. PICK x \in T : \A y \in T : <<y, x>> \notin R
  BY <1>1, WFMin, Zenon
<1>3. ASSUME NEW y \in T PROVE x <= y
  <2>1. x \in Nat /\ y \in Nat /\ <<y, x>> \notin R
    BY <1>2
  <2> QED
    BY <2>1 DEF R
<1> QED
  BY <1>3

\* Induction: a set that holds zero and with each number the next holds them all.
LEMMA Induction ==
  ASSUME NEW S, 0 \in S, \A n \in Nat : n \in S => n + 1 \in S
  PROVE  \A n \in Nat : n \in S
<1> SUFFICES ASSUME Nat \ S # {} PROVE FALSE
  OBVIOUS
<1>1. PICK x \in Nat \ S : \A y \in Nat \ S : x <= y
  BY LeastNumber
<1>2. x - 1 \in Nat /\ x - 1 \in S
  BY <1>1
<1> QED
  BY <1>2

\* Going on from 0 by f, N times.
LEMMA Iteration ==
  ASSUME NEW N \in Nat, NEW f \in [Nat -> Nat], NEW g,
         g = CHOOSE h : h = [n \in 0..N |-> IF n = 0 THEN 0 ELSE f[h[n - 1]]]
  PROVE  /\ g[0] = 0
         /\ \A n \in 1..N : g[n] = f[g[n - 1]]
         /\ \A n \in 0..N : g[n] \in Nat
<1> DEFINE Steps(h, n) == /\ h \in [0..n -> Nat] /\ h[0] = 0
                          /\ \A i \in 1..n : h[i] = f[h[i - 1]]
           All(h) == h = [n \in 0..N |-> IF n = 0 THEN 0 ELSE f[h[n - 1]]]
           S == {n \in Nat : \E h : Steps(h, n)}
<1>1. 0 \in S
  <2>1. Steps([i \in 0..0 |-> 0], 0)
    OBVIOUS
  <2> QED
    BY <2>1
<1>2. ASSUME NEW n \in Nat, NEW h, Steps(h, n)
      PROVE  \E k : Steps(k, n + 1)
  <2> DEFINE k == [i \in 0..(n + 1) |-> IF i <= n THEN h[i] ELSE f[h[n]]]
  <2>1. h[n] \in Nat /\ f[h[n]] \in Nat
    BY <1>2
  <2>2. k \in [0..(n + 1) -> Nat] /\ k[0] = 0
    BY <1>2, <2>1
  <2>3. ASSUME NEW i \in 1..(n + 1) PROVE k[i] = f[k[i - 1]]
    <3>1. CASE i = n + 1
      BY <3>1
    <3>2. CASE i # n + 1
      <4>1. i \in 1..n /\ i - 1 \in 0..n
        BY <3>2
      <4>2. h[i] = f[h[i - 1]]
        BY <1>2, <4>1
      <4>3. k[i] = h[i] /\ k[i - 1] = h[i - 1]
        BY <4>1
      <4> QED
        BY <4>2, <4>3
    <3> QED
      BY <3>1, <3>2
  <2>4. Steps(k, n + 1)
    BY <2>2, <2>3
  <2> QED
    BY <2>4
<1>3. ASSUME NEW n \in Nat, n \in S PROVE n + 1 \in S
  <2> HIDE DEF Steps
  <2>1. PICK h : Steps(h, n)
    BY <1>3
  <2> QED
    BY <1>2, <2>1
<1>4. PICK h : Steps(h, N)
  <2> HIDE DEF S
  <2>1. N \in S
    BY <1>1, <1>3, Induction
  <2> HIDE DEF Steps
  <2> QED
    BY <2>1 DEF S
<1>5. All(h)
  <2>0. \A n \in 1..N : h[n] = f[h[n - 1]]
    BY <1>4, Zenon DEF Steps
  <2>1. ASSUME NEW n \in 0..N PROVE h[n] = IF n = 0 THEN 0 ELSE f[h[n - 1]]
    <3>1. n = 0 \/ n \in 1..N
      OBVIOUS
    <3>2. n = 0 => h[n] = 0
      BY <1>4
    <3>3. n \in 1..N => n # 0 /\ h[n] = f[h[n - 1]]
      BY <2>0
    <3> QED
      BY <3>1, <3>2, <3>3
  <2>2. h = [n \in 0..N |-> h[n]]
    BY <1>4
  <2> QED
    BY <2>1, <2>2
<1>6. All(g)
  BY <1>5
<1>7. g[0] = 0 /\ \A n \in 1..N : g[n] = f[g[n - 1]]
  <2>1. ASSUME NEW n \in 0..N PROVE g[n] = IF n = 0 THEN 0 ELSE f[g[n - 1]]
    BY <1>6
  <2>2. g[0] = 0
    BY <2>1
  <2>3. ASSUME NEW n \in 1..N PROVE g[n] = f[g[n - 1]]
    <3>1. n \in 0..N /\ n # 0
      OBVIOUS
    <3> QED
      BY <2>1, <3>1
  <2> QED
    BY <2>2, <2>3
<1>8. ASSUME NEW n \in 0..N PROVE g[n] \in Nat
  <2> DEFINE T == {k \in Nat : k <= N => g[k] \in Nat}
  <2>1. 0 \in T
    BY <1>7
  <2>2. ASSUME NEW k \in Nat, k \in T PROVE k + 1 \in T
    <3> SUFFICES ASSUME k + 1 <= N PROVE g[k + 1] \in Nat
      OBVIOUS
    <3>1. g[k] \in Nat /\ k + 1 \in 1..N /\ (k + 1) - 1 = k
      BY <2>2
    <3>2. g[k + 1] = f[g[k]]
      BY <1>7, <3>1
    <3> QED
      BY <3>1, <3>2
  <2> HIDE DEF T
  <2>3. \A k \in Nat : k \in T
    BY <2>1, <2>2, Induction
  <2>4. n \in Nat /\ n <= N
    OBVIOUS
  <2> QED
    BY <2>3, <2>4 DEF T
<1> QED
  BY <1>7, <1>8

\* g goes N times by f, which leads onward only.
GoesOn(f, g, N) == /\ N \in Nat /\ f \in [Nat -> Nat]
                   /\ \A n \in 1..N : g[n] = f[g[n - 1]]
                   /\ \A n \in 0..N : g[n] \in Nat
                   /\ \A o \in Nat : f[o] >= o

\* Where f leads onward only, what comes later is no less, and from a place that
\* leads to itself nothing else is reached.
LEMMA IterationGrows ==
  ASSUME NEW f, NEW g, NEW N, GoesOn(f, g, N), NEW k \in 0..N
  PROVE  /\ \A n \in k..N : g[n] >= g[k]
         /\ f[g[k]] = g[k] => \A n \in k..N : g[n] = g[k]
<1> DEFINE S == {d \in Nat : k + d <= N => /\ g[k + d] >= g[k]
                                           /\ f[g[k]] = g[k] => g[k + d] = g[k]}
<1> USE DEF GoesOn
<1>1. 0 \in S
  <2>1. k + 0 = k /\ g[k] \in Nat
    OBVIOUS
  <2> QED
    BY <2>1
<1>2. ASSUME NEW d \in Nat, d \in S PROVE d + 1 \in S
  <2> SUFFICES ASSUME k + (d + 1) <= N
               PROVE  /\ g[k + (d + 1)] >= g[k]
                      /\ f[g[k]] = g[k] => g[k + (d + 1)] = g[k]
    OBVIOUS
  <2>1. k + d <= N /\ k + (d + 1) \in 1..N /\ (k + (d + 1)) - 1 = k + d /\ k + d \in 0..N
    OBVIOUS
  <2>2. g[k + (d + 1)] = f[g[k + d]]
    BY <2>1
  <2>3. g[k + d] \in Nat /\ g[k] \in Nat /\ f[g[k + d]] \in Nat /\ f[g[k + d]] >= g[k + d]
    BY <2>1
  <2>4. k + d <= N => g[k + d] >= g[k] /\ (f[g[k]] = g[k] => g[k + d] = g[k])
    BY <1>2
  <2> QED
    BY <2>1, <2>2, <2>3, <2>4
<1> HIDE DEF S
<1>3. ASSUME NEW n \in k..N
      PROVE  g[n] >= g[k] /\ (f[g[k]] = g[k] => g[n] = g[k])
  <2>1. n - k \in Nat /\ k + (n - k) = n /\ n <= N
    OBVIOUS
  <2>2. \A d \in Nat : d \in S
    BY <1>1, <1>2, Induction
  <2>3. ASSUME NEW d \in Nat, d = n - k
        PROVE  k + d <= N => g[k + d] >= g[k] /\ (f[g[k]] = g[k] => g[k + d] = g[k])
    BY <2>2 DEF S
  <2> QED
    BY <2>1, <2>3
<1> QED
  BY <1>3

\* A sum is a number, and that of one number more is greater by this number.
LEMMA SumToProperties ==
  ASSUME NEW s \in Seq(Nat)
  PROVE  /\ SumTo(s, 0) = 0
         /\ \A n \in 1..Len(s) : SumTo(s, n) = SumTo(s, n - 1) + s[n]
         /\ \A n \in 0..Len(s) : SumTo(s, n) \in Nat
<1> DEFINE Sums(f, n) == /\ f \in [0..n -> Nat] /\ f[0] = 0
                         /\ \A i \in 1..n : f[i] = f[i - 1] + s[i]
           Total(f) == f = [i \in 0..Len(s) |-> IF i = 0 THEN 0 ELSE f[i - 1] + s[i]]
           S == {n \in Nat : n <= Len(s) => \E f : Sums(f, n)}
<1>0. Len(s) \in Nat /\ \A i \in 1..Len(s) : s[i] \in Nat
  OBVIOUS
<1>1. 0 \in S
  <2>1. Sums([i \in 0..0 |-> 0], 0)
    OBVIOUS
  <2> QED
    BY <2>1
<1>2. ASSUME NEW n \in Nat, n + 1 <= Len(s), NEW f, Sums(f, n)
      PROVE  \E h : Sums(h, n + 1)
  <2> DEFINE g == [i \in 0..(n + 1) |-> IF i <= n THEN f[i] ELSE f[n] + s[n + 1]]
  <2>1. s[n + 1] \in Nat /\ f[n] \in Nat
    BY <1>0, <1>2
  <2>2. g \in [0..(n + 1) -> Nat] /\ g[0] = 0
    BY <1>2, <2>1
  <2>3. ASSUME NEW i \in 1..(n + 1) PROVE g[i] = g[i - 1] + s[i]
    <3>1. CASE i = n + 1
      BY <3>1
    <3>2. CASE i # n + 1
      BY <1>2, <3>2
    <3> QED
      BY <3>1, <3>2
  <2>4. Sums(g, n + 1)
    BY <2>2, <2>3
  <2> QED
    BY <2>4
<1>3. ASSUME NEW n \in Nat, n \in S PROVE n + 1 \in S
  <2> HIDE DEF Sums
  <2>1. ASSUME n + 1 <= Len(s) PROVE \E f : Sums(f, n + 1)
    <3>1. n <= Len(s)
      BY <1>0, <2>1
    <3>2. PICK f : Sums(f, n)
      BY <1>3, <3>1
    <3> QED
      BY <1>2, <2>1, <3>2
  <2> QED
    BY <2>1
<1>4. PICK f : Sums(f, Len(s))
  <2> HIDE DEF S
  <2>1. Len(s) \in S
    BY <1>0, <1>1, <1>3, Induction
  <2> QED
    BY <2>1, <1>0 DEF S
<1>5. Total(f)
  BY <1>4, <1>0
<1> DEFINE g == CHOOSE h : Total(h)
<1>6. Total(g)
  BY <1>5
<1>7. \A n : SumTo(s, n) = g[n]
  BY DEF SumTo
<1> HIDE DEF g
<1>8. g[0] = 0 /\ \A n \in 1..Len(s) : g[n] = g[n - 1] + s[n]
  BY <1>0, <1>6
<1>9. ASSUME NEW n \in Nat PROVE n \in {k \in Nat : k <= Len(s) => g[k] \in Nat}
  <2> DEFINE T == {k \in Nat : k <= Len(s) => g[k] \in Nat}
  <2>1. 0 \in T
    BY <1>8
  <2>2. ASSUME NEW k \in Nat, k \in T PROVE k + 1 \in T
    <3> SUFFICES ASSUME k + 1 <= Len(s) PROVE g[k + 1] \in Nat
      OBVIOUS
    <3>1. g[k] \in Nat /\ s[k + 1] \in Nat /\ g[k + 1] = g[k] + s[k + 1]
      BY <1>0, <1>8, <2>2
    <3> QED
      BY <3>1
  <2> HIDE DEF T
  <2>3. n \in T
    BY <2>1, <2>2, Induction
  <2> QED
    BY <2>3 DEF T
<1>10. SumTo(s, 0) = 0
  BY <1>7, <1>8
<1>11. \A n \in 1..Len(s) : SumTo(s, n) = SumTo(s, n - 1) + s[n]
  BY <1>7, <1>8
<1>12. \A n \in 0..Len(s) : SumTo(s, n) \in Nat
  BY <1>0, <1>7, <1>9
<1> QED
  BY <1>10, <1>11, <1>12

\* A sum grows with the numbers that it takes in.
LEMMA SumToGrows ==
  ASSUME NEW s \in Seq(Nat)
  PROVE  /\ \A i, j \in 0..Len(s) : i <= j => SumTo(s, i) <= SumTo(s, j)
         /\ (\A k \in 1..Len(s) : s[k] > 0)
            => \A i, j \in 0..Len(s) : i < j => SumTo(s, i) < SumTo(s, j)
<1> DEFINE S == {d \in Nat : \A i \in 0..Len(s) :
                  i + d <= Len(s) => SumTo(s, i) <= SumTo(s, i + d)}
<1>1. /\ Len(s) \in Nat
      /\ \A n \in 1..Len(s) : s[n] \in Nat /\ SumTo(s, n) = SumTo(s, n - 1) + s[n]
      /\ \A n \in 0..Len(s) : SumTo(s, n) \in Nat
  BY SumToProperties
<1>2. ASSUME NEW d \in Nat, NEW i \in 0..Len(s), i + d + 1 <= Len(s)
      PROVE  /\ SumTo(s, i + (d + 1)) = SumTo(s, i + d) + s[i + (d + 1)]
             /\ SumTo(s, i) \in Nat /\ SumTo(s, i + d) \in Nat
             /\ s[i + (d + 1)] \in Nat
             /\ i + (d + 1) \in 1..Len(s)
  <2>1. i + d + 1 \in 1..Len(s) /\ i + d + 1 - 1 = i + d /\ i + (d + 1) = i + d + 1
    BY <1>1, <1>2
  <2>2. i + d \in 0..Len(s)
    BY <1>1, <1>2
  <2> QED
    BY <1>1, <2>1, <2>2
<1>3. ASSUME NEW d \in Nat, d \in S PROVE d + 1 \in S
  <2>1. ASSUME NEW i \in 0..Len(s), i + (d + 1) <= Len(s)
        PROVE  SumTo(s, i) <= SumTo(s, i + (d + 1))
    <3>1. i + d <= Len(s) /\ i + d + 1 <= Len(s)
      BY <1>1, <2>1
    <3>2. SumTo(s, i) <= SumTo(s, i + d)
      BY <1>3, <3>1
    <3> QED
      BY <1>2, <3>1, <3>2
  <2> QED
    BY <2>1
<1>4. 0 \in S
  <2>1. ASSUME NEW i \in 0..Len(s) PROVE SumTo(s, i) <= SumTo(s, i + 0)
    <3>1. i + 0 = i /\ SumTo(s, i) \in Nat
      BY <1>1
    <3> QED
      BY <3>1
  <2> QED
    BY <2>1
<1>5. ASSUME NEW i \in 0..Len(s), NEW j \in 0..Len(s), i <= j
      PROVE  SumTo(s, i) <= SumTo(s, j)
  <2>1. j - i \in Nat /\ i + (j - i) = j
    BY <1>1, <1>5
  <2> HIDE DEF S
  <2>2. j - i \in S
    BY <1>3, <1>4, <2>1, Induction
  <2>3. \A k \in 0..Len(s) : k + (j - i) <= Len(s) => SumTo(s, k) <= SumTo(s, k + (j - i))
    BY <2>2 DEF S
  <2> QED
    BY <1>1, <2>1, <2>3
<1>6. ASSUME \A k \in 1..Len(s) : s[k] > 0,
             NEW i \in 0..Len(s), NEW j \in 0..Len(s), i < j
      PROVE  SumTo(s, i) < SumTo(s, j)
  <2>1. j \in 1..Len(s) /\ j - 1 \in 0..Len(s) /\ i <= j - 1
    BY <1>1, <1>6
  <2>2. SumTo(s, i) <= SumTo(s, j - 1)
    BY <1>5, <2>1
  <2>3. SumTo(s, j) = SumTo(s, j - 1) + s[j] /\ s[j] > 0 /\ s[j] \in Nat
    BY <1>1, <1>6, <2>1
  <2>4. SumTo(s, i) \in Nat /\ SumTo(s, j) \in Nat /\ SumTo(s, j - 1) \in Nat
    BY <1>1, <2>1
  <2> QED
    BY <2>2, <2>3, <2>4
<1> QED
  BY <1>5, <1>6

\* Each number that w gives to an element of S as so many pairs.
OnesOf(w, S) == {p \in S \X Nat : p[2] < w[p[1]]}

\* One element more is as many pairs more as its number.
LEMMA OnesOfOneMore ==
  ASSUME NEW w, NEW S, NEW x \in S, w[x] \in Nat, IsFiniteSet(OnesOf(w, S \ {x}))
  PROVE  /\ IsFiniteSet(OnesOf(w, S))
         /\ Cardinality(OnesOf(w, S)) = w[x] + Cardinality(OnesOf(w, S \ {x}))
<1> DEFINE U == OnesOf(w, S \ {x})
           V == {x} \X (0..(w[x] - 1))
<1>1. OnesOf(w, S) = U \cup V
  BY DEF OnesOf
<1>2. U \cap V = {}
  BY DEF OnesOf
<1>3. IsFiniteSet(V) /\ Cardinality(V) = w[x]
  <2>1. IsFiniteSet({x}) /\ Cardinality({x}) = 1
    BY FS_Singleton
  <2>2. IsFiniteSet(0..(w[x] - 1)) /\ Cardinality(0..(w[x] - 1)) = w[x]
    <3>1. 0 \in Int /\ w[x] - 1 \in Int
      OBVIOUS
    <3>2. /\ IsFiniteSet(0..(w[x] - 1))
          /\ Cardinality(0..(w[x] - 1)) = IF 0 > w[x] - 1 THEN 0 ELSE w[x] - 1 - 0 + 1
      BY <3>1, FS_Interval
    <3> QED
      BY <3>2
  <2>3. IsFiniteSet(V) /\ Cardinality(V) = 1 * w[x]
    BY <2>1, <2>2, FS_Product
  <2> QED
    BY <2>3
<1> HIDE DEF U, V
<1>4. IsFiniteSet(U)
  BY DEF U
<1>5. IsFiniteSet(U \cup V) /\ Cardinality(U \cup V) = Cardinality(U) + Cardinality(V) - Cardinality(U \cap V)
  BY <1>3, <1>4, FS_Union
<1>6. Cardinality(U) \in Nat /\ Cardinality({}) = 0
  BY <1>4, FS_CardinalityType, FS_EmptySet
<1>7. Cardinality(U \cup V) = w[x] + Cardinality(U)
  <2>1. Cardinality(U \cap V) = 0
    BY <1>2, <1>6
  <2>2. PICK u \in Nat, v \in Nat : u = Cardinality(U) /\ v = Cardinality(V)
    BY <1>3, <1>6
  <2> QED
    BY <1>3, <1>5, <2>1, <2>2
<1> QED
  BY <1>1, <1>5, <1>7 DEF U

\* The numbers of finitely many elements are finitely many pairs.
LEMMA OnesAreFinite ==
  ASSUME NEW w, NEW S, IsFiniteSet(S), \A e \in S : w[e] \in Nat
  PROVE  \A s \in SUBSET S : IsFiniteSet(OnesOf(w, s)) /\ Cardinality(OnesOf(w, s)) \in Nat
<1> DEFINE T == {n \in Nat : \A s \in SUBSET S : Cardinality(s) = n => IsFiniteSet(OnesOf(w, s))}
<1>1. \A s \in SUBSET S : IsFiniteSet(s) /\ Cardinality(s) \in Nat
  BY FS_Subset, FS_CardinalityType
<1>2. 0 \in T
  <2>1. ASSUME NEW s \in SUBSET S, Cardinality(s) = 0 PROVE IsFiniteSet(OnesOf(w, s))
    <3>1. s = {}
      BY <1>1, <2>1, FS_EmptySet
    <3>2. OnesOf(w, s) = {}
      BY <3>1 DEF OnesOf
    <3> QED
      BY <3>2, FS_EmptySet
  <2> QED
    BY <2>1
<1>3. ASSUME NEW n \in Nat, n \in T PROVE n + 1 \in T
  <2>1. ASSUME NEW s \in SUBSET S, Cardinality(s) = n + 1 PROVE IsFiniteSet(OnesOf(w, s))
    <3>1. IsFiniteSet(s) /\ s # {}
      BY <1>1, <2>1, FS_EmptySet
    <3>2. PICK x \in s : TRUE
      BY <3>1
    <3>3. Cardinality(s \ {x}) = n
      <4>1. Cardinality(s \ {x}) = Cardinality(s) - 1
        BY <3>1, <3>2, FS_RemoveElement
      <4> QED
        BY <2>1, <4>1
    <3>4. IsFiniteSet(OnesOf(w, s \ {x}))
      BY <1>3, <3>3
    <3> QED
      BY <3>2, <3>4, OnesOfOneMore
  <2> QED
    BY <2>1
<1> HIDE DEF T
<1>4. \A n \in Nat : n \in T
  BY <1>2, <1>3, Induction
<1>5. \A s \in SUBSET S : IsFiniteSet(OnesOf(w, s))
  BY <1>1, <1>4 DEF T
<1> QED
  BY <1>5, FS_CardinalityType

\* SumFunctionOnSet adds up the numbers, in whatever order it takes the elements.
LEMMA SumCountsOnes ==
  ASSUME NEW w, NEW S, IsFiniteSet(S), \A e \in S : w[e] \in Nat
  PROVE  SumFunctionOnSet(w, S) = Cardinality(OnesOf(w, S))
<1> DEFINE next(s) == CHOOSE x \in s : TRUE
           Sums(g) == g = [s \in SUBSET S |-> IF s = {} THEN 0
                                              ELSE w[next(s)] + g[s \ {next(s)}]]
           ones == [s \in SUBSET S |-> Cardinality(OnesOf(w, s))]
           sum == CHOOSE g : Sums(g)
<1>1. SumFunctionOnSet(w, S) = sum[S]
  BY DEF SumFunctionOnSet, FoldFunctionOnSet, MapThenFoldSet
<1>2. \A s \in SUBSET S : s # {} => next(s) \in s
  OBVIOUS
<1>3. \A s \in SUBSET S : IsFiniteSet(OnesOf(w, s))
  BY OnesAreFinite
<1>4. Cardinality(OnesOf(w, {})) = 0
  <2>1. OnesOf(w, {}) = {}
    BY DEF OnesOf
  <2> QED
    BY <2>1, FS_EmptySet
<1> HIDE DEF next
<1>5. ASSUME NEW s \in SUBSET S, s # {}
      PROVE  Cardinality(OnesOf(w, s)) = w[next(s)] + Cardinality(OnesOf(w, s \ {next(s)}))
  <2>1. PICK x \in s : x = next(s)
    BY <1>2, <1>5
  <2>2. s \ {x} \in SUBSET S
    OBVIOUS
  <2>3. IsFiniteSet(OnesOf(w, s \ {x})) /\ w[x] \in Nat
    BY <1>3, <2>2
  <2> QED
    BY <2>1, <2>3, OnesOfOneMore
<1>6. Sums(ones)
  BY <1>2, <1>4, <1>5
<1>7. Sums(sum)
  BY <1>6
<1> HIDE DEF sum
<1> DEFINE T == {n \in Nat : \A s \in SUBSET S :
                   Cardinality(s) = n => sum[s] = Cardinality(OnesOf(w, s))}
<1>8. \A s \in SUBSET S : IsFiniteSet(s) /\ Cardinality(s) \in Nat
  BY FS_Subset, FS_CardinalityType
<1>9. 0 \in T
  <2>1. ASSUME NEW s \in SUBSET S, Cardinality(s) = 0 PROVE sum[s] = Cardinality(OnesOf(w, s))
    <3>1. s = {}
      BY <1>8, <2>1, FS_EmptySet
    <3> QED
      BY <1>4, <1>7, <3>1
  <2> QED
    BY <2>1
<1>10. ASSUME NEW n \in Nat, n \in T PROVE n + 1 \in T
  <2>1. ASSUME NEW s \in SUBSET S, Cardinality(s) = n + 1
        PROVE  sum[s] = Cardinality(OnesOf(w, s))
    <3>1. IsFiniteSet(s) /\ s # {}
      BY <1>8, <2>1, FS_EmptySet
    <3>2. PICK x \in s : x = next(s)
      BY <1>2, <3>1
    <3>3. Cardinality(s \ {x}) = n
      <4>1. Cardinality(s \ {x}) = Cardinality(s) - 1
        BY <3>1, <3>2, FS_RemoveElement
      <4> QED
        BY <2>1, <4>1
    <3>4. sum[s \ {x}] = Cardinality(OnesOf(w, s \ {x}))
      BY <1>10, <3>3
    <3>5. sum[s] = w[x] + sum[s \ {x}]
      BY <1>7, <3>1, <3>2
    <3> QED
      BY <1>5, <3>1, <3>2, <3>4, <3>5
  <2> QED
    BY <2>1
<1> HIDE DEF T
<1>11. \A n \in Nat : n \in T
  BY <1>9, <1>10, Induction
<1>12. sum[S] = Cardinality(OnesOf(w, S))
  BY <1>8, <1>11 DEF T
<1> QED
  BY <1>1, <1>12

\* The sum over a set is the number of one element and the sum over the others.
LEMMA SumOverSet ==
  ASSUME NEW w, NEW S, IsFiniteSet(S), \A e \in S : w[e] \in Nat
  PROVE  /\ SumFunctionOnSet(w, S) \in Nat
         /\ S = {} => SumFunctionOnSet(w, S) = 0
         /\ \A x \in S : SumFunctionOnSet(w, S) = w[x] + SumFunctionOnSet(w, S \ {x})
<1>1. SumFunctionOnSet(w, S) = Cardinality(OnesOf(w, S))
  BY SumCountsOnes
<1>2. \A s \in SUBSET S : IsFiniteSet(OnesOf(w, s)) /\ Cardinality(OnesOf(w, s)) \in Nat
  BY OnesAreFinite
<1>3. ASSUME S = {} PROVE Cardinality(OnesOf(w, S)) = 0
  <2>1. OnesOf(w, S) = {}
    BY <1>3 DEF OnesOf
  <2> QED
    BY <2>1, FS_EmptySet
<1>4. ASSUME NEW x \in S PROVE SumFunctionOnSet(w, S) = w[x] + SumFunctionOnSet(w, S \ {x})
  <2>1. IsFiniteSet(S \ {x})
    BY FS_Subset
  <2>2. SumFunctionOnSet(w, S \ {x}) = Cardinality(OnesOf(w, S \ {x}))
    BY <2>1, SumCountsOnes
  <2>3. Cardinality(OnesOf(w, S)) = w[x] + Cardinality(OnesOf(w, S \ {x}))
    <3>1. IsFiniteSet(OnesOf(w, S \ {x})) /\ w[x] \in Nat
      BY <1>2
    <3> QED
      BY <3>1, OnesOfOneMore
  <2> QED
    BY <1>1, <2>2, <2>3
<1> QED
  BY <1>1, <1>2, <1>3, <1>4

\* The first number of a sequence and the others.
LEMMA SumOfTail ==
  ASSUME NEW s \in Seq(Nat), s # <<>>
  PROVE  Sum(s) = Head(s) + Sum(Tail(s)) /\ Sum(s) \in Nat /\ Sum(Tail(s)) \in Nat
<1>1. PICK t \in Seq(Nat) : t = Tail(s)
  <2>1. Tail(s) \in Seq(Nat)
    OBVIOUS
  <2> QED
    BY <2>1
<1>2. PICK n \in Nat : n = Len(t)
  OBVIOUS
<1>3. Len(s) = n + 1 /\ Head(s) = s[1] /\ s[1] \in Nat /\ \A i \in 1..n : t[i] = s[i + 1]
  BY <1>1, <1>2
<1>4. /\ SumTo(s, 0) = 0
      /\ \A i \in 1..(n + 1) : SumTo(s, i) = SumTo(s, i - 1) + s[i]
      /\ \A i \in 0..(n + 1) : SumTo(s, i) \in Nat
  BY <1>3, SumToProperties
<1>5. /\ SumTo(t, 0) = 0
      /\ \A i \in 1..n : SumTo(t, i) = SumTo(t, i - 1) + t[i]
      /\ \A i \in 0..n : SumTo(t, i) \in Nat
  BY <1>2, SumToProperties
<1> DEFINE T == {i \in Nat : i <= n => SumTo(s, i + 1) = s[1] + SumTo(t, i)}
<1>6. 0 \in T
  <2>1. SumTo(s, 1) = SumTo(s, 1 - 1) + s[1]
    BY <1>4
  <2>2. 1 - 1 = 0 /\ 0 + 1 = 1
    OBVIOUS
  <2> QED
    BY <1>3, <1>4, <1>5, <2>1, <2>2
<1>7. ASSUME NEW i \in Nat, i \in T PROVE i + 1 \in T
  <2> SUFFICES ASSUME i + 1 <= n PROVE SumTo(s, (i + 1) + 1) = s[1] + SumTo(t, i + 1)
    OBVIOUS
  <2>1. SumTo(s, i + 1) = s[1] + SumTo(t, i)
    BY <1>7
  <2>2. (i + 1) + 1 \in 1..(n + 1) /\ ((i + 1) + 1) - 1 = i + 1 /\ i + 1 \in 1..n /\ (i + 1) - 1 = i
    OBVIOUS
  <2>3. SumTo(s, (i + 1) + 1) = SumTo(s, i + 1) + s[(i + 1) + 1]
    BY <1>4, <2>2
  <2>4. SumTo(t, i + 1) = SumTo(t, i) + t[i + 1] /\ t[i + 1] = s[(i + 1) + 1]
    BY <1>3, <1>5, <2>2
  <2>5. t[i + 1] \in Nat /\ SumTo(t, i) \in Nat
    BY <1>2, <1>5, <2>2
  <2> QED
    BY <1>3, <2>1, <2>3, <2>4, <2>5
<1> HIDE DEF T
<1>8. n \in T
  BY <1>6, <1>7, Induction
<1> QED
  BY <1>1, <1>2, <1>3, <1>4, <1>5, <1>8 DEF T, Sum

\* The sum knows only the numbers of the set.
LEMMA SumOfSame ==
  ASSUME NEW v, NEW w, NEW S, IsFiniteSet(S), \A e \in S : w[e] \in Nat /\ v[e] = w[e]
  PROVE  SumFunctionOnSet(v, S) = SumFunctionOnSet(w, S)
<1>1. OnesOf(v, S) = OnesOf(w, S)
  BY DEF OnesOf
<1>2. \A e \in S : v[e] \in Nat
  OBVIOUS
<1> QED
  BY <1>1, <1>2, SumCountsOnes

\* The first element of a sequence and the others, each with its number.
LEMMA SumOfMapped ==
  ASSUME NEW S, NEW h \in [S -> Nat], NEW w \in Seq(S)
  PROVE  LET sum(s) == Sum([k \in DOMAIN s |-> h[s[k]]])
         IN  /\ sum(w) \in Nat
             /\ w = <<>> => sum(w) = 0
             /\ w # <<>> => sum(w) = h[Head(w)] + sum(Tail(w))
<1> DEFINE numbers(s) == [k \in DOMAIN s |-> h[s[k]]]
<1>1. PICK n \in Nat : n = Len(w)
  OBVIOUS
<1>2. DOMAIN w = 1..n /\ \A k \in 1..n : w[k] \in S
  BY <1>1
<1>3. numbers(w) \in Seq(Nat) /\ Len(numbers(w)) = n
  <2>1. numbers(w) = [k \in 1..n |-> h[w[k]]]
    BY <1>2
  <2>2. \A k \in 1..n : h[w[k]] \in Nat
    BY <1>2
  <2> QED
    BY <2>1, <2>2
<1>4. ASSUME w = <<>> PROVE Sum(numbers(w)) = 0
  <2>1. n = 0
    BY <1>1, <1>4
  <2>2. SumTo(numbers(w), 0) = 0
    BY <1>3, SumToProperties
  <2> QED
    BY <1>3, <2>1, <2>2 DEF Sum
<1>5. ASSUME w # <<>>
      PROVE  Sum(numbers(w)) = h[Head(w)] + Sum(numbers(Tail(w))) /\ Sum(numbers(w)) \in Nat
  <2>1. PICK t \in Seq(S) : t = Tail(w)
    <3>1. Tail(w) \in Seq(S)
      BY <1>5
    <3> QED
      BY <3>1
  <2>2. n # 0 /\ Len(t) = n - 1 /\ Head(w) = w[1] /\ \A k \in 1..(n - 1) : t[k] = w[k + 1]
    BY <1>1, <1>5, <2>1
  <2>3. DOMAIN t = 1..(n - 1)
    BY <2>1, <2>2
  <2>4. PICK u \in Seq(Nat) : u = numbers(w)
    BY <1>3
  <2>5. u # <<>> /\ Head(u) = h[w[1]] /\ Len(u) = n /\ \A k \in 1..n : u[k] = h[w[k]]
    <3>1. Len(u) = n /\ \A k \in 1..n : u[k] = h[w[k]]
      BY <1>2, <1>3, <2>4
    <3> QED
      BY <2>2, <3>1
  <2>6. Tail(u) = numbers(t)
    <3>1. \A k \in 1..(n - 1) : Tail(u)[k] = u[k + 1] /\ k + 1 \in 1..n
      BY <2>2, <2>5
    <3>2. Tail(u) = [k \in 1..(n - 1) |-> Tail(u)[k]]
      <4>1. Tail(u) \in Seq(Nat) /\ Len(Tail(u)) = n - 1
        BY <2>2, <2>5
      <4>2. \A v \in Seq(Nat) : v = [k \in 1..Len(v) |-> v[k]]
        OBVIOUS
      <4> QED
        BY <4>1, <4>2
    <3>3. \A k \in 1..(n - 1) : Tail(u)[k] = h[t[k]]
      BY <2>2, <2>5, <3>1
    <3> HIDE DEF numbers
    <3>4. numbers(t) = [k \in 1..(n - 1) |-> h[t[k]]]
      BY <2>3 DEF numbers
    <3> QED
      BY <3>2, <3>3, <3>4
  <2> HIDE DEF numbers
  <2>7. Sum(u) = Head(u) + Sum(Tail(u)) /\ Sum(u) \in Nat
    BY <2>5, SumOfTail
  <2> QED
    BY <2>1, <2>2, <2>4, <2>5, <2>6, <2>7
<1> HIDE DEF numbers
<1>6. Sum(numbers(w)) \in Nat
  BY <1>4, <1>5
<1> QED
  BY <1>4, <1>5, <1>6 DEF numbers

\* How often a length goes into a size.
LEMMA QuotientOf ==
  ASSUME NEW size \in Nat, NEW length \in Nat, NEW n \in Nat,
         n * length <= size, size < n * length + length
  PROVE  n = size \div length
<1>1. length > 0
  OBVIOUS
<1> DEFINE q == size \div length
           r == size % length
<1>2. q \in Nat /\ r \in 0..(length - 1) /\ size = length * q + r
  BY <1>1
<1> HIDE DEF q, r
<1>3. CASE n < q
  <2>1. PICK d \in Nat : q = n + 1 + d
    BY <1>2, <1>3
  <2>2. length * q = n * length + length + length * d /\ length * d >= 0
    BY <2>1
  <2> QED
    BY <1>2, <2>2
<1>4. CASE q < n
  <2>1. PICK d \in Nat : n = q + 1 + d
    BY <1>2, <1>4
  <2>2. n * length = (q + 1 + d) * length
    BY <2>1
  <2>3. (q + 1 + d) * length = length * q + length + length * d /\ length * d >= 0
    BY <1>2
  <2> QED
    BY <1>2, <2>2, <2>3
<1> QED
  BY <1>2, <1>3, <1>4 DEF q

\* What is left of a number of more bits than are kept of it.
LEMMA RemainderIsSmall ==
  ASSUME NEW size \in Nat, size > 0, NEW n \in Nat
  PROVE  n % size \in 0..(size - 1) /\ n % size <= n /\ (n < size => n % size = n)
<1>1. n % size \in 0..(size - 1)
  OBVIOUS
<1>2. n < size => n % size = n
  OBVIOUS
<1>3. n % size <= n
  BY <1>1, <1>2
<1> QED
  BY <1>1, <1>2, <1>3

\* A counter of a given size wraps at its ends and nowhere else.
LEMMA CounterWraps ==
  ASSUME NEW size \in Nat, size > 1, NEW n \in 0..(size - 1)
  PROVE  /\ (n + 1) % size = IF n = size - 1 THEN 0 ELSE n + 1
         /\ (n - 1) % size = IF n = 0 THEN size - 1 ELSE n - 1
         /\ (n + 1) % size \in 0..(size - 1) /\ (n - 1) % size \in 0..(size - 1)
<1>1. \A a \in 0..(size - 1) : a % size = a
  OBVIOUS
<1>2. size % size = 0
  OBVIOUS
<1>3. (-1) % size = size - 1
  OBVIOUS
<1>4. (n + 1) % size = IF n = size - 1 THEN 0 ELSE n + 1
  BY <1>1, <1>2
<1>5. (n - 1) % size = IF n = 0 THEN size - 1 ELSE n - 1
  BY <1>1, <1>3
<1> QED
  BY <1>4, <1>5
=============================================================================
