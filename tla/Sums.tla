--------------------------------- MODULE Sums ---------------------------------
(* Sums of sequences of numbers, as the sizes of what lies one behind the     *)
(* other.                                                                     *)
EXTENDS Naturals, Sequences

\* The sum of the first n numbers.
SumTo(s, n) == LET sum[i \in 0..Len(s)] == IF i = 0 THEN 0 ELSE sum[i - 1] + s[i]
               IN  sum[n]

Sum(s) == SumTo(s, Len(s))
=============================================================================
