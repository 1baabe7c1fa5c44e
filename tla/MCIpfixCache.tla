----------------------------- MODULE MCIpfixCache -----------------------------
(* Threads that read the same template definitions in any order.  The        *)
(* threads, and the field lists on the heap, are interchangeable.            *)
EXTENDS IpfixCache, TLC

Symmetry == Permutations(Threads) \cup Permutations(Cells)
=============================================================================
