------------------------------ MODULE MCDataLoader ------------------------------
(***************************************************************************)
(* Plain files of up to MaxBytes bytes and compressed files of up to       *)
(* MaxTokens tokens, recorded with any size up to one more.                *)
(***************************************************************************)
EXTENDS DataLoader

CONSTANTS MaxBytes, MaxTokens

\* The i-th byte of a file is the number i.
Plain == {[kind |-> "plain", content |-> [i \in 1..n |-> i], size |-> s, shortName |-> FALSE] :
            n \in 0..MaxBytes, s \in 0..MaxBytes + 1}

Tokens(n) == {[i \in 1..n |-> IF c[i] = 0 THEN i ELSE c[i]] : c \in [1..n -> {0, END, BAD}]}

Compressed == {[kind |-> "bz2", content |-> c, size |-> s, shortName |-> FALSE] :
                 c \in UNION {Tokens(n) : n \in 0..MaxTokens}, s \in 0..MaxTokens + 1}

ShortNamed == [kind |-> "plain", content |-> <<1, 2>>, size |-> 2, shortName |-> TRUE]

MCFiles == Plain \cup Compressed \cup {ShortNamed}
MCRequests == 0..3
=============================================================================
