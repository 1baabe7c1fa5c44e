------------------------------- MODULE ByteStream -------------------------------
(***************************************************************************)
(* What the reader of a file expects of data_loader_get_data: each call    *)
(* hands out the bytes that come next, as many as were asked for or as     *)
(* there are left.  A file that may be cut short yields nothing any more   *)
(* once it was.                                                            *)
(***************************************************************************)
EXTENDS Naturals, Sequences

VARIABLES payload,  \* the bytes of the file, decompressed
          mayBeCut, \* may the file be cut short?
          cut,      \* it was
          served,   \* the bytes handed out
          asked,    \* the last request
          answer    \* the number of bytes handed out for it

vars == <<payload, mayBeCut, cut, served, asked, answer>>

Init == cut \in {FALSE, mayBeCut} /\ served = <<>> /\ asked = 0 /\ answer = 0

Rest == Len(payload) - Len(served)

Serve(n) == /\ answer' = n
            /\ served' = SubSeq(payload, 1, Len(served) + n)

Get(n) == /\ ~cut
          /\ Serve(IF n < Rest THEN n ELSE Rest)
          /\ UNCHANGED cut

CutShort(n) == /\ mayBeCut /\ ~cut
               /\ \E k \in 0..n : k <= Rest /\ Serve(k)
               /\ cut' = TRUE

GetNothing(n) == cut /\ answer' = 0 /\ UNCHANGED <<cut, served>>

Next == /\ asked' \in Nat
        /\ Get(asked') \/ CutShort(asked') \/ GetNothing(asked')
        /\ UNCHANGED <<payload, mayBeCut>>

Spec == Init /\ [][Next]_vars
=============================================================================
