------------------------------ MODULE WorkQueue ------------------------------
(***************************************************************************)
(* What the file list promises to the converter threads, whatever its      *)
(* locks and iterators: the items are queued in the order of their keys,   *)
(* every item is handed out once, in that order, and a worker is told that *)
(* there is nothing left only when there is nothing left.                  *)
(***************************************************************************)
EXTENDS Integers, Sequences, SequencesExt

CONSTANTS Workers,  \* who takes the items
          Items,    \* what may be queued
          Key(_)    \* the order of the queue

VARIABLES queue,    \* the items, first to go first
          open,     \* taking has begun: the queue is closed to new items
          handed,   \* who was given what, in order
          finished  \* the workers that were told there is nothing left

vars == <<queue, open, handed, finished>>

Init == /\ queue = <<>>
        /\ open = FALSE
        /\ handed = <<>>
        /\ finished = {}

\* An item is queued behind those whose keys are not greater.
Put(x) == /\ ~open
          /\ \E k \in 1..(Len(queue) + 1) :
                /\ \A i \in 1..(k - 1) : Key(queue[i]) <= Key(x)
                /\ \A i \in k..Len(queue) : Key(x) < Key(queue[i])
                /\ queue' = InsertAt(queue, k, x)
          /\ UNCHANGED <<open, handed, finished>>

Start == /\ ~open
         /\ open' = TRUE
         /\ UNCHANGED <<queue, handed, finished>>

Take(w) == /\ open
           /\ w \notin finished
           /\ Len(handed) < Len(queue)
           /\ handed' = Append(handed, <<w, queue[Len(handed) + 1]>>)
           /\ UNCHANGED <<queue, open, finished>>

Finish(w) == /\ open
             /\ w \notin finished
             /\ Len(handed) = Len(queue)
             /\ finished' = finished \cup {w}
             /\ UNCHANGED <<queue, open, handed>>

Next == \/ \E x \in Items : Put(x)
        \/ Start
        \/ \E w \in Workers : Take(w) \/ Finish(w)

Spec == Init /\ [][Next]_vars

\* The workers drain the queue and are all dismissed.
Drained == <>(Len(handed) = Len(queue) /\ finished = Workers)
=============================================================================
