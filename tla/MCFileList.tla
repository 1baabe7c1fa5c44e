------------------------------ MODULE MCFileList ------------------------------
(* A small directory tree: a root with a file, a nested directory and an     *)
(* unreadable one.  Two files have the same time, one file is empty and one  *)
(* lies outside the time window.                                             *)
EXTENDS FileList, TLC

CONSTANTS t1, t2, t3, root, sub, locked, early, late1, late2, empty, old, hidden

MCDirs == {root, sub, locked}
MCFiles == {early, late1, late2, empty, old, hidden}
MCEntries == root :> {late1, empty, sub, locked} @@ sub :> {early, late2, old}
             @@ locked :> {hidden}
NestedDirs == <<root, sub>>

MCSize == [f \in MCFiles |-> IF f = empty THEN 0 ELSE 1]
MCNameTime == [f \in MCFiles |-> IF f = early THEN 2
                                 ELSE IF f = late2 THEN 3 ELSE NoTime]
MCMTime == [f \in MCFiles |-> IF f = late1 THEN 3 ELSE IF f = old THEN 0 ELSE 9]
=============================================================================
