-------------------------- MODULE MCNetflowConverter --------------------------
(* A directory with a file and a configured subdirectory with another, which *)
(* is compressed and comes into the list twice; each file holds up to        *)
(* MaxPackets packets.                                                       *)
EXTENDS NetflowConverter, TLC

CONSTANTS root, sub, a, b

MCThreads == 1..ThreadCount
MCFiles == {a, b}
MCEntries == root :> {a, sub} @@ sub :> {b}
MCDirList == <<root, sub>>
MCSize == [f \in MCFiles |-> 1]
MCNameTime == a :> 1 @@ b :> NoTime
MCMTime == [f \in MCFiles |-> 2]
=============================================================================
