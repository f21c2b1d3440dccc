-------------------------- MODULE MCWatcherTracker --------------------------
(* Small watch trees for WatcherTracker.                                   *)
EXTENDS WatcherTracker, TLC

CONSTANTS Series, Nested, Raw, Clean, A, B

\* One series directory.
OneUnder == [d \in Dirs |-> {d}]
\* A drop point with archives of its own and a directory below it.
NestedUnder == (Series :> {Series, Nested}) @@ (Nested :> {Nested})
SameName == [d \in Dirs |-> d]
\* The pass gives Raw the name Clean.
CleanedName == [d \in Dirs |-> Clean]

BothInSeries == [a \in Archives |-> Series]
OneInEach == (A :> Series) @@ (B :> Nested)
AllRaw == [a \in Archives |-> Raw]

\* Timer threads are alike, and so are archives with one home.
ThreadSymmetry == Permutations(TimerThreads)
ThreadAndArchiveSymmetry == Permutations(TimerThreads) \cup Permutations(Archives)
=============================================================================
