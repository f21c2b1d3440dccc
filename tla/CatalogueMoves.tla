--------------------------- MODULE CatalogueMoves ---------------------------
(***************************************************************************)
(* What applying and undoing a plan promises a reader of the catalogue:    *)
(* every file_locations row walks its archive's chain one step at a time,  *)
(* forward, and at most once back; a dependant leaves the library only     *)
(* when its keeper has arrived.                                            *)
(***************************************************************************)
EXTENDS Naturals, Sequences

CONSTANTS Archives, Chain, Keeper

VARIABLES
    at,    \* the path in an archive's row
    back   \* whether an undo has moved it

vars == <<at, back>>

Init ==
    /\ at = [a \in Archives |-> Chain[a][1]]
    /\ back = [a \in Archives |-> FALSE]

Arrived(a) == ~back[a] /\ at[a] = Chain[a][Len(Chain[a])]

Forth(a) ==
    /\ ~back[a]
    /\ a # Keeper[a] => Arrived(Keeper[a])
    /\ \E i \in 1 .. Len(Chain[a]) - 1 :
        at[a] = Chain[a][i] /\ at' = [at EXCEPT ![a] = Chain[a][i + 1]]
    /\ UNCHANGED back

\* Only what has arrived is taken back.
Back(a) ==
    /\ back[a] \/ Arrived(a)
    /\ \E i \in 1 .. Len(Chain[a]) - 1 :
        at[a] = Chain[a][i + 1] /\ at' = [at EXCEPT ![a] = Chain[a][i]]
    /\ back' = [back EXCEPT ![a] = TRUE]

Next == \E a \in Archives : Forth(a) \/ Back(a)

Spec == Init /\ [][Next]_vars
=============================================================================
