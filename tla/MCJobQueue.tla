----------------------------- MODULE MCJobQueue -----------------------------
(* Instances of JobQueue for TLC. *)
EXTENDS JobQueue, TLC

CONSTANTS s1, s2, c1, k1, idS1, idCli

ServiceAndCli == {s1, c1}
TwoServices == {s1, s2}
IdOfServiceAndCli == (s1 :> idS1) @@ (c1 :> idCli)
IdOfOneService == [w \in Workers |-> idS1]
IdOfItself == [w \in Workers |-> w]
ServesServiceAndCli == (s1 :> {k1, NoKey}) @@ (c1 :> {k1})
ServesAll == [w \in Workers |-> Keys \cup {NoKey}]

OneService == {s1}
SymmetricServices == Permutations({s1, s2})
=============================================================================
