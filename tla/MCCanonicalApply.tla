-------------------------- MODULE MCCanonicalApply --------------------------
\* Two families: keeper k changes letter case (two steps through a temporary
\* name) before its dependant d is quarantined; keeper s stays where it is and
\* has the dependant e.
EXTENDS CanonicalApply, TLC

CONSTANTS k, d, s, e, kOld, kTemp, kNew, dOld, dQuarantine, sOld, eOld, eQuarantine

MCArchives == {k, d, s, e}
MCPaths == {kOld, kTemp, kNew, dOld, dQuarantine, sOld, eOld, eQuarantine}
MCFold == [p \in MCPaths |-> IF p = kNew THEN kOld ELSE p]
MCChain ==
    (k :> <<kOld, kTemp, kNew>>) @@ (d :> <<dOld, dQuarantine>>)
        @@ (s :> <<sOld>>) @@ (e :> <<eOld, eQuarantine>>)
MCKeeper == (k :> k) @@ (d :> k) @@ (s :> s) @@ (e :> s)
MCPlace == (k :> 1) @@ (d :> 2) @@ (s :> 3) @@ (e :> 4)

=============================================================================
