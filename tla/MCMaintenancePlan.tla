-------------------------- MODULE MCMaintenancePlan --------------------------
\* One series folder with two archives; the clean name of 1 is the name 2.
EXTENDS MaintenancePlan, TLC

MCCleanToken == 1 :> 2 @@ 2 :> 2 @@ 3 :> 3
MCNameKey == 1 :> "k" @@ 2 :> "k" @@ 3 :> "l"
MCIssueKey == "u" :> "i" @@ "v" :> "i"
=============================================================================
