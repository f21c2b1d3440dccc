---------------------------- MODULE JobLifecycle ----------------------------
(***************************************************************************)
(* What jobs/queue.py promises about each job, with no worker, clock or    *)
(* operator in sight: it is tried at most MaxAttempts times, it is only    *)
(* put back while a try is left, and once settled it stays settled.        *)
(* Jobs move independently, several of them possibly in one step.          *)
(***************************************************************************)
EXTENDS Naturals

CONSTANTS Jobs, MaxAttempts

VARIABLES phase, tries

vars == <<phase, tries>>

Init ==
    /\ phase = [j \in Jobs |-> "none"]
    /\ tries = [j \in Jobs |-> 0]

Moves(j, from, to) == phase[j] = from /\ phase'[j] = to /\ tries'[j] = tries[j]

Submit(j) == Moves(j, "none", "pending")
Withdraw(j) == Moves(j, "pending", "settled")
Settle(j) == Moves(j, "held", "settled")
Return(j) == Moves(j, "held", "pending") /\ tries[j] < MaxAttempts
Stay(j) == phase'[j] = phase[j] /\ tries'[j] = tries[j]

Take(j) ==
    /\ phase[j] = "pending"
    /\ tries[j] < MaxAttempts
    /\ phase'[j] = "held"
    /\ tries'[j] = tries[j] + 1

Next ==
    /\ \A j \in Jobs :
        Submit(j) \/ Withdraw(j) \/ Take(j) \/ Settle(j) \/ Return(j) \/ Stay(j)
    /\ DOMAIN phase' = Jobs /\ DOMAIN tries' = Jobs

Spec == Init /\ [][Next]_vars
=============================================================================
