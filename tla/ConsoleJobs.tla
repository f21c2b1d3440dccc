---------------------------- MODULE ConsoleJobs ----------------------------
(***************************************************************************)
(* The console's job ledger (web/jobs): the admission of a tool run, the   *)
(* detached runner that claims it, starts one contained native tool and    *)
(* supervises it, the exit receipt, and the console's reconciler, which    *)
(* recovers the rows whose runner died.                                    *)
(*                                                                         *)
(* Jobs are numbered in the order of their admission.  A row's             *)
(* state_version is left out: no state is entered twice, so a fence on the *)
(* version is a fence on the state.  Whatever may go wrong outside the     *)
(* code (a storage or native call that fails, evidence that cannot be      *)
(* read, a process that dies) counts in trouble.                           *)
(***************************************************************************)
EXTENDS Naturals, FiniteSets

CONSTANTS MaxJobs,     \* admissions: a bound of the model
          Kinds,       \* kinds of tool: "reader" and "writer" are tasks
          MaxTrouble   \* failures and deaths: a bound of the model

ASSUME ConsoleAssumption ==
    /\ MaxJobs \in Nat
    /\ Kinds \subseteq {"reader", "writer", "service"}
    /\ MaxTrouble \in Nat

Jobs == 1..MaxJobs

VARIABLES
    state,     \* the ledger row's state
    kind,      \* the row's kind and readonly columns
    due,       \* the rows whose claim deadline has passed
    recorded,  \* the rows whose child columns are filled
    receipt,   \* exit.json, or its orphaned temporary file
    pc,        \* where the submission and the runner stand
    owned,     \* the runner's handles on the native job
    native,    \* the tool: its root process and the descendants
    code,      \* what the outcome mapper says of the root's exit code
    log,       \* the log pump and its index
    reason,    \* the runners that hold a reason to doubt: it is sticky
    saved,     \* what the runner knows to be durable
    op,        \* the one I/O operation in flight
    answer,    \* its result, until the runner collects it
    console,   \* the console process, and whether it is ready to admit
    pass,      \* its reconciler's pass
    page,      \* and the rows the pass has still to visit
    trouble    \* failures and deaths so far

row == <<state, kind, due, recorded>>
tool == <<owned, native, code, log>>
memory == <<reason, saved, op, answer>>
reconciler == <<console, pass, page>>
vars == <<row, receipt, pc, tool, memory, reconciler, trouble>>

Holding == {"admitted", "claimed", "running", "uncertain"}
Freed == {"admission_expired", "refused", "succeeded", "failed", "lost"}
Alive == {"live", "rootgone"}
Operations == {"running", "publish", "finalize", "hold", "release", "refresh"}

LedgerTyped ==
    /\ state \in [Jobs -> Holding \cup Freed \cup {"none"}]
    /\ kind \in [Jobs -> Kinds \cup {"none"}]
    /\ due \subseteq Jobs /\ recorded \subseteq Jobs
    /\ receipt \in [Jobs -> {"none", "torn", "succeeded", "failed"}]

RunnersTyped ==
    /\ pc \in [Jobs -> {"none", "submitted", "spawned", "claimed", "prepared",
                        "supervising", "done", "dead"}]
    /\ reason \subseteq Jobs
    /\ saved \in [Jobs -> SUBSET {"running", "uncertain", "published", "terminal"}]
    /\ op \in [Jobs -> Operations \cup {"none"}]
    /\ answer \in [Jobs -> {"none", "ok", "error", "changed"}]

ToolsTyped ==
    /\ owned \in [Jobs -> {"none", "open", "closed"}]
    /\ native \in [Jobs -> {"none", "live", "rootgone", "ended"}]
    /\ code \in [Jobs -> {"none", "succeeded", "failed"}]
    /\ log \in [Jobs -> {"none", "open", "broken", "complete", "incomplete"}]

ConsoleTyped ==
    /\ console \in {"down", "unready", "ready"}
    /\ pass \in {"idle", "expired", "visiting"}
    /\ page \subseteq (Jobs \X {"claimed", "running"})
    /\ trouble \in 0..MaxTrouble

TypeOK == LedgerTyped /\ RunnersTyped /\ ToolsTyped /\ ConsoleTyped

Init ==
    /\ state = [j \in Jobs |-> "none"]
    /\ kind = [j \in Jobs |-> "none"]
    /\ due = {}
    /\ recorded = {}
    /\ receipt = [j \in Jobs |-> "none"]
    /\ pc = [j \in Jobs |-> "none"]
    /\ owned = [j \in Jobs |-> "none"]
    /\ native = [j \in Jobs |-> "none"]
    /\ code = [j \in Jobs |-> "none"]
    /\ log = [j \in Jobs |-> "none"]
    /\ reason = {}
    /\ saved = [j \in Jobs |-> {}]
    /\ op = [j \in Jobs |-> "none"]
    /\ answer = [j \in Jobs |-> "none"]
    /\ console = "down"
    /\ pass = "idle" /\ page = {}
    /\ trouble = 0

\* One more failure of something the code does not control.
Trouble == trouble < MaxTrouble /\ trouble' = trouble + 1

-----------------------------------------------------------------------------
\* Admission and the birth of the runner (store.admit, supervisor.submit)

Conflict(k, l) == \/ k # "service" /\ l # "service"
                  \/ k = "service" /\ l = "service"
                  \/ "writer" \in {k, l}

\* Mutant of Compatible: an uncertain row no longer holds its admission.
CompatibleWithDoubt(k) ==
    \A j \in Jobs : state[j] \in Holding \ {"uncertain"} => ~Conflict(k, kind[j])

Compatible(k) ==
    \A j \in Jobs : state[j] \in Holding =>
        state[j] # "uncertain" /\ ~Conflict(k, kind[j])

Admit(j, k) ==
    /\ console = "ready"
    /\ state[j] = "none" /\ \A i \in Jobs : i < j => state[i] # "none"
    /\ Compatible(k)
    /\ state' = [state EXCEPT ![j] = "admitted"]
    /\ kind' = [kind EXCEPT ![j] = k]
    /\ pc' = [pc EXCEPT ![j] = "submitted"]
    /\ UNCHANGED <<due, recorded, receipt, tool, memory, reconciler, trouble>>

\* A spawn that fails or is not confirmed is never retried: it is this step
\* not taken.
Spawn(j) ==
    /\ pc[j] = "submitted"
    /\ pc' = [pc EXCEPT ![j] = "spawned"]
    /\ UNCHANGED <<row, receipt, tool, memory, reconciler, trouble>>

Deadline(j) ==
    /\ state[j] = "admitted" /\ j \notin due
    /\ due' = due \cup {j}
    /\ UNCHANGED <<state, kind, recorded, receipt, pc, tool, memory, reconciler, trouble>>

-----------------------------------------------------------------------------
\* The runner up to the native birth (Runner.start)

Claimable(j) == state[j] = "admitted" /\ j \notin due

\* A claim that is fenced, or whose commit reports an error, ends the runner.
Claim(j) ==
    /\ pc[j] = "spawned"
    /\ \/ /\ Claimable(j)
          /\ state' = [state EXCEPT ![j] = "claimed"]
          /\ \/ pc' = [pc EXCEPT ![j] = "claimed"] /\ UNCHANGED trouble
             \/ pc' = [pc EXCEPT ![j] = "dead"] /\ Trouble
       \/ /\ UNCHANGED state
          /\ pc' = [pc EXCEPT ![j] = "dead"]
          /\ (~Claimable(j) /\ UNCHANGED trouble) \/ Trouble
    /\ UNCHANGED <<kind, due, recorded, receipt, tool, memory, reconciler>>

\* The command is read against the claimed row once more after the log setup.
Prepare(j) ==
    /\ pc[j] = "claimed" /\ state[j] = "claimed"
    /\ pc' = [pc EXCEPT ![j] = "prepared"]
    /\ UNCHANGED <<row, receipt, tool, memory, reconciler, trouble>>

\* No birth was attempted, or the native adapter says that none took place.
Refuse(j) ==
    /\ pc[j] \in {"claimed", "prepared"}
    /\ pc' = [pc EXCEPT ![j] = "supervising"]
    /\ \/ /\ state[j] = "claimed"
          /\ state' = [state EXCEPT ![j] = "refused"]
          /\ \/ /\ saved' = [saved EXCEPT ![j] = {"terminal"}]
                /\ UNCHANGED <<reason, trouble>>
             \/ /\ reason' = reason \cup {j}
                /\ Trouble /\ UNCHANGED saved
       \/ /\ (state[j] # "claimed" /\ UNCHANGED trouble) \/ Trouble
          /\ reason' = reason \cup {j}
          /\ UNCHANGED <<state, saved>>
    /\ UNCHANGED <<kind, due, recorded, receipt, tool, op, answer, reconciler>>

\* The tool starts inside its job object; marking the row is the first
\* operation of the I/O worker.
Launch(j) ==
    /\ pc[j] = "prepared"
    /\ pc' = [pc EXCEPT ![j] = "supervising"]
    /\ owned' = [owned EXCEPT ![j] = "open"]
    /\ native' = [native EXCEPT ![j] = "live"]
    /\ log' = [log EXCEPT ![j] = "open"]
    /\ op' = [op EXCEPT ![j] = "running"]
    /\ UNCHANGED <<row, receipt, code, reason, saved, answer, reconciler, trouble>>

\* The tool starts, and its log pump or the I/O worker does not.
LaunchPartly(j) ==
    /\ pc[j] = "prepared" /\ Trouble
    /\ pc' = [pc EXCEPT ![j] = "supervising"]
    /\ owned' = [owned EXCEPT ![j] = "open"]
    /\ native' = [native EXCEPT ![j] = "live"]
    /\ reason' = reason \cup {j}
    /\ \/ op' = [op EXCEPT ![j] = "running"] /\ UNCHANGED log
       \/ log' = [log EXCEPT ![j] = "open"] /\ UNCHANGED op
    /\ UNCHANGED <<row, receipt, code, saved, answer, reconciler>>

\* The name collides, or the set-up after the birth fails and closing the new
\* job kills the child.
LaunchUnsure(j) ==
    /\ pc[j] = "prepared" /\ Trouble
    /\ pc' = [pc EXCEPT ![j] = "supervising"]
    /\ native' \in {native, [native EXCEPT ![j] = "ended"]}
    /\ reason' = reason \cup {j}
    /\ UNCHANGED <<row, receipt, owned, code, log, saved, op, answer, reconciler>>

-----------------------------------------------------------------------------
\* The runner's I/O worker: one operation at a time, beside the polling loop

InFlight(j, o) == pc[j] = "supervising" /\ op[j] = o /\ answer[j] = "none"

Tell(j, a) == answer' = [answer EXCEPT ![j] = a]

\* A committed operation may still report an error.
Committed(j) == \/ Tell(j, "ok") /\ UNCHANGED trouble
                \/ Tell(j, "error") /\ Trouble

\* An operation that left nothing was fenced, or failed.
Failed(j, fenced) == /\ Tell(j, "error")
                     /\ (fenced /\ UNCHANGED trouble) \/ Trouble

\* Closing the last handle on the job kills what is left in it.
Closed(o) == IF o = "open" THEN "closed" ELSE o
Killed(n) == IF n \in Alive THEN "ended" ELSE n

\* Fresh native and log proof, repeated by publish and by finalize.
Proof(j) == owned[j] = "open" /\ native[j] = "ended" /\ log[j] = "complete"

MarkRunning(j) ==
    /\ InFlight(j, "running")
    /\ \/ /\ state[j] = "claimed"
          /\ state' = [state EXCEPT ![j] = "running"]
          /\ recorded' = recorded \cup {j}
          /\ Committed(j)
       \/ UNCHANGED <<state, recorded>> /\ Failed(j, state[j] # "claimed")
    /\ UNCHANGED <<kind, due, receipt, pc, tool, reason, saved, op, reconciler>>

\* The temporary file is written and synced, then replaces exit.json.
Publish(j) ==
    /\ InFlight(j, "publish")
    /\ LET sound == state[j] = "running" /\ Proof(j) /\ receipt[j] = "none"
       IN \/ /\ sound
             /\ receipt' = [receipt EXCEPT ![j] = code[j]]
             /\ Committed(j)
          \/ /\ sound
             /\ receipt' = [receipt EXCEPT ![j] = "torn"]
             /\ Failed(j, FALSE)
          \/ UNCHANGED receipt /\ Failed(j, ~sound)
    /\ UNCHANGED <<row, pc, tool, reason, saved, op, reconciler>>

\* Mutant of Finalize: the row is no longer fenced on its state.
FinalizeUnfenced(j) ==
    /\ InFlight(j, "finalize")
    /\ LET sound == Proof(j) /\ receipt[j] = code[j]
       IN \/ /\ sound
             /\ state' = [state EXCEPT ![j] = receipt[j]]
             /\ Committed(j)
          \/ UNCHANGED state /\ Failed(j, ~sound)
    /\ UNCHANGED <<kind, due, recorded, receipt, pc, tool, reason, saved, op, reconciler>>

Finalize(j) ==
    /\ InFlight(j, "finalize")
    /\ LET sound == state[j] = "running" /\ Proof(j) /\ receipt[j] = code[j]
       IN \/ /\ sound
             /\ state' = [state EXCEPT ![j] = receipt[j]]
             /\ Committed(j)
          \/ UNCHANGED state /\ Failed(j, ~sound)
    /\ UNCHANGED <<kind, due, recorded, receipt, pc, tool, reason, saved, op, reconciler>>

\* Mutant of HoldUncertain: the doubt is stored over any state.
HoldAnything(j) ==
    /\ InFlight(j, "hold")
    /\ \/ /\ state' = [state EXCEPT ![j] = "uncertain"]
          /\ Committed(j)
       \/ UNCHANGED state /\ Failed(j, FALSE)
    /\ UNCHANGED <<kind, due, recorded, receipt, pc, tool, reason, saved, op, reconciler>>

HoldUncertain(j) ==
    /\ InFlight(j, "hold")
    /\ \/ /\ state[j] \in Holding
          /\ state' = [state EXCEPT ![j] = "uncertain"]
          /\ Committed(j)
       \/ UNCHANGED state /\ Failed(j, state[j] \notin Holding)
    /\ UNCHANGED <<kind, due, recorded, receipt, pc, tool, reason, saved, op, reconciler>>

\* The job is closed first, then the lock is released; either may report an
\* error, and a job that does not close stays open.
ReleaseHandles(j) ==
    /\ InFlight(j, "release")
    /\ \/ owned' = [owned EXCEPT ![j] = Closed(@)] /\ Committed(j)
       \/ UNCHANGED owned /\ Failed(j, FALSE)
    /\ native' = [native EXCEPT ![j] = IF owned' # owned THEN Killed(@) ELSE @]
    /\ UNCHANGED <<row, receipt, pc, code, log, reason, saved, op, reconciler>>

Refresh(j) ==
    /\ InFlight(j, "refresh")
    /\ \/ Tell(j, IF state[j] = "running" THEN "ok" ELSE "changed") /\ UNCHANGED trouble
       \/ Failed(j, FALSE)
    /\ UNCHANGED <<row, receipt, pc, tool, reason, saved, op, reconciler>>

Persist(j) == \/ MarkRunning(j) \/ Publish(j) \/ Finalize(j)
              \/ HoldUncertain(j) \/ ReleaseHandles(j) \/ Refresh(j)

-----------------------------------------------------------------------------
\* The runner's polling loop (Runner.tick)

Evidence == [running |-> "running", hold |-> "uncertain",
             publish |-> "published", finalize |-> "terminal"]

Collect(j) ==
    /\ pc[j] = "supervising" /\ answer[j] # "none"
    /\ op' = [op EXCEPT ![j] = "none"]
    /\ answer' = [answer EXCEPT ![j] = "none"]
    /\ reason' = IF answer[j] = "ok" THEN reason ELSE reason \cup {j}
    /\ IF answer[j] = "ok" /\ op[j] \in DOMAIN Evidence
       THEN saved' = [saved EXCEPT ![j] = @ \cup {Evidence[op[j]]}]
       ELSE UNCHANGED saved
    /\ pc' = [pc EXCEPT ![j] = IF answer[j] = "ok" /\ op[j] = "release"
                               THEN "done" ELSE @]
    /\ UNCHANGED <<row, receipt, tool, reconciler, trouble>>

\* A terminal row, no process, or an ended tool whose log threads are over.
Settled(j) ==
    \/ "terminal" \in saved[j]
    \/ owned[j] = "none"
    \/ owned[j] = "open" /\ native[j] = "ended" /\ log[j] \notin {"open", "broken"}

Doubtful(j) == j \in reason \/ ("terminal" \notin saved[j] /\ log[j] \in {"broken", "incomplete"})

NextOperation(j) ==
    IF Doubtful(j) /\ "uncertain" \notin saved[j] THEN "hold"
    ELSE IF Settled(j) /\ saved[j] \cap {"terminal", "uncertain"} # {} THEN "release"
    ELSE IF "running" \notin saved[j] \/ Doubtful(j) THEN "none"
    ELSE IF ~Settled(j) THEN "refresh"
    ELSE IF "published" \in saved[j] THEN "finalize" ELSE "publish"

Dispatch(j) ==
    /\ pc[j] = "supervising" /\ op[j] = "none"
    /\ NextOperation(j) # "none"
    /\ op' = [op EXCEPT ![j] = NextOperation(j)]
    /\ reason' = IF Doubtful(j) THEN reason \cup {j} ELSE reason
    /\ UNCHANGED <<row, receipt, pc, tool, saved, answer, reconciler, trouble>>

\* A native observation or the termination of the descendants fails; none is
\* made of a terminal row, nor beside finalize and release.
Doubt(j) ==
    /\ pc[j] = "supervising" /\ j \notin reason /\ Trouble
    /\ owned[j] # "none" /\ "terminal" \notin saved[j]
    /\ op[j] \notin {"finalize", "release"}
    /\ reason' = reason \cup {j}
    /\ UNCHANGED <<row, receipt, pc, tool, saved, op, answer, reconciler>>

\* The runner dies: a receipt being written may stay a temporary file.
RunnerDies(j) ==
    /\ pc[j] \in {"spawned", "claimed", "prepared", "supervising"} /\ Trouble
    /\ pc' = [pc EXCEPT ![j] = "dead"]
    /\ \/ UNCHANGED receipt
       \/ /\ InFlight(j, "publish") /\ receipt[j] = "none"
          /\ state[j] = "running" /\ Proof(j)
          /\ receipt' = [receipt EXCEPT ![j] = "torn"]
    /\ reason' = reason \ {j}
    /\ saved' = [saved EXCEPT ![j] = {}]
    /\ op' = [op EXCEPT ![j] = "none"]
    /\ answer' = [answer EXCEPT ![j] = "none"]
    /\ UNCHANGED <<row, tool, reconciler>>

-----------------------------------------------------------------------------
\* The tool and its log

RootExits(j) ==
    /\ native[j] = "live"
    /\ native' \in {[native EXCEPT ![j] = n] : n \in {"rootgone", "ended"}}
    /\ code' \in {[code EXCEPT ![j] = c] : c \in {"succeeded", "failed"}}
    /\ UNCHANGED <<row, receipt, pc, owned, log, memory, reconciler, trouble>>

\* The descendants end, or the runner terminates them after its deadline.
DescendantsEnd(j) ==
    /\ native[j] = "rootgone"
    /\ native' = [native EXCEPT ![j] = "ended"]
    /\ UNCHANGED <<row, receipt, pc, owned, code, log, memory, reconciler, trouble>>

\* The handles of a dead runner are closed, which kills its tool.
KillOnClose(j) ==
    /\ pc[j] = "dead" /\ owned[j] = "open"
    /\ owned' = [owned EXCEPT ![j] = "closed"]
    /\ native' = [native EXCEPT ![j] = Killed(@)]
    /\ UNCHANGED <<row, receipt, pc, code, log, memory, reconciler, trouble>>

\* A segment or the index cannot be written, or the drain times out.
LogBreaks(j) ==
    /\ log[j] = "open" /\ Trouble
    /\ log' = [log EXCEPT ![j] = "broken"]
    /\ UNCHANGED <<row, receipt, pc, owned, native, code, memory, reconciler>>

LogSettles(j) ==
    /\ log[j] \in {"open", "broken"} /\ native[j] = "ended"
    /\ log' = [log EXCEPT ![j] =
                   IF @ = "open" /\ pc[j] # "dead" THEN "complete" ELSE "incomplete"]
    /\ UNCHANGED <<row, receipt, pc, owned, native, code, memory, reconciler, trouble>>

-----------------------------------------------------------------------------
\* The console and its reconciler (supervisor.py, recovery.py)

\* The startup pass runs before the console is ready.
ConsoleStart ==
    /\ console = "down" /\ console' = "unready"
    /\ UNCHANGED <<row, receipt, pc, tool, memory, pass, page, trouble>>

ConsoleDies ==
    /\ console # "down" /\ Trouble
    /\ console' = "down"
    /\ pass' = "idle" /\ page' = {}
    /\ pc' = [j \in Jobs |-> IF pc[j] = "submitted" THEN "dead" ELSE pc[j]]
    /\ UNCHANGED <<row, receipt, tool, memory>>

ExpireAdmissions ==
    /\ console # "down" /\ pass = "idle"
    /\ pass' = "expired"
    /\ state' = [j \in Jobs |-> IF state[j] = "admitted" /\ j \in due
                                THEN "admission_expired" ELSE state[j]]
    /\ UNCHANGED <<kind, due, recorded, receipt, pc, tool, memory, console, page, trouble>>

\* Mutant of Eligible: a claim whose runner died is not visited.
EligibleRunning == {"running"}

Eligible == {"claimed", "running"}

\* The page is a detached snapshot of the rows the pass will visit.
ReadPage ==
    /\ pass = "expired"
    /\ pass' = "visiting"
    /\ page' = {<<j, state[j]>> : j \in {i \in Jobs : state[i] \in Eligible}}
    /\ UNCHANGED <<row, receipt, pc, tool, memory, console, trouble>>

RunnerGone(j) == pc[j] \in {"done", "dead"}

\* Mutant of Gone: the processes are looked for, the job object is not.
GoneByProcesses(j, beforeChild) ==
    /\ RunnerGone(j)
    /\ IF j \in recorded THEN native[j] # "live" ELSE beforeChild

\* A child that was never recorded passes only where beforeChild allows it.
Gone(j, beforeChild) ==
    /\ RunnerGone(j)
    /\ IF j \in recorded THEN native[j] # "live" ELSE beforeChild
    /\ owned[j] # "open"

\* Mutant of Recovered: a temporary receipt counts as a receipt.
RecoveredFromTorn(j) ==
    IF ~Gone(j, state[j] = "claimed") THEN "uncertain"
    ELSE IF receipt[j] = "none" THEN "lost"
    ELSE IF state[j] # "running" THEN "uncertain"
    ELSE receipt[j]

\* Mutant of Recovered: a dead runner without a receipt has failed.
RecoveredAsFailed(j) ==
    IF ~Gone(j, state[j] = "claimed") THEN "uncertain"
    ELSE IF receipt[j] = "none" THEN "failed"
    ELSE IF receipt[j] = "torn" \/ state[j] # "running" THEN "uncertain"
    ELSE receipt[j]

\* What the evidence makes of a row whose runner is not seen alive.
Recovered(j) ==
    IF ~Gone(j, state[j] = "claimed") THEN "uncertain"
    ELSE IF receipt[j] = "none" THEN "lost"
    ELSE IF receipt[j] = "torn" \/ state[j] # "running" THEN "uncertain"
    ELSE receipt[j]

Visit(j) ==
    /\ pass = "visiting"
    /\ \E r \in page :
          /\ r[1] = j /\ \A s \in page : j <= s[1]
          /\ page' = page \ {r}
          /\ \/ /\ \/ state[j] # r[2]
                   \/ ~RunnerGone(j)
                /\ UNCHANGED <<state, trouble>>
             \/ /\ state[j] = r[2] /\ RunnerGone(j)
                /\ state' = [state EXCEPT ![j] = Recovered(j)]
                /\ UNCHANGED trouble
             \/ /\ state[j] = r[2] /\ Trouble
                /\ state' = [state EXCEPT ![j] = "uncertain"]
    /\ UNCHANGED <<kind, due, recorded, receipt, pc, tool, memory, console, pass>>

EndPass ==
    /\ pass = "visiting" /\ page = {}
    /\ pass' = "idle" /\ console' = "ready"
    /\ UNCHANGED <<row, receipt, pc, tool, memory, page, trouble>>

PassFails ==
    /\ pass # "idle" /\ Trouble
    /\ pass' = "idle" /\ page' = {} /\ console' = "unready"
    /\ UNCHANGED <<row, receipt, pc, tool, memory>>

\* The operator acknowledges an uncertain row; other evidence keeps it.
Recheck(j) ==
    /\ console # "down"
    /\ state[j] = "uncertain" /\ Gone(j, TRUE)
    /\ state' = [state EXCEPT ![j] = "lost"]
    /\ UNCHANGED <<kind, due, recorded, receipt, pc, tool, memory, reconciler, trouble>>

-----------------------------------------------------------------------------
RunnerStep(j) ==
    \/ Claim(j) \/ Prepare(j) \/ Refuse(j)
    \/ Launch(j) \/ LaunchPartly(j) \/ LaunchUnsure(j)
    \/ Persist(j) \/ Collect(j) \/ Dispatch(j) \/ Doubt(j)

ToolStep(j) ==
    \/ RootExits(j) \/ DescendantsEnd(j) \/ KillOnClose(j)
    \/ LogBreaks(j) \/ LogSettles(j)

PassStep == ExpireAdmissions \/ ReadPage \/ (\E j \in Jobs : Visit(j)) \/ EndPass

Next ==
    \/ \E j \in Jobs : \/ \E k \in Kinds : Admit(j, k)
                       \/ Spawn(j) \/ Deadline(j) \/ RunnerStep(j) \/ RunnerDies(j)
                       \/ ToolStep(j) \/ Recheck(j)
    \/ ConsoleStart \/ ConsoleDies \/ PassStep \/ PassFails

Spec == Init /\ [][Next]_vars

\* Time passes, a live runner and its worker run, the operating system closes
\* a dead process's handles and the console is restarted and keeps making
\* passes.  Nothing is assumed of the tool's own end, of the operator or of
\* the spawn.
Fairness ==
    /\ \A j \in Jobs : /\ WF_vars(Deadline(j))
                       /\ WF_vars(RunnerStep(j))
                       /\ WF_vars(DescendantsEnd(j))
                       /\ WF_vars(KillOnClose(j))
                       /\ WF_vars(LogSettles(j))
    /\ WF_vars(ConsoleStart)
    /\ WF_vars(PassStep)

FairSpec == Spec /\ Fairness

-----------------------------------------------------------------------------
\* Properties

\* Tools that must not run together never do, whatever became of the rows
\* that admitted them: _compatible looks at rows, not at processes.
ExclusiveTools ==
    \A i, j \in Jobs :
        i # j /\ native[i] \in Alive /\ native[j] \in Alive
            => ~Conflict(kind[i], kind[j])

\* A row that no longer holds its admission has no process left, and no
\* runner that could still start one.
ReleasedMeansDead ==
    \A j \in Jobs : state[j] \in Freed =>
        native[j] \notin Alive /\ pc[j] \notin {"claimed", "prepared"}

\* An outcome, committed by the runner or imported by recovery, is the one of
\* the tool's own exit code under a complete log; it is never guessed.
TrueOutcome ==
    \A j \in Jobs : state[j] \in {"succeeded", "failed"} =>
        state[j] = code[j] /\ log[j] = "complete"

\* Doubt is never cleared by a late receipt, a pass or the runner itself: an
\* uncertain row only becomes lost, with the runner, the tool and the job gone.
DoubtIsKept ==
    [][\A j \in Jobs : state[j] = "uncertain" /\ state'[j] # "uncertain" =>
          /\ state'[j] = "lost"
          /\ pc[j] \in {"done", "dead"} /\ owned[j] # "open"
          /\ native[j] \notin Alive]_vars

\* What a runner, a pass or the operator once settled stays as it is, also
\* when a commit reported an error and the runner goes on in doubt.
FreedIsFinal ==
    [][\A j \in Jobs : state[j] \in Freed => state'[j] = state[j]]_vars

\* Whoever dies: rows that are freed have nothing alive, outcomes are the tools',
\* and neither doubt nor a settled row changes by itself.
Safety == []TypeOK /\ []ExclusiveTools /\ []ReleasedMeansDead /\ []TrueOutcome
              /\ DoubtIsKept /\ FreedIsFinal

\* Whatever died in between, a row that counts on a runner does not stay
\* that way for ever unless its tool runs.
NoRowIsStranded ==
    \A j \in Jobs :
        []<>(state[j] \notin {"admitted", "claimed", "running"} \/ native[j] \in Alive)

\* The runner stays alive until what it owns settles (run, runner.py:285), and
\* so ends once its tool has ended.  It does not: after an operation that took
\* effect and reported an error, the loop asks for a hold that the terminal row
\* refuses, for ever.
RunnerExits ==
    \A j \in Jobs :
        (pc[j] = "supervising" /\ native[j] \notin Alive) ~> pc[j] \in {"done", "dead"}

=============================================================================
