-------------------------- MODULE ConsoleJobsProofs --------------------------
(***************************************************************************)
(* What holds of the console's job ledger for any number of admissions,    *)
(* any mix of tools and any number of failures and deaths.                 *)
(***************************************************************************)
EXTENDS ConsoleJobs, TLAPS

LEMMA TypeInit == Init => TypeOK
<1> SUFFICES ASSUME Init PROVE TypeOK
  OBVIOUS
<1>1. LedgerTyped
  BY DEF Init, LedgerTyped, Holding, Freed
<1>2. RunnersTyped
  BY DEF Init, RunnersTyped, Operations
<1>3. ToolsTyped
  BY DEF Init, ToolsTyped
<1>4. ConsoleTyped
  BY ConsoleAssumption DEF Init, ConsoleTyped
<1> QED
  BY <1>1, <1>2, <1>3, <1>4 DEF TypeOK

LEMMA TypeStep == TypeOK /\ [Next]_vars => TypeOK'
<1> SUFFICES ASSUME TypeOK, [Next]_vars PROVE TypeOK'
  OBVIOUS
<1> USE ConsoleAssumption
        DEF TypeOK, LedgerTyped, RunnersTyped, ToolsTyped, ConsoleTyped,
            row, tool, memory, reconciler, Holding, Freed, Operations, Trouble
<1>a. ASSUME NEW j \in Jobs, NEW k \in Kinds, Admit(j, k) PROVE TypeOK'
  BY <1>a DEF Admit
<1>b. ASSUME NEW j \in Jobs, Spawn(j) \/ Deadline(j) PROVE TypeOK'
  BY <1>b DEF Spawn, Deadline
<1>c. ASSUME NEW j \in Jobs, RunnerStep(j) PROVE TypeOK'
  <2>1. CASE Claim(j)
    BY <2>1 DEF Claim
  <2>2. CASE Prepare(j)
    BY <2>2 DEF Prepare
  <2>3. CASE Refuse(j)
    BY <2>3 DEF Refuse
  <2>4. CASE Launch(j) \/ LaunchPartly(j) \/ LaunchUnsure(j)
    BY <2>4 DEF Launch, LaunchPartly, LaunchUnsure
  <2>5. CASE Persist(j)
    <3> USE DEF InFlight, Tell, Committed, Failed
    <3>1. CASE MarkRunning(j)
      BY <3>1 DEF MarkRunning
    <3>2. CASE Publish(j)
      <4>1. receipt' \in [Jobs -> {"none", "torn", "succeeded", "failed"}]
        BY <3>2 DEF Publish
      <4> QED
        BY <3>2, <4>1 DEF Publish
    <3>3. CASE Finalize(j)
      BY <3>3 DEF Finalize
    <3>4. CASE HoldUncertain(j)
      BY <3>4 DEF HoldUncertain
    <3>5. CASE ReleaseHandles(j)
      BY <3>5 DEF ReleaseHandles, Closed, Killed
    <3>6. CASE Refresh(j)
      BY <3>6 DEF Refresh
    <3> QED
      BY <2>5, <3>1, <3>2, <3>3, <3>4, <3>5, <3>6 DEF Persist
  <2>6. CASE Collect(j)
    <3>1. saved' \in [Jobs -> SUBSET {"running", "uncertain", "published", "terminal"}]
      <4>1. CASE UNCHANGED saved
        BY <4>1
      <4>2. CASE op[j] \in DOMAIN Evidence
                 /\ saved' = [saved EXCEPT ![j] = @ \cup {Evidence[op[j]]}]
        <5>1. Evidence[op[j]] \in {"running", "uncertain", "published", "terminal"}
          BY <4>2 DEF Evidence
        <5> QED
          BY <4>2, <5>1
      <4> QED
        BY <2>6, <4>1, <4>2 DEF Collect
    <3>2. pc' \in [Jobs -> {"none", "submitted", "spawned", "claimed", "prepared",
                          "supervising", "done", "dead"}]
      BY <2>6 DEF Collect
    <3>3. op' \in [Jobs -> Operations \cup {"none"}] /\ reason' \subseteq Jobs
          /\ answer' \in [Jobs -> {"none", "ok", "error", "changed"}]
      BY <2>6 DEF Collect
    <3> QED
      BY <2>6, <3>1, <3>2, <3>3 DEF Collect
  <2>7. CASE Dispatch(j)
    <3>1. NextOperation(j) \in Operations \cup {"none"}
      BY DEF NextOperation
    <3>2. Doubtful(j) \in BOOLEAN
      BY DEF Doubtful
    <3> QED
      BY <2>7, <3>1, <3>2 DEF Dispatch
  <2>8. CASE Doubt(j)
    BY <2>8 DEF Doubt
  <2> QED
    BY <1>c, <2>1, <2>2, <2>3, <2>4, <2>5, <2>6, <2>7, <2>8 DEF RunnerStep
<1>d. ASSUME NEW j \in Jobs, RunnerDies(j) PROVE TypeOK'
  BY <1>d DEF RunnerDies
<1>e. ASSUME NEW j \in Jobs, ToolStep(j) PROVE TypeOK'
  BY <1>e DEF ToolStep, RootExits, DescendantsEnd, KillOnClose, LogBreaks, LogSettles,
              Closed, Killed
<1>f. ASSUME NEW j \in Jobs, Recheck(j) PROVE TypeOK'
  BY <1>f DEF Recheck
<1>g. ASSUME NEW j \in Jobs, Visit(j) PROVE TypeOK'
  <2>1. Recovered(j) \in Holding \cup Freed \cup {"none"} \/ receipt[j] = "torn"
    BY DEF Recovered
  <2>2. Recovered(j) \in Holding \cup Freed \cup {"none"}
    BY <2>1 DEF Recovered
  <2>3. state' \in [Jobs -> Holding \cup Freed \cup {"none"}]
    BY <1>g, <2>2 DEF Visit
  <2>4. page' \subseteq page /\ trouble' \in 0..MaxTrouble
    BY <1>g DEF Visit
  <2> QED
    BY <1>g, <2>3, <2>4 DEF Visit
<1>h. CASE ConsoleStart \/ ConsoleDies \/ PassFails
  BY <1>h DEF ConsoleStart, ConsoleDies, PassFails
<1>i. CASE ExpireAdmissions \/ EndPass
  BY <1>i DEF ExpireAdmissions, EndPass
<1>j. CASE ReadPage
  BY <1>j DEF ReadPage, Eligible
<1>k. CASE UNCHANGED vars
  BY <1>k DEF vars
<1> QED
  BY <1>a, <1>b, <1>c, <1>d, <1>e, <1>f, <1>g, <1>h, <1>i, <1>j, <1>k DEF Next, PassStep

\* The ledger, its runners, tools and receipts are always well typed.
THEOREM TypeCorrect == Spec => []TypeOK
<1>1. Init => TypeOK
  BY TypeInit
<1>2. TypeOK /\ [Next]_vars => TypeOK'
  BY TypeStep
<1> QED
  BY <1>1, <1>2, PTL DEF Spec

-----------------------------------------------------------------------------
\* Where the row, the runner and the tool of a job stand together.  A runner
\* that may still start its tool has a row that holds the admission, and a
\* tool that is alive is in an open job, whose absence recovery insists on.
Placed ==
    \A j \in Jobs :
        /\ state[j] = "none" => pc[j] = "none"
        /\ pc[j] \in {"none", "submitted", "spawned", "claimed", "prepared"} =>
              native[j] = "none" /\ owned[j] = "none" /\ receipt[j] = "none"
        /\ state[j] = "admitted" =>
              pc[j] \in {"submitted", "spawned", "dead"} /\ native[j] = "none"
        /\ pc[j] \in {"submitted", "spawned"} =>
              state[j] \in {"admitted", "admission_expired"}
        /\ pc[j] \in {"claimed", "prepared"} => state[j] \in {"claimed", "uncertain"}
        /\ native[j] \in Alive => owned[j] = "open"
        /\ owned[j] = "open" /\ native[j] # "live" => code[j] # "none"

\* A receipt was written on proof that the tool and its log had ended, and
\* nothing changes either afterwards.
Witnessed ==
    \A j \in Jobs :
        /\ receipt[j] \in {"succeeded", "failed"} =>
              receipt[j] = code[j] /\ native[j] = "ended" /\ log[j] = "complete"
        /\ state[j] \in {"succeeded", "failed"} =>
              state[j] = code[j] /\ native[j] = "ended" /\ log[j] = "complete"

\* Rows that hold admissions are compatible.
ExclusiveRows ==
    \A i, j \in Jobs :
        i # j /\ state[i] \in Holding /\ state[j] \in Holding
            => ~Conflict(kind[i], kind[j])

SafetyInv == TypeOK /\ Placed /\ ReleasedMeansDead /\ Witnessed /\ ExclusiveRows

LEMMA SafetyInit == Init => SafetyInv
<1> SUFFICES ASSUME Init PROVE SafetyInv
  OBVIOUS
<1>1. TypeOK
  BY TypeInit
<1>2. Placed /\ ReleasedMeansDead /\ Witnessed /\ ExclusiveRows
  BY DEF Init, Placed, ReleasedMeansDead, Witnessed, ExclusiveRows, Alive, Freed, Holding
<1> QED
  BY <1>1, <1>2 DEF SafetyInv

\* A row recovery may free has neither a runner nor a tool.
LEMMA GoneMeansDead ==
  ASSUME SafetyInv, NEW j \in Jobs, NEW b \in BOOLEAN, Gone(j, b)
  PROVE  native[j] \notin Alive /\ pc[j] \in {"done", "dead"}
BY DEF SafetyInv, Placed, Gone, RunnerGone

\* What recovery makes of a row of a dead runner.
LEMMA RecoveredOutcome ==
  ASSUME SafetyInv, NEW j \in Jobs
  PROVE  /\ Recovered(j) \in {"uncertain", "lost", "succeeded", "failed"}
         /\ Recovered(j) # "uncertain" =>
               native[j] \notin Alive /\ pc[j] \in {"done", "dead"}
         /\ Recovered(j) \in {"succeeded", "failed"} => Recovered(j) = receipt[j]
<1>1. receipt[j] \in {"none", "torn", "succeeded", "failed"}
  BY DEF SafetyInv, TypeOK, LedgerTyped
<1>2. Gone(j, state[j] = "claimed") =>
        native[j] \notin Alive /\ pc[j] \in {"done", "dead"}
  BY GoneMeansDead
<1> QED
  BY <1>1, <1>2 DEF Recovered

LEMMA SafetyStep == SafetyInv /\ [Next]_vars => SafetyInv'
<1> DEFINE Good == Placed /\ ReleasedMeansDead /\ Witnessed /\ ExclusiveRows
<1> DEFINE Calm == kind' = kind /\ \A j \in Jobs : state'[j] \in Holding => state[j] \in Holding
<1> SUFFICES ASSUME SafetyInv, [Next]_vars PROVE Good'
  BY TypeStep DEF SafetyInv
<1> USE DEF SafetyInv, TypeOK, LedgerTyped, RunnersTyped, ToolsTyped, row, tool, memory,
            reconciler, Placed, ReleasedMeansDead, Witnessed, Alive, Freed, Holding
<1>x. Calm => ExclusiveRows'
  BY DEF ExclusiveRows
<1> USE DEF InFlight, Tell, Committed, Failed, Proof
<1>a. ASSUME NEW j \in Jobs, NEW k \in Kinds, Admit(j, k) PROVE Good'
  <2>1. Placed' /\ ReleasedMeansDead' /\ Witnessed'
    BY <1>a DEF Admit
  <2>2. \A i \in Jobs : i # j /\ state[i] \in Holding => ~Conflict(k, kind[i])
    BY <1>a DEF Admit, Compatible
  <2>3. \A i \in Jobs : i # j => state'[i] = state[i] /\ kind'[i] = kind[i]
    BY <1>a DEF Admit
  <2>4. kind'[j] = k
    BY <1>a DEF Admit
  <2>5. \A k1, k2 : Conflict(k1, k2) <=> Conflict(k2, k1)
    BY DEF Conflict
  <2>6. ExclusiveRows'
    BY <2>2, <2>3, <2>4, <2>5 DEF ExclusiveRows
  <2> QED
    BY <2>1, <2>6
<1>b. ASSUME NEW j \in Jobs, Spawn(j) \/ Deadline(j) PROVE Good'
  <2>1. Calm
    BY <1>b DEF Spawn, Deadline
  <2>2. Placed' /\ ReleasedMeansDead' /\ Witnessed'
    BY <1>b DEF Spawn, Deadline
  <2> QED
    BY <2>1, <2>2, <1>x
<1>c. ASSUME NEW j \in Jobs, Claim(j) PROVE Good'
  <2>1. Calm
    BY <1>c DEF Claim, Claimable
  <2>2. Placed' /\ ReleasedMeansDead' /\ Witnessed'
    BY <1>c DEF Claim, Claimable
  <2> QED
    BY <2>1, <2>2, <1>x
<1>d. ASSUME NEW j \in Jobs, Prepare(j) \/ Refuse(j) PROVE Good'
  <2>1. Calm
    BY <1>d DEF Prepare, Refuse
  <2>2. Placed' /\ ReleasedMeansDead' /\ Witnessed'
    BY <1>d DEF Prepare, Refuse
  <2> QED
    BY <2>1, <2>2, <1>x
<1>e. ASSUME NEW j \in Jobs, Launch(j) \/ LaunchPartly(j) \/ LaunchUnsure(j) PROVE Good'
  <2>1. Calm
    BY <1>e DEF Launch, LaunchPartly, LaunchUnsure
  <2>2. Placed' /\ ReleasedMeansDead' /\ Witnessed'
    BY <1>e DEF Launch, LaunchPartly, LaunchUnsure
  <2> QED
    BY <2>1, <2>2, <1>x
<1>f. ASSUME NEW j \in Jobs, MarkRunning(j) PROVE Good'
  <2>1. Calm
    BY <1>f DEF MarkRunning
  <2>2. Placed' /\ ReleasedMeansDead' /\ Witnessed'
    BY <1>f DEF MarkRunning
  <2> QED
    BY <2>1, <2>2, <1>x
<1>g. ASSUME NEW j \in Jobs, Publish(j) PROVE Good'
  <2>1. Calm
    BY <1>g DEF Publish
  <2>2. Placed' /\ ReleasedMeansDead' /\ Witnessed'
    BY <1>g DEF Publish
  <2> QED
    BY <2>1, <2>2, <1>x
<1>h. ASSUME NEW j \in Jobs, Finalize(j) PROVE Good'
  <2>1. Calm
    BY <1>h DEF Finalize
  <2>2. Placed' /\ ReleasedMeansDead' /\ Witnessed'
    BY <1>h DEF Finalize
  <2> QED
    BY <2>1, <2>2, <1>x
<1>i. ASSUME NEW j \in Jobs, HoldUncertain(j) PROVE Good'
  <2>1. Calm
    BY <1>i DEF HoldUncertain
  <2>2. Placed' /\ ReleasedMeansDead' /\ Witnessed'
    BY <1>i DEF HoldUncertain
  <2> QED
    BY <2>1, <2>2, <1>x
<1>k. ASSUME NEW j \in Jobs, ReleaseHandles(j) PROVE Good'
  <2>1. Calm
    BY <1>k DEF ReleaseHandles, Closed, Killed
  <2>2. Placed' /\ ReleasedMeansDead' /\ Witnessed'
    BY <1>k DEF ReleaseHandles, Closed, Killed
  <2> QED
    BY <2>1, <2>2, <1>x
<1>l. ASSUME NEW j \in Jobs, Refresh(j) \/ Dispatch(j) \/ Doubt(j) PROVE Good'
  <2>1. Calm
    BY <1>l DEF Refresh, Dispatch, Doubt
  <2>2. Placed' /\ ReleasedMeansDead' /\ Witnessed'
    BY <1>l DEF Refresh, Dispatch, Doubt
  <2> QED
    BY <2>1, <2>2, <1>x
<1>m. ASSUME NEW j \in Jobs, Collect(j) PROVE Good'
  <2>1. Calm
    BY <1>m DEF Collect
  <2>2. Placed' /\ ReleasedMeansDead' /\ Witnessed'
    BY <1>m DEF Collect
  <2> QED
    BY <2>1, <2>2, <1>x
<1>n. ASSUME NEW j \in Jobs, RunnerDies(j) PROVE Good'
  <2>1. Calm
    BY <1>n DEF RunnerDies
  <2>2. Placed' /\ ReleasedMeansDead' /\ Witnessed'
    BY <1>n DEF RunnerDies
  <2> QED
    BY <2>1, <2>2, <1>x
<1>o. ASSUME NEW j \in Jobs, RootExits(j) PROVE Good'
  <2>1. Calm
    BY <1>o DEF RootExits
  <2>2. Placed' /\ ReleasedMeansDead' /\ Witnessed'
    BY <1>o DEF RootExits
  <2> QED
    BY <2>1, <2>2, <1>x
<1>p. ASSUME NEW j \in Jobs, DescendantsEnd(j) \/ KillOnClose(j) PROVE Good'
  <2>1. Calm
    BY <1>p DEF DescendantsEnd, KillOnClose, Closed, Killed
  <2>2. Placed' /\ ReleasedMeansDead' /\ Witnessed'
    BY <1>p DEF DescendantsEnd, KillOnClose, Closed, Killed
  <2> QED
    BY <2>1, <2>2, <1>x
<1>q. ASSUME NEW j \in Jobs, LogBreaks(j) \/ LogSettles(j) PROVE Good'
  <2>1. Calm
    BY <1>q DEF LogBreaks, LogSettles
  <2>2. Placed' /\ ReleasedMeansDead' /\ Witnessed'
    BY <1>q DEF LogBreaks, LogSettles
  <2> QED
    BY <2>1, <2>2, <1>x
<1>r. ASSUME NEW j \in Jobs, Visit(j) PROVE Good'
  <2>1. PICK r \in page :
          /\ r[1] = j
          /\ \/ UNCHANGED state
             \/ state[j] = r[2] /\ state' = [state EXCEPT ![j] = Recovered(j)]
             \/ state[j] = r[2] /\ state' = [state EXCEPT ![j] = "uncertain"]
    BY <1>r DEF Visit
  <2>2. r[2] \in {"claimed", "running"}
    BY DEF ConsoleTyped
  <2>3. Recovered(j) \in {"uncertain", "lost", "succeeded", "failed"}
        /\ (Recovered(j) # "uncertain" =>
              native[j] \notin Alive /\ pc[j] \in {"done", "dead"})
        /\ (Recovered(j) \in {"succeeded", "failed"} => Recovered(j) = receipt[j])
    BY RecoveredOutcome
  <2>4. UNCHANGED <<kind, receipt, pc, tool>>
    BY <1>r DEF Visit
  <2>5. \/ UNCHANGED state
        \/ /\ state[j] \in {"claimed", "running", "uncertain"}
           /\ \E s \in {Recovered(j), "uncertain"} : state' = [state EXCEPT ![j] = s]
    BY <2>1, <2>2
  <2>6. Calm
    BY <2>3, <2>4, <2>5
  <2>7. pc[j] \notin {"claimed", "prepared"} \/ state'[j] \in {state[j], "uncertain"}
    BY <2>3, <2>5
  <2>8. Placed' /\ ReleasedMeansDead' /\ Witnessed'
    BY <2>3, <2>4, <2>5, <2>7
  <2> QED
    BY <2>6, <2>8, <1>x
<1>s. ASSUME NEW j \in Jobs, Recheck(j) PROVE Good'
  <2>1. native[j] \notin Alive /\ pc[j] \in {"done", "dead"}
    BY <1>s, GoneMeansDead DEF Recheck
  <2>2. Calm
    BY <1>s DEF Recheck
  <2>3. Placed' /\ ReleasedMeansDead' /\ Witnessed'
    BY <1>s, <2>1 DEF Recheck
  <2> QED
    BY <2>2, <2>3, <1>x
<1>t. CASE ExpireAdmissions \/ ConsoleDies
  <2>1. Calm
    BY <1>t DEF ExpireAdmissions, ConsoleDies
  <2>2. Placed' /\ ReleasedMeansDead' /\ Witnessed'
    BY <1>t DEF ExpireAdmissions, ConsoleDies
  <2> QED
    BY <2>1, <2>2, <1>x
<1>u. CASE ConsoleStart \/ ReadPage \/ EndPass \/ PassFails \/ UNCHANGED vars
  <2>1. UNCHANGED <<state, kind, receipt, pc, native, owned, code, log>>
    BY <1>u DEF ConsoleStart, ReadPage, EndPass, PassFails, vars
  <2> QED
    BY <2>1 DEF ExclusiveRows
<1> QED
  BY <1>a, <1>b, <1>c, <1>d, <1>e, <1>f, <1>g, <1>h, <1>i, <1>k, <1>l, <1>m, <1>n, <1>o,
     <1>p, <1>q, <1>r, <1>s, <1>t, <1>u
     DEF Next, RunnerStep, Persist, ToolStep, PassStep

LEMMA SafetyAlways == Spec => []SafetyInv
<1>1. Init => SafetyInv
  BY SafetyInit
<1>2. SafetyInv /\ [Next]_vars => SafetyInv'
  BY SafetyStep
<1> QED
  BY <1>1, <1>2, PTL DEF Spec

\* A freed row has no process left and no runner that could start one, after
\* any sequence of failures and deaths.
THEOREM ReleasedMeansDeadAlways == Spec => []ReleasedMeansDead
<1>1. SafetyInv => ReleasedMeansDead
  BY DEF SafetyInv
<1> QED
  BY <1>1, SafetyAlways, PTL

\* A stored outcome is the mapped exit code under a complete log.
THEOREM TrueOutcomeAlways == Spec => []TrueOutcome
<1>1. SafetyInv => TrueOutcome
  BY DEF SafetyInv, Witnessed, TrueOutcome
<1> QED
  BY <1>1, SafetyAlways, PTL

\* Live tools are compatible: a live tool has a row that holds its admission,
\* and such rows are compatible.
THEOREM ExclusiveToolsAlways == Spec => []ExclusiveTools
<1>1. SafetyInv => ExclusiveTools
  <2> SUFFICES ASSUME SafetyInv, NEW i \in Jobs, NEW j \in Jobs, i # j,
                      native[i] \in Alive, native[j] \in Alive
               PROVE  ~Conflict(kind[i], kind[j])
    BY DEF ExclusiveTools
  <2>1. \A l \in Jobs : native[l] \in Alive => state[l] \in Holding
    <3> SUFFICES ASSUME NEW l \in Jobs, native[l] \in Alive PROVE state[l] \in Holding
      OBVIOUS
    <3>1. state[l] # "none"
      BY DEF SafetyInv, Placed, Alive
    <3>2. state[l] \notin Freed
      BY DEF SafetyInv, ReleasedMeansDead
    <3> QED
      BY <3>1, <3>2 DEF SafetyInv, TypeOK, LedgerTyped
  <2> QED
    BY <2>1 DEF SafetyInv, ExclusiveRows
<1> QED
  BY <1>1, SafetyAlways, PTL

-----------------------------------------------------------------------------
\* What one step may do to a row that is uncertain or freed.
Kept(j) ==
    /\ state[j] \in Freed => state'[j] = state[j]
    /\ state[j] = "uncertain" /\ state'[j] # "uncertain" =>
          /\ state'[j] = "lost"
          /\ pc[j] \in {"done", "dead"} /\ owned[j] # "open"
          /\ native[j] \notin Alive

LEMMA KeptStep ==
  ASSUME SafetyInv, [Next]_vars
  PROVE  \A j \in Jobs : Kept(j)
<1> USE DEF row, Freed, Holding, Kept
<1>0. state \in [Jobs -> Holding \cup Freed \cup {"none"}]
  BY DEF SafetyInv, TypeOK, LedgerTyped
<1>1. ASSUME NEW j \in Jobs, Recheck(j) PROVE \A i \in Jobs : Kept(i)
  <2>1. native[j] \notin Alive /\ pc[j] \in {"done", "dead"} /\ owned[j] # "open"
    BY <1>1, GoneMeansDead DEF Recheck, Gone
  <2> QED
    BY <1>0, <1>1, <2>1 DEF Recheck
<1>2. ASSUME NEW j \in Jobs, Visit(j) PROVE \A i \in Jobs : Kept(i)
  <2>1. ASSUME NEW r \in page, state[j] = r[2] PROVE state[j] \in {"claimed", "running"}
    BY <2>1 DEF SafetyInv, TypeOK, ConsoleTyped
  <2> QED
    BY <1>0, <1>2, <2>1 DEF Visit
<1>3. ASSUME NEW j \in Jobs, Claim(j) \/ Refuse(j) PROVE \A i \in Jobs : Kept(i)
  BY <1>0, <1>3 DEF Claim, Claimable, Refuse
<1>4. ASSUME NEW j \in Jobs, Persist(j) PROVE \A i \in Jobs : Kept(i)
  <2>1. CASE MarkRunning(j) \/ Finalize(j)
    BY <1>0, <2>1 DEF MarkRunning, Finalize
  <2>2. CASE HoldUncertain(j)
    BY <1>0, <2>2 DEF HoldUncertain
  <2>3. CASE Publish(j) \/ ReleaseHandles(j) \/ Refresh(j)
    BY <2>3 DEF Publish, ReleaseHandles, Refresh
  <2> QED
    BY <1>4, <2>1, <2>2, <2>3 DEF Persist
<1>5. ASSUME NEW j \in Jobs, NEW k \in Kinds, Admit(j, k) PROVE \A i \in Jobs : Kept(i)
  BY <1>0, <1>5 DEF Admit
<1>6. CASE ExpireAdmissions
  BY <1>0, <1>6 DEF ExpireAdmissions
<1>7. CASE UNCHANGED state
  BY <1>7
<1>8. ASSUME NEW j \in Jobs,
             \/ Spawn(j) \/ Deadline(j) \/ RunnerDies(j) \/ ToolStep(j) \/ Prepare(j)
             \/ Launch(j) \/ LaunchPartly(j) \/ LaunchUnsure(j)
             \/ Collect(j) \/ Dispatch(j) \/ Doubt(j)
      PROVE  UNCHANGED state
  BY <1>8 DEF Spawn, Deadline, RunnerDies, ToolStep, Prepare, Launch, LaunchPartly,
              LaunchUnsure, Collect, Dispatch, Doubt, RootExits, DescendantsEnd,
              KillOnClose, LogBreaks, LogSettles
<1>9. CASE ConsoleStart \/ ConsoleDies \/ ReadPage \/ EndPass \/ PassFails \/ UNCHANGED vars
  BY <1>7, <1>9 DEF ConsoleStart, ConsoleDies, ReadPage, EndPass, PassFails, vars
<1> QED
  BY <1>1, <1>2, <1>3, <1>4, <1>5, <1>6, <1>7, <1>8, <1>9 DEF Next, RunnerStep, PassStep

\* Doubt only gives way to an acknowledged loss, with everything gone.
THEOREM DoubtIsKeptAlways == Spec => DoubtIsKept
<1>1. SafetyInv /\ [Next]_vars =>
        [\A j \in Jobs : state[j] = "uncertain" /\ state'[j] # "uncertain" =>
            /\ state'[j] = "lost"
            /\ pc[j] \in {"done", "dead"} /\ owned[j] # "open"
            /\ native[j] \notin Alive]_vars
  BY KeptStep DEF Kept
<1> QED
  BY <1>1, SafetyAlways, PTL DEF Spec, DoubtIsKept

\* A freed row never changes again.
THEOREM FreedIsFinalAlways == Spec => FreedIsFinal
<1>1. SafetyInv /\ [Next]_vars =>
        [\A j \in Jobs : state[j] \in Freed => state'[j] = state[j]]_vars
  BY KeptStep DEF Kept
<1> QED
  BY <1>1, SafetyAlways, PTL DEF Spec, FreedIsFinal

\* The safety of the job ledger, for any number of jobs and tools.
THEOREM SafetyHolds == Spec => Safety
BY TypeCorrect, ExclusiveToolsAlways, ReleasedMeansDeadAlways, TrueOutcomeAlways,
   DoubtIsKeptAlways, FreedIsFinalAlways, PTL DEF Safety
=============================================================================
