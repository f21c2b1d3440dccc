--------------------------- MODULE JobQueueProofs ---------------------------
(***************************************************************************)
(* What holds of the job queue for every number of jobs, workers, attempts *)
(* and priorities.                                                         *)
(***************************************************************************)
EXTENDS JobQueue, TLAPS

LEMMA TypeInit == Init => TypeOK
  BY QueueAssumption DEF Init, TypeOK, Jobs, NoJob, Statuses, Active, Terminal, Down, Busy

\* Every step of a producer, worker or operator keeps the types.
LEMMA TypeStep == TypeOK /\ [Next]_vars => TypeOK'
<1> SUFFICES ASSUME TypeOK, [Next]_vars PROVE TypeOK'
  OBVIOUS
<1> USE QueueAssumption DEF TypeOK, columns, workerState, operatorState
<1>1. ASSUME NEW k \in Keys \cup {NoKey}, NEW p \in Priorities, NEW d \in {0, RetryDelay},
             Enqueue(k, p, d)
      PROVE  TypeOK'
  <2>1. nextId \in Jobs /\ d \in Nat /\ p \in Nat
    BY <1>1 DEF Enqueue
  <2>2. nextId' \in 1 .. MaxJobs + 1
    BY <1>1 DEF Enqueue, Jobs
  <2>3. priority' \in [Jobs -> Nat] /\ delay' \in [Jobs -> Nat]
    BY <1>1, <2>1 DEF Enqueue
  <2>4. key' \in [Jobs -> Keys \cup {NoKey}] /\ status' \in [Jobs -> Statuses]
    BY <1>1, <2>1 DEF Enqueue, Statuses, Active
  <2> QED
    BY <1>1, <2>2, <2>3, <2>4 DEF Enqueue
<1>2. ASSUME NEW j \in Jobs, Cancel(j) PROVE TypeOK'
  BY <1>2 DEF Cancel, Statuses, Terminal
<1>3. ASSUME NEW w \in Workers, WorkerNext(w) PROVE TypeOK'
  <2>0. ASSUME NextRound(w), pc[w] \in Busy
        PROVE  /\ pc' \in [Workers -> {"idle"} \cup Down \cup Busy]
               /\ task' \in [Workers -> Jobs \cup {NoJob}]
               /\ \A v \in Workers : pc'[v] \in Busy <=> task'[v] # NoJob
               /\ seen' \in [Workers -> SUBSET Jobs]
               /\ epoch' \in [Workers -> Nat]
               /\ runs' = runs /\ operatorState' = operatorState
    <3>1. task[w] \in Jobs /\ Remember(w) \in SUBSET Jobs
      BY <2>0 DEF Remember
    <3>2. seen' \in [Workers -> SUBSET Jobs]
      BY <2>0, <3>1 DEF NextRound
    <3>3. \A v \in Workers : pc'[v] \in Busy <=> task'[v] # NoJob
      BY <2>0 DEF NextRound, Busy, Down
    <3> QED
      BY <2>0, <3>2, <3>3 DEF NextRound
  <2>1. CASE Start(w)
    BY <2>1 DEF Start, Down, Busy
  <2>2. CASE ClaimNext(w)
    <3>1. PICK j \in Jobs :
            /\ status' = [status EXCEPT ![j] = "claimed"]
            /\ attempts' = [attempts EXCEPT ![j] = @ + 1]
            /\ owner' = [owner EXCEPT ![j] = IdOf[w]]
            /\ age' = [age EXCEPT ![j] = 0]
            /\ task' = [task EXCEPT ![w] = j]
            /\ epoch' = [epoch EXCEPT ![w] = attempts[j] + 1]
      BY <2>2 DEF ClaimNext, Claimable
    <3>2. status' \in [Jobs -> Statuses]
      BY <3>1 DEF Statuses, Active
    <3>3. attempts' \in [Jobs -> Nat] /\ age' \in [Jobs -> 0 .. StaleAge]
      BY <3>1
    <3>4. owner' \in [Jobs -> WorkerIds \cup {NoWorker}]
      BY <3>1
    <3>5. task' \in [Workers -> Jobs \cup {NoJob}] /\ epoch' \in [Workers -> Nat]
      BY <3>1
    <3>6. /\ pc' \in [Workers -> {"idle"} \cup Down \cup Busy]
          /\ \A v \in Workers : pc'[v] \in Busy <=> task'[v] # NoJob
      <4>1. j # NoJob
        BY DEF Jobs, NoJob
      <4>2. pc' = [pc EXCEPT ![w] = "claimed"]
        BY <2>2 DEF ClaimNext
      <4>3. pc' \in [Workers -> {"idle"} \cup Down \cup Busy]
        BY <4>2 DEF Busy
      <4>4. ASSUME NEW v \in Workers PROVE pc'[v] \in Busy <=> task'[v] # NoJob
        BY <3>1, <4>1, <4>2 DEF Busy
      <4> QED
        BY <4>3, <4>4
    <3> QED
      BY <2>2, <3>2, <3>3, <3>4, <3>5, <3>6 DEF ClaimNext
  <2>3. CASE MarkRunning(w)
    <3>1. task[w] \in Jobs
      BY <2>3 DEF MarkRunning, Busy
    <3>2. runs' \in [Jobs -> Nat] /\ age' \in [Jobs -> 0 .. StaleAge]
      BY <2>3, <3>1 DEF MarkRunning
    <3>3. status' \in [Jobs -> Statuses]
      BY <2>3, <3>1 DEF MarkRunning, Statuses, Active
    <3>4. /\ pc' \in [Workers -> {"idle"} \cup Down \cup Busy]
          /\ \A v \in Workers : pc'[v] \in Busy <=> task'[v] # NoJob
      BY <2>3 DEF MarkRunning, Busy
    <3> QED
      BY <2>3, <3>2, <3>3, <3>4 DEF MarkRunning
  <2>4. CASE MarkRunningRefused(w)
    BY <2>4 DEF MarkRunningRefused, Busy
  <2>5. CASE HandlerEnds(w)
    BY <2>5 DEF HandlerEnds, Busy
  <2>6. CASE MarkCompleted(w)
    BY <2>0, <2>6 DEF MarkCompleted, Busy, Statuses, Terminal
  <2>7. CASE MarkCompletedRefused(w)
    BY <2>7 DEF MarkCompletedRefused, Busy
  <2>8. CASE RetryLater(w)
    BY <2>0, <2>8 DEF RetryLater, Busy, FailureCategory, Statuses, Active
  <2>9. CASE FailForGood(w)
    BY <2>0, <2>9 DEF FailForGood, Busy, FailureCategory, Statuses, Terminal
  <2>10. CASE RaiseStateError(w)
    BY <2>10 DEF RaiseStateError, Down, Busy
  <2>11. CASE Stop(w)
    BY <2>11 DEF Stop, Down, Busy
  <2>12. CASE Crash(w)
    BY <2>12 DEF Crash, Down, Busy
  <2> QED
    BY <1>3, <2>1, <2>2, <2>3, <2>4, <2>5, <2>6, <2>7, <2>8, <2>9, <2>10, <2>11, <2>12
       DEF WorkerNext, Proceed
<1>4. CASE Preview
  BY <1>4 DEF Preview, DigestLines, Claims, Stale, Held
<1>5. CASE ConfirmRecovery
  BY <1>5 DEF ConfirmRecovery, RecoverRows, RecoveredStatus, Statuses, Active, Terminal
<1>6. CASE Tick
  <2>1. delay' \in [Jobs -> Nat]
    BY <1>6 DEF Tick
  <2>2. age' \in [Jobs -> 0 .. StaleAge]
    BY <1>6 DEF Tick
  <2> QED
    BY <1>6, <2>1, <2>2 DEF Tick
<1>7. CASE UNCHANGED vars
  BY <1>7 DEF vars
<1> QED
  BY <1>1, <1>2, <1>3, <1>4, <1>5, <1>6, <1>7 DEF Next

\* Type correctness: every column and every worker variable keeps its type.
THEOREM TypeCorrect == Spec => []TypeOK
  BY TypeInit, TypeStep, PTL DEF Spec

-----------------------------------------------------------------------------
(* The life of one row.  Every statement of the queue and of the recovery   *)
(* moves a row in one of these ways; the other rows are left alone.         *)

Kept(j) ==
    /\ attempts'[j] = attempts[j]
    /\ runs'[j] = runs[j]
    /\ key'[j] = key[j]

KeptWithCategory(j) == Kept(j) /\ category'[j] = category[j]

Untouched(j) == status'[j] = status[j] /\ owner'[j] = owner[j] /\ KeptWithCategory(j)
Inserted(j) ==
    /\ j = nextId /\ nextId' = nextId + 1
    /\ status'[j] = "pending"
    /\ ~Duplicate(key'[j])
    /\ attempts'[j] = attempts[j] /\ runs'[j] = runs[j] /\ category'[j] = category[j]
Cancelled(j) == status[j] = "pending" /\ status'[j] = "cancelled" /\ KeptWithCategory(j)
Claimed(j) ==
    /\ status[j] = "pending" /\ status'[j] = "claimed"
    /\ attempts'[j] = attempts[j] + 1
    /\ runs'[j] = runs[j] /\ key'[j] = key[j] /\ category'[j] = category[j]
Started(j) ==
    /\ status[j] = "claimed" /\ status'[j] = "running"
    /\ runs'[j] = runs[j] + 1
    /\ attempts'[j] = attempts[j] /\ key'[j] = key[j] /\ category'[j] = category[j]
Completed(j) == status[j] \in Held /\ status'[j] = "completed" /\ KeptWithCategory(j)
Returned(j) ==
    /\ status[j] \in Held /\ status'[j] = "pending"
    /\ attempts[j] < MaxAttempts
    /\ Kept(j) /\ category'[j] \in {category[j], "transient"}
Failed(j) == status[j] \in Held /\ status'[j] = "failed" /\ Kept(j)

RowMove(j) ==
    \/ Cancelled(j) \/ Claimed(j) \/ Started(j)
    \/ Completed(j) \/ Returned(j) \/ Failed(j)

\* At most the next free row is inserted, and then nothing else happens;
\* otherwise no row is inserted and each row stays or makes one move.
TableStep ==
    \/ /\ \E j \in Jobs : Inserted(j) /\ \A i \in Jobs \ {j} : Untouched(i)
    \/ /\ nextId' = nextId
       /\ \A j \in Jobs : Untouched(j) \/ RowMove(j)

\* A step that changes the row of one job leaves the other rows as they were.
LEMMA StepIsTableStep ==
    ASSUME TypeOK, [Next]_vars
    PROVE  TableStep
<1> USE QueueAssumption DEF columns, workerState, operatorState
<1> USE DEF Untouched, Kept, KeptWithCategory
<1>1. ASSUME NEW k \in Keys \cup {NoKey}, NEW p \in Priorities, NEW d \in {0, RetryDelay},
             Enqueue(k, p, d)
      PROVE  TableStep
  <2>1. nextId \in Jobs /\ key'[nextId] = k /\ status'[nextId] = "pending"
    BY <1>1 DEF Enqueue, TypeOK
  <2>2. Inserted(nextId)
    BY <1>1, <2>1 DEF Enqueue, Inserted
  <2>3. \A i \in Jobs \ {nextId} : Untouched(i)
    BY <1>1, <2>1 DEF Enqueue, TypeOK
  <2> QED
    BY <2>1, <2>2, <2>3 DEF TableStep
<1>2. ASSUME NEW j \in Jobs, Cancel(j) PROVE TableStep
  <2>1. Cancelled(j)
    BY <1>2 DEF Cancel, Cancellable, Cancelled, TypeOK
  <2>2. nextId' = nextId /\ \A i \in Jobs \ {j} : Untouched(i)
    BY <1>2 DEF Cancel, TypeOK
  <2> QED
    BY <2>1, <2>2 DEF TableStep, RowMove
<1>3. ASSUME NEW w \in Workers, WorkerNext(w) PROVE TableStep
  <2>1. CASE ClaimNext(w)
    <3>1. PICK j \in Jobs :
            /\ status[j] = "pending"
            /\ status' = [status EXCEPT ![j] = "claimed"]
            /\ attempts' = [attempts EXCEPT ![j] = @ + 1]
            /\ owner' = [owner EXCEPT ![j] = IdOf[w]]
      BY <2>1 DEF ClaimNext, Claimable
    <3>2. UNCHANGED <<nextId, key, category, runs>>
      BY <2>1 DEF ClaimNext
    <3>3. Claimed(j)
      BY <3>1, <3>2 DEF Claimed, TypeOK
    <3>4. \A i \in Jobs \ {j} : Untouched(i)
      BY <3>1, <3>2 DEF TypeOK
    <3> QED
      BY <3>2, <3>3, <3>4 DEF TableStep, RowMove
  <2>2. CASE MarkRunning(w)
    <3>1. task[w] \in Jobs
      BY <2>2 DEF MarkRunning, TypeOK, Busy
    <3>2. Started(task[w])
      BY <2>2, <3>1 DEF MarkRunning, Owns, Started, TypeOK
    <3>3. nextId' = nextId /\ \A i \in Jobs \ {task[w]} : Untouched(i)
      BY <2>2, <3>1 DEF MarkRunning, TypeOK
    <3> QED
      BY <3>1, <3>2, <3>3 DEF TableStep, RowMove
  <2>3. CASE MarkCompleted(w)
    <3>1. task[w] \in Jobs
      BY <2>3 DEF MarkCompleted, TypeOK, Busy
    <3>2. Completed(task[w])
      BY <2>3, <3>1 DEF MarkCompleted, NextRound, Owns, Completed, TypeOK
    <3>3. nextId' = nextId /\ \A i \in Jobs \ {task[w]} : Untouched(i)
      BY <2>3, <3>1 DEF MarkCompleted, NextRound, TypeOK
    <3> QED
      BY <3>1, <3>2, <3>3 DEF TableStep, RowMove
  <2>4. CASE RetryLater(w)
    <3>1. task[w] \in Jobs
      BY <2>4 DEF RetryLater, TypeOK, Busy
    <3>2. attempts[task[w]] < MaxAttempts /\ FailureCategory(w) = "transient"
      BY <2>4, <3>1 DEF RetryLater, Retries, Exhausted, FailureCategory, TypeOK
    <3>3. Returned(task[w])
      BY <2>4, <3>1, <3>2 DEF RetryLater, NextRound, Owns, Returned, TypeOK
    <3>4. nextId' = nextId /\ \A i \in Jobs \ {task[w]} : Untouched(i)
      BY <2>4, <3>1 DEF RetryLater, NextRound, TypeOK
    <3> QED
      BY <3>1, <3>3, <3>4 DEF TableStep, RowMove
  <2>5. CASE FailForGood(w)
    <3>1. task[w] \in Jobs
      BY <2>5 DEF FailForGood, TypeOK, Busy
    <3>2. Failed(task[w])
      BY <2>5, <3>1 DEF FailForGood, NextRound, Owns, Failed, TypeOK
    <3>3. nextId' = nextId /\ \A i \in Jobs \ {task[w]} : Untouched(i)
      BY <2>5, <3>1 DEF FailForGood, NextRound, TypeOK
    <3> QED
      BY <3>1, <3>2, <3>3 DEF TableStep, RowMove
  <2>6. CASE \/ Start(w) \/ Stop(w) \/ Crash(w) \/ MarkRunningRefused(w)
             \/ HandlerEnds(w) \/ MarkCompletedRefused(w) \/ RaiseStateError(w)
    BY <2>6 DEF Start, Stop, Crash, MarkRunningRefused, HandlerEnds, MarkCompletedRefused,
                RaiseStateError, TableStep
  <2> QED
    BY <1>3, <2>1, <2>2, <2>3, <2>4, <2>5, <2>6 DEF WorkerNext, Proceed
<1>4. CASE Preview
  BY <1>4 DEF Preview, TableStep
<1>5. CASE ConfirmRecovery
  <2>1. ASSUME NEW j \in Jobs PROVE Untouched(j) \/ Returned(j) \/ Failed(j)
    <3>1. CASE j \in Stale
      <4>1. status[j] \in Held /\ Kept(j) /\ category'[j] = category[j]
        BY <1>5, <3>1 DEF ConfirmRecovery, RecoverRows, Stale
      <4>2. status'[j] = IF Exhausted(j) THEN "failed" ELSE "pending"
        BY <1>5, <3>1 DEF ConfirmRecovery, RecoverRows, RecoveredStatus
      <4>3. Exhausted(j) \/ attempts[j] < MaxAttempts
        BY DEF Exhausted, TypeOK
      <4> QED
        BY <4>1, <4>2, <4>3 DEF Returned, Failed
    <3>2. CASE j \notin Stale
      BY <1>5, <3>2 DEF ConfirmRecovery, RecoverRows
    <3> QED
      BY <3>1, <3>2
  <2>2. nextId' = nextId
    BY <1>5 DEF ConfirmRecovery, RecoverRows
  <2> QED
    BY <2>1, <2>2 DEF TableStep, RowMove
<1>6. CASE Tick
  BY <1>6 DEF Tick, TableStep
<1>7. CASE UNCHANGED vars
  BY <1>7 DEF vars, TableStep
<1> QED
  BY <1>1, <1>2, <1>3, <1>4, <1>5, <1>6, <1>7 DEF Next

-----------------------------------------------------------------------------
(* The inductive invariant of the table: a row that was not inserted yet is *)
(* blank, a claimed row has a try that no handler used yet, and a pending   *)
(* row has a try left.                                                      *)
RowInv(j) ==
    /\ nextId <= j => status[j] = "none" /\ attempts[j] = 0 /\ category[j] = "none"
    /\ runs[j] <= attempts[j]
    /\ status[j] = "claimed" => runs[j] < attempts[j]
    /\ attempts[j] <= MaxAttempts
    /\ status[j] = "pending" => attempts[j] < MaxAttempts
    /\ category[j] = "permanent" => status[j] = "failed"

TableInv == UniqueActive /\ \A j \in Jobs : RowInv(j)

LEMMA TableInvInit == Init => TableInv
  BY QueueAssumption DEF Init, TableInv, UniqueActive, RowInv, Active

LEMMA TableInvStep ==
    ASSUME TypeOK, TypeOK', TableInv, [Next]_vars
    PROVE  TableInv'
<1> USE QueueAssumption
<1>0. TableStep
  BY StepIsTableStep
<1>1. CASE \E j \in Jobs : Inserted(j) /\ \A i \in Jobs \ {j} : Untouched(i)
  <2>1. PICK j \in Jobs : Inserted(j) /\ \A i \in Jobs \ {j} : Untouched(i)
    BY <1>1
  <2>0. j = nextId /\ nextId' = nextId + 1 /\ nextId \in Nat
    BY <2>1 DEF Inserted, TypeOK
  <2>2. RowInv(j)'
    <3>1. RowInv(j) /\ attempts[j] = 0 /\ category[j] = "none" /\ runs[j] <= 0
      BY <2>0 DEF TableInv, RowInv
    <3> QED
      BY <2>0, <2>1, <3>1 DEF Inserted, RowInv
  <2>3. ASSUME NEW i \in Jobs \ {j} PROVE RowInv(i)'
    <3>1. RowInv(i) /\ i \in Nat
      BY DEF TableInv, Jobs
    <3> QED
      BY <2>0, <2>1, <3>1 DEF Untouched, KeptWithCategory, Kept, RowInv
  <2>4. UniqueActive'
    <3> SUFFICES ASSUME NEW a \in Jobs, NEW b \in Jobs, key'[a] = key'[b], key'[a] # NoKey,
                        status'[a] \in Active, status'[b] \in Active
                 PROVE  a = b
      BY DEF UniqueActive
    <3>1. \A i \in Jobs \ {j} : key'[i] = key[i] /\ status'[i] = status[i]
      BY <2>1 DEF Untouched, KeptWithCategory, Kept
    <3>2. ~Duplicate(key'[j])
      BY <2>1 DEF Inserted
    <3>3. CASE a = j \/ b = j
      BY <3>1, <3>2, <3>3 DEF Duplicate
    <3>4. CASE a # j /\ b # j
      BY <3>1, <3>4 DEF TableInv, UniqueActive
    <3> QED
      BY <3>3, <3>4
  <2> QED
    BY <2>2, <2>3, <2>4 DEF TableInv
<1>2. CASE nextId' = nextId /\ \A j \in Jobs : Untouched(j) \/ RowMove(j)
  <2>1. ASSUME NEW j \in Jobs PROVE RowInv(j)'
    <3>1. RowInv(j) /\ attempts[j] \in Nat /\ runs[j] \in Nat
      BY DEF TableInv, TypeOK
    <3>2. CASE Untouched(j)
      BY <1>2, <3>1, <3>2 DEF Untouched, KeptWithCategory, Kept, RowInv
    <3>3. CASE Cancelled(j) \/ Completed(j)
      BY <1>2, <3>1, <3>3 DEF Cancelled, Completed, KeptWithCategory, Kept, RowInv, Held
    <3>4. CASE Claimed(j) \/ Started(j)
      BY <1>2, <3>1, <3>4 DEF Claimed, Started, RowInv
    <3>5. CASE Returned(j) \/ Failed(j)
      BY <1>2, <3>1, <3>5 DEF Returned, Failed, Kept, RowInv, Held
    <3> QED
      BY <1>2, <3>2, <3>3, <3>4, <3>5 DEF RowMove
  <2>2. ASSUME NEW j \in Jobs
        PROVE  key'[j] = key[j] /\ (status'[j] \in Active => status[j] \in Active)
    <3>1. CASE Untouched(j)
      BY <3>1 DEF Untouched, KeptWithCategory, Kept
    <3>2. CASE RowMove(j)
      BY <3>2 DEF RowMove, Cancelled, Claimed, Started, Completed, Returned, Failed,
                  KeptWithCategory, Kept, Active, Held
    <3> QED
      BY <1>2, <3>1, <3>2
  <2>3. UniqueActive'
    BY <2>2 DEF TableInv, UniqueActive
  <2> QED
    BY <2>1, <2>3 DEF TableInv
<1> QED
  BY <1>0, <1>1, <1>2 DEF TableStep

THEOREM TableInvariant == Spec => [](TypeOK /\ TableInv)
<1>1. Init => TypeOK /\ TableInv
  BY TableInvInit, TypeInit
<1>2. TypeOK /\ TableInv /\ [Next]_vars => (TypeOK /\ TableInv)'
  BY TypeStep, TableInvStep
<1> QED
  BY <1>1, <1>2, PTL DEF Spec

\* idx_jobs_unique_active together with the transitions of the queue: there is
\* never a second active row for a (job_type, archive_id).
THEOREM UniqueActiveAlways == Spec => []UniqueActive
<1>1. TableInv => UniqueActive
  BY DEF TableInv
<1> QED
  BY <1>1, TableInvariant, PTL

\* No job is claimed, and no handler started, more often than max_attempts,
\* whatever the operator's recovery interleaves with.
THEOREM AttemptBudgetAlways == Spec => []AttemptBudget
<1>1. TableInv => AttemptBudget
  BY DEF TableInv, RowInv, AttemptBudget
<1> QED
  BY <1>1, TableInvariant, PTL

\* A permanent failure category is evidence of a permanent failure.
THEOREM PermanentIsFailedAlways == Spec => []PermanentIsFailed
<1>1. TableInv => PermanentIsFailed
  BY DEF TableInv, RowInv, PermanentIsFailed
<1> QED
  BY <1>1, TableInvariant, PTL

\* Terminal rows are never written again.
THEOREM TerminalIsFinalAlways == Spec => TerminalIsFinal
<1>1. TypeOK /\ TableInv /\ [Next]_vars =>
        [\A j \in Jobs : status[j] \in Terminal =>
            status'[j] = status[j] /\ attempts'[j] = attempts[j]
                /\ owner'[j] = owner[j] /\ category'[j] = category[j]]_vars
  <2> SUFFICES ASSUME TypeOK, TableInv, [Next]_vars, NEW j \in Jobs, status[j] \in Terminal
               PROVE  Untouched(j)
    BY DEF Untouched, KeptWithCategory, Kept
  <2>1. TableStep
    BY StepIsTableStep
  <2>2. ~RowMove(j)
    BY DEF RowMove, Cancelled, Claimed, Started, Completed, Returned, Failed, Terminal, Held
  <2>3. ~Inserted(j)
    <3>1. nextId <= j => status[j] = "none"
      BY DEF TableInv, RowInv
    <3>2. ~(nextId <= j)
      BY <3>1 DEF Terminal
    <3> QED
      BY <3>2, QueueAssumption DEF Inserted, Jobs, TypeOK
  <2> QED
    BY <2>1, <2>2, <2>3 DEF TableStep
<1> QED
  BY <1>1, TableInvariant, PTL DEF Spec, TerminalIsFinal

\* The queue implements the life cycle it promises, one job at a time.
THEOREM QueueImplementsLifecycle == Spec => ImplementsLifecycle
<1>1. Init => Lifecycle!Init
  BY DEF Init, Lifecycle!Init, Phase, Held, Terminal
<1>2. TypeOK /\ TableInv /\ [Next]_vars => [Lifecycle!Next]_(Lifecycle!vars)
  <2> SUFFICES ASSUME TypeOK, TableInv, [Next]_vars PROVE Lifecycle!Next
    OBVIOUS
  <2>1. TableStep
    BY StepIsTableStep
  <2>2. TypeOK'
    BY TypeStep
  <2>3. ASSUME NEW j \in Jobs
        PROVE  \/ Lifecycle!Submit(j) \/ Lifecycle!Withdraw(j) \/ Lifecycle!Take(j)
               \/ Lifecycle!Settle(j) \/ Lifecycle!Return(j) \/ Lifecycle!Stay(j)
    <3> USE DEF Phase, Held, Terminal, Lifecycle!Moves
    <3>1. CASE Untouched(j)
      BY <3>1 DEF Untouched, KeptWithCategory, Kept, Lifecycle!Stay
    <3>2. CASE Inserted(j)
      BY <3>2 DEF Inserted, TableInv, RowInv, Lifecycle!Submit, TypeOK, Jobs
    <3>3. CASE Cancelled(j)
      BY <3>3 DEF Cancelled, KeptWithCategory, Kept, Lifecycle!Withdraw
    <3>4. CASE Claimed(j)
      BY <3>4 DEF Claimed, TableInv, RowInv, Lifecycle!Take
    <3>5. CASE Started(j)
      BY <3>5 DEF Started, Lifecycle!Stay
    <3>6. CASE Completed(j) \/ Failed(j)
      BY <3>6 DEF Completed, Failed, KeptWithCategory, Kept, Lifecycle!Settle
    <3>7. CASE Returned(j)
      BY <3>7 DEF Returned, Kept, Lifecycle!Return
    <3> QED
      BY <2>1, <3>1, <3>2, <3>3, <3>4, <3>5, <3>6, <3>7 DEF TableStep, RowMove
  <2> QED
    BY <2>2, <2>3 DEF Lifecycle!Next, TypeOK
<1> QED
  BY <1>1, <1>2, TableInvariant, PTL DEF Spec, ImplementsLifecycle, Lifecycle!Spec

-----------------------------------------------------------------------------
(* Claims and their owners.                                                 *)

\* The claim that opens attempt epoch'[v] of job j for worker v.
Opens(v, j) ==
    /\ pc[v] = "idle" /\ pc'[v] = "claimed" /\ task'[v] = j
    /\ status[j] = "pending" /\ status'[j] = "claimed"
    /\ owner'[j] = IdOf[v] /\ epoch'[v] = attempts'[j]

\* A row that is held after a step was held before with the same owner and
\* attempt, or has just been claimed.
HeldStep(j) ==
    \/ status'[j] \notin Held
    \/ status[j] \in Held /\ owner'[j] = owner[j] /\ attempts'[j] = attempts[j]
    \/ \E v \in Workers : Opens(v, j)

\* A worker that is busy after a step was busy with the same claim, or has just
\* claimed.
BusyStep(w) ==
    \/ pc'[w] \notin Busy
    \/ pc[w] \in Busy /\ task'[w] = task[w] /\ epoch'[w] = epoch[w]
    \/ \E j \in Jobs : Opens(w, j)

LEMMA ClaimSteps ==
    ASSUME TypeOK, [Next]_vars
    PROVE  (\A j \in Jobs : HeldStep(j)) /\ (\A w \in Workers : BusyStep(w))
<1> USE QueueAssumption DEF columns, workerState, operatorState, HeldStep, BusyStep
<1>1. ASSUME NEW k \in Keys \cup {NoKey}, NEW p \in Priorities, NEW d \in {0, RetryDelay},
             Enqueue(k, p, d)
      PROVE  (\A j \in Jobs : HeldStep(j)) /\ (\A w \in Workers : BusyStep(w))
  BY <1>1 DEF Enqueue, TypeOK, Held
<1>2. ASSUME NEW i \in Jobs, Cancel(i)
      PROVE  (\A j \in Jobs : HeldStep(j)) /\ (\A w \in Workers : BusyStep(w))
  BY <1>2 DEF Cancel, TypeOK, Held
<1>3. ASSUME NEW v \in Workers, WorkerNext(v)
      PROVE  (\A j \in Jobs : HeldStep(j)) /\ (\A w \in Workers : BusyStep(w))
  <2>1. CASE ClaimNext(v)
    <3>1. PICK i \in Jobs :
            /\ status[i] = "pending"
            /\ status' = [status EXCEPT ![i] = "claimed"]
            /\ attempts' = [attempts EXCEPT ![i] = @ + 1]
            /\ owner' = [owner EXCEPT ![i] = IdOf[v]]
            /\ task' = [task EXCEPT ![v] = i]
            /\ epoch' = [epoch EXCEPT ![v] = attempts[i] + 1]
      BY <2>1 DEF ClaimNext, Claimable
    <3>2. pc[v] = "idle" /\ pc' = [pc EXCEPT ![v] = "claimed"]
      BY <2>1 DEF ClaimNext
    <3>3. Opens(v, i)
      BY <3>1, <3>2 DEF Opens, TypeOK
    <3>4. \A j \in Jobs \ {i} : HeldStep(j)
      BY <3>1 DEF TypeOK
    <3>5. \A w \in Workers \ {v} : BusyStep(w)
      BY <3>1, <3>2 DEF TypeOK
    <3> QED
      BY <3>3, <3>4, <3>5
  <2>2. CASE MarkRunning(v)
    BY <2>2 DEF MarkRunning, Owns, TypeOK, Held, Busy
  <2>3. CASE MarkCompleted(v)
    BY <2>3 DEF MarkCompleted, NextRound, TypeOK, Held, Busy
  <2>4. CASE RetryLater(v)
    BY <2>4 DEF RetryLater, NextRound, TypeOK, Held, Busy
  <2>5. CASE FailForGood(v)
    BY <2>5 DEF FailForGood, NextRound, TypeOK, Held, Busy
  <2>6. CASE Start(v) \/ Stop(v) \/ Crash(v) \/ RaiseStateError(v)
    BY <2>6 DEF Start, Stop, Crash, RaiseStateError, TypeOK, Busy
  <2>7. CASE MarkRunningRefused(v) \/ HandlerEnds(v) \/ MarkCompletedRefused(v)
    BY <2>7 DEF MarkRunningRefused, HandlerEnds, MarkCompletedRefused, TypeOK, Busy
  <2> QED
    BY <1>3, <2>1, <2>2, <2>3, <2>4, <2>5, <2>6, <2>7 DEF WorkerNext, Proceed
<1>4. CASE Preview
  BY <1>4 DEF Preview
<1>5. CASE ConfirmRecovery
  BY <1>5 DEF ConfirmRecovery, RecoverRows, RecoveredStatus, Held
<1>6. CASE Tick
  BY <1>6 DEF Tick
<1>7. CASE UNCHANGED vars
  BY <1>7 DEF vars
<1> QED
  BY <1>1, <1>2, <1>3, <1>4, <1>5, <1>6, <1>7 DEF Next

\* When no two workers write the same worker_id, the ownership check fences a
\* worker whose job was recovered under it and claimed again by another.
THEOREM OwnerFences ==
    ASSUME \A v, w \in Workers : IdOf[v] = IdOf[w] => v = w
    PROVE  Spec => []FencedByOwner
<1>1. Init => FencedByOwner
  BY DEF Init, FencedByOwner, Busy
<1>2. TypeOK /\ FencedByOwner /\ [Next]_vars => FencedByOwner'
  <2> SUFFICES ASSUME TypeOK, FencedByOwner, [Next]_vars, NEW w \in Workers,
                      pc'[w] \in Busy, Owns(w, Held)'
               PROVE  attempts'[task'[w]] = epoch'[w]
    BY DEF FencedByOwner
  <2>1. BusyStep(w) /\ TypeOK'
    BY ClaimSteps, TypeStep
  <2>2. CASE \E j \in Jobs : Opens(w, j)
    BY <2>2 DEF Opens
  <2>3. CASE pc[w] \in Busy /\ task'[w] = task[w] /\ epoch'[w] = epoch[w]
    <3>1. task[w] \in Jobs
      BY <2>3 DEF TypeOK
    <3>2. HeldStep(task[w])
      BY <3>1, ClaimSteps
    <3>3. ASSUME NEW v \in Workers, Opens(v, task[w]) PROVE FALSE
      <4>1. v = w
        BY <2>3, <3>3 DEF Opens, Owns
      <4> QED
        BY <2>3, <3>3, <4>1 DEF Opens, Busy
    <3>4. status[task[w]] \in Held /\ owner'[task[w]] = owner[task[w]]
            /\ attempts'[task[w]] = attempts[task[w]]
      BY <2>3, <3>2, <3>3 DEF HeldStep, Owns
    <3> QED
      BY <2>3, <3>4 DEF FencedByOwner, Owns
  <2> QED
    BY <2>1, <2>2, <2>3 DEF BusyStep
<1> QED
  BY <1>1, <1>2, TypeCorrect, PTL DEF Spec

\* The strengthening of ExclusiveClaim: two busy workers hold different jobs, so
\* what one of them does to its row disturbs no other.
ClaimOf(w) ==
    /\ Owns(w, Held)
    /\ attempts[task[w]] = epoch[w]
    /\ status[task[w]] = "claimed" <=> pc[w] = "claimed"

ExclusiveInv ==
    /\ \A w \in Workers : pc[w] # "died"
    /\ \A w \in Workers : pc[w] \in Busy => ClaimOf(w)
    /\ \A v, w \in Workers : pc[v] \in Busy /\ pc[w] \in Busy /\ v # w => task[v] # task[w]

LEMMA ExclusiveStep ==
    ASSUME StopIsReal, TypeOK, TableInv, ExclusiveInv, [Next]_vars
    PROVE  ExclusiveInv'
<1> USE QueueAssumption DEF columns, workerState, operatorState, ExclusiveInv
<1> DEFINE RowKept(j) == status'[j] = status[j] /\ owner'[j] = owner[j]
                            /\ attempts'[j] = attempts[j]
           Same(w) == pc'[w] = pc[w] /\ task'[w] = task[w] /\ epoch'[w] = epoch[w]
\* A step of no worker, or of one that leaves the jobs of the others alone.
<1>1. ASSUME NEW W \in SUBSET Workers,
             \A w \in W : Same(w) /\ (pc[w] \in Busy => RowKept(task[w])),
             \A w \in Workers \ W : pc'[w] \notin Busy \cup {"died"}
      PROVE  ExclusiveInv'
  <2>1. ASSUME NEW w \in Workers, pc'[w] \in Busy PROVE ClaimOf(w)' /\ w \in W
    BY <1>1, <2>1 DEF ClaimOf, Owns
  <2>2. \A w \in Workers : pc'[w] # "died"
    BY <1>1
  <2>3. ASSUME NEW v \in Workers, NEW w \in Workers, pc'[v] \in Busy, pc'[w] \in Busy, v # w
        PROVE  task'[v] # task'[w]
    BY <1>1, <2>1, <2>3
  <2> QED
    BY <2>1, <2>2, <2>3
\* A step of worker v that keeps it busy with the same job.
<1>2. ASSUME NEW v \in Workers, pc[v] \in Busy, pc'[v] \in Busy,
             task' = task, epoch' = epoch, ClaimOf(v)',
             \A w \in Workers \ {v} : pc'[w] = pc[w],
             \A j \in Jobs \ {task[v]} : RowKept(j)
      PROVE  ExclusiveInv'
  <2>1. ASSUME NEW w \in Workers \ {v}, pc'[w] \in Busy PROVE ClaimOf(w)'
    <3>1. task[w] \in Jobs \ {task[v]} /\ pc[w] \in Busy
      BY <1>2, <2>1 DEF TypeOK
    <3> QED
      BY <1>2, <2>1, <3>1 DEF ClaimOf, Owns
  <2>2. \A w \in Workers : pc'[w] # "died"
    BY <1>2 DEF Busy
  <2>3. ASSUME NEW u \in Workers, NEW w \in Workers, pc'[u] \in Busy, pc'[w] \in Busy, u # w
        PROVE  task'[u] # task'[w]
    BY <1>2, <2>3
  <2> QED
    BY <1>2, <2>1, <2>2, <2>3
<1>3. ASSUME NEW k \in Keys \cup {NoKey}, NEW p \in Priorities, NEW d \in {0, RetryDelay},
             Enqueue(k, p, d)
      PROVE  ExclusiveInv'
  <2>1. nextId \in Jobs /\ status[nextId] = "none"
    BY <1>3 DEF Enqueue, TableInv, RowInv, TypeOK, Jobs
  <2>2. \A w \in Workers : Same(w) /\ (pc[w] \in Busy => RowKept(task[w]))
    BY <1>3, <2>1 DEF Enqueue, TypeOK, ClaimOf, Owns, Held
  <2> QED
    BY <1>1, <2>2
<1>4. ASSUME NEW j \in Jobs, Cancel(j) PROVE ExclusiveInv'
  <2>1. \A w \in Workers : Same(w) /\ (pc[w] \in Busy => RowKept(task[w]))
    BY <1>4 DEF Cancel, Cancellable, TypeOK, ClaimOf, Owns, Held
  <2> QED
    BY <1>1, <2>1
<1>5. ASSUME NEW v \in Workers, WorkerNext(v) PROVE ExclusiveInv'
  <2>0. ASSUME pc[v] \in Busy, ~Owns(v, Held) PROVE FALSE
    BY <2>0 DEF ClaimOf
  <2>1. CASE ClaimNext(v)
    <3>1. PICK i \in Jobs :
            /\ status[i] = "pending"
            /\ status' = [status EXCEPT ![i] = "claimed"]
            /\ attempts' = [attempts EXCEPT ![i] = @ + 1]
            /\ owner' = [owner EXCEPT ![i] = IdOf[v]]
            /\ task' = [task EXCEPT ![v] = i]
            /\ epoch' = [epoch EXCEPT ![v] = attempts[i] + 1]
      BY <2>1 DEF ClaimNext, Claimable
    <3>2. pc[v] = "idle" /\ pc' = [pc EXCEPT ![v] = "claimed"]
      BY <2>1 DEF ClaimNext
    <3>3. ClaimOf(v)'
      BY <3>1, <3>2 DEF ClaimOf, Owns, TypeOK, Held
    <3>4. ASSUME NEW w \in Workers \ {v}, pc'[w] \in Busy PROVE ClaimOf(w)' /\ task'[w] # i
      <4>1. pc[w] \in Busy /\ task[w] \in Jobs /\ Same(w)
        BY <3>1, <3>2, <3>4 DEF TypeOK
      <4>2. task[w] # i
        BY <3>1, <4>1 DEF ClaimOf, Owns, Held
      <4> QED
        BY <3>1, <4>1, <4>2 DEF ClaimOf, Owns, TypeOK
    <3>5. \A w \in Workers : pc'[w] # "died"
      BY <3>2 DEF TypeOK
    <3>6. ASSUME NEW u \in Workers, NEW w \in Workers, pc'[u] \in Busy, pc'[w] \in Busy, u # w
          PROVE  task'[u] # task'[w]
      <4>1. CASE u = v \/ w = v
        BY <3>1, <3>4, <3>6, <4>1 DEF TypeOK
      <4>2. CASE u # v /\ w # v
        BY <3>1, <3>2, <3>6, <4>2 DEF TypeOK
      <4> QED
        BY <4>1, <4>2
    <3> QED
      BY <3>3, <3>4, <3>5, <3>6
  <2>2. CASE MarkRunning(v)
    <3>1. pc[v] \in Busy /\ task[v] \in Jobs
      BY <2>2 DEF MarkRunning, Busy, TypeOK
    <3>2. pc' = [pc EXCEPT ![v] = "running"] /\ status' = [status EXCEPT ![task[v]] = "running"]
            /\ owner' = owner /\ attempts' = attempts /\ task' = task /\ epoch' = epoch
      BY <2>2 DEF MarkRunning
    <3>3. ClaimOf(v)'
      BY <3>1, <3>2 DEF ClaimOf, Owns, TypeOK, Held
    <3>4. \A j \in Jobs \ {task[v]} : RowKept(j)
      BY <3>2 DEF TypeOK
    <3>5. pc'[v] \in Busy /\ \A w \in Workers \ {v} : pc'[w] = pc[w]
      BY <3>2 DEF TypeOK, Busy
    <3> QED
      BY <1>2, <3>1, <3>2, <3>3, <3>4, <3>5
  <2>3. CASE HandlerEnds(v)
    <3>1. pc[v] = "running" /\ task[v] \in Jobs
      BY <2>3 DEF HandlerEnds, Busy, TypeOK
    <3>2. PICK end \in {"handled", "failing", "failingForGood"} : pc' = [pc EXCEPT ![v] = end]
      BY <2>3 DEF HandlerEnds
    <3>3. UNCHANGED <<status, owner, attempts, task, epoch>>
      BY <2>3 DEF HandlerEnds
    <3>4. ClaimOf(v)'
      BY <3>1, <3>2, <3>3 DEF ClaimOf, Owns, TypeOK, Busy
    <3>5. pc[v] \in Busy /\ pc'[v] \in Busy /\ \A w \in Workers \ {v} : pc'[w] = pc[w]
      BY <3>1, <3>2 DEF TypeOK, Busy
    <3> QED
      BY <1>2, <3>3, <3>4, <3>5
  \* The steps that end a round give the job up and touch no other row.
  <2>4. CASE MarkCompleted(v) \/ RetryLater(v) \/ FailForGood(v)
    <3>1. pc[v] \in Busy /\ task[v] \in Jobs /\ pc' = [pc EXCEPT ![v] = "idle"]
      BY <2>4 DEF MarkCompleted, RetryLater, FailForGood, NextRound, Busy, TypeOK
    <3>2. ASSUME NEW w \in Workers \ {v}
          PROVE  Same(w) /\ (pc[w] \in Busy => RowKept(task[w]))
      <4>1. Same(w)
        BY <2>4 DEF MarkCompleted, RetryLater, FailForGood, NextRound, TypeOK
      <4>2. \A j \in Jobs \ {task[v]} : RowKept(j)
        BY <2>4 DEF MarkCompleted, RetryLater, FailForGood, NextRound, TypeOK
      <4> QED
        BY <3>1, <4>1, <4>2 DEF TypeOK
    <3>3. pc'[v] \notin Busy \cup {"died"}
      BY <3>1 DEF Busy, TypeOK
    <3> QED
      BY <1>1, <3>2, <3>3
  <2>5. CASE Start(v) \/ Stop(v) \/ Crash(v)
    <3>1. pc'[v] \notin Busy \cup {"died"}
      BY <2>5 DEF Start, Stop, Crash, Busy, TypeOK
    <3>2. \A w \in Workers \ {v} : Same(w) /\ (pc[w] \in Busy => RowKept(task[w]))
      BY <2>5 DEF Start, Stop, Crash, TypeOK
    <3> QED
      BY <1>1, <3>1, <3>2
  \* No transition of a worker is refused.
  <2>6. ~MarkRunningRefused(v)
    <3>1. ASSUME MarkRunningRefused(v) PROVE FALSE
      BY <2>0, <3>1 DEF MarkRunningRefused, ClaimOf, Owns, Busy
    <3> QED
      BY <3>1
  <2>7. ~MarkCompletedRefused(v) /\ ~RaiseStateError(v)
    BY <2>0 DEF MarkCompletedRefused, RaiseStateError, Busy
  <2> QED
    BY <1>5, <2>1, <2>2, <2>3, <2>4, <2>5, <2>6, <2>7 DEF WorkerNext, Proceed
<1>6. CASE Preview \/ Tick \/ UNCHANGED vars
  <2>1. \A w \in Workers : Same(w) /\ (pc[w] \in Busy => RowKept(task[w]))
    BY <1>6 DEF Preview, Tick, vars
  <2> QED
    BY <1>1, <2>1
<1>7. CASE ConfirmRecovery
  <2>1. \A w \in Workers : pc[w] \notin Busy
    BY <1>7 DEF ConfirmRecovery, Busy, Down
  <2>2. \A w \in Workers : Same(w)
    BY <1>7 DEF ConfirmRecovery
  <2> QED
    BY <1>1, <2>1, <2>2
<1> QED
  BY <1>3, <1>4, <1>5, <1>6, <1>7 DEF Next

\* As long as recovery is only confirmed while no worker runs, the queue gives a
\* job to one worker at a time, and no worker meets JobWorkerStateError.
THEOREM ExclusiveClaimAlways ==
    ASSUME StopIsReal
    PROVE  Spec => []ExclusiveClaim
<1>1. Init => ExclusiveInv
  BY DEF Init, ExclusiveInv, Busy
<1>2. TypeOK /\ TableInv /\ ExclusiveInv /\ [Next]_vars => ExclusiveInv'
  BY ExclusiveStep
<1>3. ExclusiveInv => ExclusiveClaim
  BY DEF ExclusiveInv, ExclusiveClaim, ClaimOf
<1> QED
  BY <1>1, <1>2, <1>3, TableInvariant, PTL DEF Spec

-----------------------------------------------------------------------------
(* What the operator reviewed.                                              *)

\* The digest lines and the claims behind them are of the same jobs and attempts,
\* and a claim that still has its row has it for the owner that was reviewed:
\* a new owner opens a new attempt.
Reviewed(c) ==
    /\ \E l \in reviewed : l.job = c.job /\ l.attempts = c.attempts
    /\ c.attempts <= attempts[c.job]
    /\ status[c.job] \in Held /\ attempts[c.job] = c.attempts => owner[c.job] = c.owner

ReviewedInv ==
    /\ \A c \in reviewedClaims : Reviewed(c)
    /\ \A l \in reviewed : \E c \in reviewedClaims : l.job = c.job /\ l.attempts = c.attempts

LEMMA PreviewReviews ==
    ASSUME TypeOK, Preview
    PROVE  ReviewedInv'
<1>1. /\ reviewed' = DigestLines /\ reviewedClaims' = Claims(Stale)
      /\ UNCHANGED <<attempts, status, owner>>
  BY DEF Preview, columns
<1>2. ASSUME NEW c \in reviewedClaims' PROVE Reviewed(c)'
  <2>1. PICK j \in Stale : c = [job |-> j, attempts |-> attempts[j], owner |-> owner[j]]
    BY <1>1 DEF Claims
  <2>2. [job |-> j, status |-> status[j], attempts |-> attempts[j]] \in reviewed'
    BY <1>1 DEF DigestLines
  <2>3. attempts[j] \in Nat
    BY DEF Stale, TypeOK
  <2> QED
    BY <1>1, <2>1, <2>2, <2>3 DEF Reviewed
<1>3. ASSUME NEW l \in reviewed'
      PROVE  \E c \in reviewedClaims' : l.job = c.job /\ l.attempts = c.attempts
  <2>1. PICK j \in Stale : l = [job |-> j, status |-> status[j], attempts |-> attempts[j]]
    BY <1>1 DEF DigestLines
  <2>2. [job |-> j, attempts |-> attempts[j], owner |-> owner[j]] \in reviewedClaims'
    BY <1>1 DEF Claims
  <2> QED
    BY <2>1, <2>2
<1> QED
  BY <1>2, <1>3 DEF ReviewedInv

\* No row loses an attempt, and one that is claimed gains one.
LEMMA AttemptsGrow ==
    ASSUME TypeOK, [Next]_vars, NEW j \in Jobs
    PROVE  /\ attempts'[j] \in Nat /\ attempts[j] \in Nat /\ attempts'[j] >= attempts[j]
           /\ status'[j] \in Held =>
                 \/ status[j] \in Held /\ owner'[j] = owner[j]
                 \/ attempts'[j] > attempts[j]
<1>1. HeldStep(j) /\ TypeOK'
  BY ClaimSteps, TypeStep
<1>2. TableStep
  BY StepIsTableStep
<1>3. attempts'[j] \in Nat /\ attempts[j] \in Nat
  BY <1>1 DEF TypeOK
<1>4. attempts'[j] = attempts[j] \/ (attempts'[j] = attempts[j] + 1)
  BY <1>2 DEF TableStep, RowMove, Untouched, Inserted, Cancelled, Claimed, Started, Completed,
              Returned, Failed, KeptWithCategory, Kept
<1>5. ASSUME NEW v \in Workers, Opens(v, j) PROVE attempts'[j] = attempts[j] + 1
  <2>1. status[j] = "pending" /\ status'[j] = "claimed"
    BY <1>5 DEF Opens
  <2>2. Claimed(j)
    BY <1>2, <2>1 DEF TableStep, RowMove, Untouched, Inserted, Cancelled, Started, Completed,
                      Returned, Failed, Held
  <2> QED
    BY <2>2 DEF Claimed
<1> QED
  BY <1>1, <1>3, <1>4, <1>5 DEF HeldStep

LEMMA ReviewedStep ==
    ASSUME TypeOK, ReviewedInv, [Next]_vars
    PROVE  ReviewedInv'
<1>1. CASE Preview
  BY <1>1, PreviewReviews
<1>2. CASE UNCHANGED operatorState
  <2>1. UNCHANGED <<reviewed, reviewedClaims>>
    BY <1>2 DEF operatorState
  <2>2. ASSUME NEW c \in reviewedClaims PROVE Reviewed(c)'
    <3>1. Reviewed(c) /\ c.job \in Jobs /\ c.attempts \in Nat
      BY DEF ReviewedInv, TypeOK
    <3>2. /\ attempts'[c.job] \in Nat /\ attempts[c.job] \in Nat
          /\ attempts'[c.job] >= attempts[c.job]
          /\ status'[c.job] \in Held =>
                 \/ status[c.job] \in Held /\ owner'[c.job] = owner[c.job]
                 \/ attempts'[c.job] > attempts[c.job]
      BY <3>1, AttemptsGrow
    <3> QED
      BY <2>1, <3>1, <3>2 DEF Reviewed
  <2> QED
    BY <2>1, <2>2 DEF ReviewedInv
<1>3. Preview \/ UNCHANGED operatorState
  <2>1. ASSUME NEW w \in Workers, WorkerNext(w) PROVE UNCHANGED operatorState
    BY <2>1 DEF WorkerNext, Proceed, Start, ClaimNext, MarkRunning, MarkRunningRefused,
                HandlerEnds, MarkCompleted, MarkCompletedRefused, RetryLater, FailForGood,
                RaiseStateError, Stop, Crash, NextRound, operatorState
  <2> QED
    BY <2>1 DEF Next, Enqueue, Cancel, ConfirmRecovery, Tick, vars, operatorState
<1> QED
  BY <1>1, <1>2, <1>3

\* The recovery releases the claims that were reviewed, and no others: whatever
\* happened between the report and --confirm, it changed a digest line.
LEMMA RecoveryReleasesReviewed ==
    ASSUME TypeOK, ReviewedInv, ConfirmRecovery
    PROVE  Claims({j \in Jobs : status[j] \in Held /\ status'[j] \notin Held}) = reviewedClaims
<1>1. {j \in Jobs : status[j] \in Held /\ status'[j] \notin Held} = Stale
  BY DEF ConfirmRecovery, RecoverRows, RecoveredStatus, Stale, Held
<1>2. reviewed = DigestLines
  BY DEF ConfirmRecovery, SnapshotMatches
<1>3. ASSUME NEW j \in Stale
      PROVE  [job |-> j, attempts |-> attempts[j], owner |-> owner[j]] \in reviewedClaims
  <2>1. [job |-> j, status |-> status[j], attempts |-> attempts[j]] \in reviewed
    BY <1>2 DEF DigestLines
  <2>2. PICK c \in reviewedClaims : c.job = j /\ c.attempts = attempts[j]
    BY <2>1 DEF ReviewedInv
  <2>3. c.owner = owner[j]
    BY <2>2 DEF ReviewedInv, Reviewed, Stale
  <2>4. c = [job |-> c.job, attempts |-> c.attempts, owner |-> c.owner]
    BY DEF TypeOK
  <2> QED
    BY <2>2, <2>3, <2>4
<1>4. ASSUME NEW c \in reviewedClaims
      PROVE  \E j \in Stale : c = [job |-> j, attempts |-> attempts[j], owner |-> owner[j]]
  <2>1. PICK l \in reviewed : l.job = c.job /\ l.attempts = c.attempts
    BY DEF ReviewedInv, Reviewed
  <2>2. PICK j \in Stale : l = [job |-> j, status |-> status[j], attempts |-> attempts[j]]
    BY <1>2 DEF DigestLines
  <2>3. c.job = j /\ c.attempts = attempts[j]
    BY <2>1, <2>2
  <2>4. c.owner = owner[j]
    BY <2>3 DEF ReviewedInv, Reviewed, Stale
  <2>5. c = [job |-> c.job, attempts |-> c.attempts, owner |-> c.owner]
    BY DEF TypeOK
  <2> QED
    BY <2>3, <2>4, <2>5
<1> QED
  BY <1>1, <1>3, <1>4 DEF Claims

\* Guard 2 of the recovery, for any number of jobs, workers and previews.
THEOREM ReviewedOnlyAlways == Spec => ReviewedOnly
<1>1. Init => ReviewedInv
  BY DEF Init, ReviewedInv
<1>2. TypeOK /\ ReviewedInv /\ [Next]_vars => ReviewedInv'
  BY ReviewedStep
<1>3. TypeOK /\ ReviewedInv /\ [Next]_vars =>
        [ConfirmRecovery =>
            Claims({j \in Jobs : status[j] \in Held /\ status'[j] \notin Held})
                = reviewedClaims]_vars
  BY RecoveryReleasesReviewed
<1> QED
  BY <1>1, <1>2, <1>3, TypeCorrect, PTL DEF Spec, ReviewedOnly

\* The safety of the queue, for any number of workers and jobs.
THEOREM SafetyHolds == Spec => Safety
BY TypeCorrect, AttemptBudgetAlways, PermanentIsFailedAlways, TerminalIsFinalAlways,
   ReviewedOnlyAlways, PTL
   DEF Safety
=============================================================================
