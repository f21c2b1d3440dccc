------------------------------ MODULE JobQueue ------------------------------
(***************************************************************************)
(* The persistent job queue (jobs/queue.py), the workers that drain it     *)
(* (jobs/worker.py, the polling service and the bounded CLIs) and the      *)
(* operator's guarded recovery of stale jobs (abandoned_job_recovery.py).  *)
(*                                                                         *)
(* One variable per column of the `jobs` table that a guard or a property  *)
(* reads.  Every action is one SQLite transaction or one autocommit        *)
(* statement, so actions of different workers interleave between the       *)
(* statements of run_once().                                               *)
(*                                                                         *)
(* Time is relative: `delay` is available_at minus now, floored at 0, and  *)
(* `age` is now minus COALESCE(started_at, claimed_at), capped at          *)
(* StaleAge.  Tick advances both, so no clock has to be bounded.           *)
(***************************************************************************)
EXTENDS Naturals, FiniteSets

CONSTANTS
    MaxJobs,      \* rows that may ever be inserted
    Keys,         \* (job_type, archive_id) pairs
    NoKey,        \* a row whose archive_id is NULL
    Priorities,   \* lower is more urgent
    MaxAttempts,  \* max_attempts, the same for every row as in the callers
    RetryDelay,   \* retry_delay_seconds, in ticks
    StaleAge,     \* older_than_seconds of the recovery tool, in ticks
    Workers,      \* worker threads and CLI processes
    WorkerIds,    \* strings stored in worker_id
    IdOf,         \* the worker_id a worker writes
    NoWorker,     \* NULL in worker_id
    Bounded,      \* workers that are one run of a bounded CLI
    Serves,       \* keys whose job_type a worker has a handler for
    StopIsReal    \* the --workers-stopped attestation is true when given

ASSUME QueueAssumption ==
    /\ MaxJobs \in Nat \ {0}
    /\ NoKey \notin Keys
    /\ Priorities \subseteq Nat
    /\ MaxAttempts \in Nat \ {0}
    /\ RetryDelay \in Nat
    /\ StaleAge \in Nat \ {0}
    /\ IdOf \in [Workers -> WorkerIds]
    /\ NoWorker \notin WorkerIds
    /\ Bounded \subseteq Workers
    /\ Serves \in [Workers -> SUBSET (Keys \cup {NoKey})]
    /\ StopIsReal \in BOOLEAN

VARIABLES
    \* the jobs table
    nextId, key, priority, status, attempts, delay, age, owner, category,
    \* workers: where run_once() stands, the claimed row, the CLI's `seen`
    pc, task, seen,
    \* the digest the operator carries from the preview to --confirm
    reviewed,
    \* history, read by no action: handler starts per job, the attempt a
    \* worker's claim opened, the claims the operator looked at
    runs, epoch, reviewedClaims

columns == <<nextId, key, priority, status, attempts, delay, age, owner, category>>
workerState == <<pc, task, seen, epoch, runs>>
operatorState == <<reviewed, reviewedClaims>>
vars == <<columns, workerState, operatorState>>

Jobs == 1 .. MaxJobs
NoJob == 0

Active == {"pending", "claimed", "running"}
Held == {"claimed", "running"}
Terminal == {"completed", "failed", "cancelled"}
Statuses == {"none"} \cup Active \cup Terminal

Down == {"stopped", "died"}
Busy == {"claimed", "running", "handled", "failing", "failingForGood"}

Init ==
    /\ nextId = 1
    /\ key = [j \in Jobs |-> NoKey]
    /\ priority = [j \in Jobs |-> 0]
    /\ status = [j \in Jobs |-> "none"]
    /\ attempts = [j \in Jobs |-> 0]
    /\ delay = [j \in Jobs |-> 0]
    /\ age = [j \in Jobs |-> 0]
    /\ owner = [j \in Jobs |-> NoWorker]
    /\ category = [j \in Jobs |-> "none"]
    /\ pc = [w \in Workers |-> "stopped"]
    /\ task = [w \in Workers |-> NoJob]
    /\ seen = [w \in Workers |-> {}]
    /\ epoch = [w \in Workers |-> 0]
    /\ runs = [j \in Jobs |-> 0]
    /\ reviewed = {}
    /\ reviewedClaims = {}

-----------------------------------------------------------------------------
(* Producers and operators of the table.                                   *)

\* idx_jobs_unique_active: a NULL archive_id is never a duplicate.
Duplicate(k) ==
    k # NoKey /\ \E j \in Jobs : key[j] = k /\ status[j] \in Active

\* enqueue() and enqueue_if_absent(): the insert happens unless the unique
\* index refuses it, whichever of IntegrityError or ALREADY_ACTIVE reports it.
Enqueue(k, p, d) ==
    /\ nextId \in Jobs
    /\ ~Duplicate(k)
    /\ key' = [key EXCEPT ![nextId] = k]
    /\ priority' = [priority EXCEPT ![nextId] = p]
    /\ status' = [status EXCEPT ![nextId] = "pending"]
    /\ delay' = [delay EXCEPT ![nextId] = d]
    /\ nextId' = nextId + 1
    /\ UNCHANGED <<attempts, age, owner, category, workerState, operatorState>>

\* Mutant of Cancellable: "not completed" instead of the named statuses.
CancellableUnlessCompleted == {"pending", "failed"}

\* CANCELLABLE_STATUSES; no code path writes 'blocked'.
Cancellable == {"pending"}

\* cancel(): the columns that explain why the job was stuck are kept.
Cancel(j) ==
    /\ status[j] \in Cancellable
    /\ status' = [status EXCEPT ![j] = "cancelled"]
    /\ UNCHANGED <<nextId, key, priority, attempts, delay, age, owner, category,
                   workerState, operatorState>>

-----------------------------------------------------------------------------
(* A worker's run_once().                                                  *)

Start(w) ==
    /\ pc[w] \in Down
    /\ pc' = [pc EXCEPT ![w] = "idle"]
    /\ UNCHANGED <<columns, task, seen, epoch, runs, operatorState>>

\* Mutant of Claimable: the claim takes over claimed rows.
ClaimableAgain(w) ==
    {j \in Jobs : /\ status[j] \in {"pending", "claimed"}
                  /\ delay[j] = 0
                  /\ key[j] \in Serves[w]
                  /\ j \notin seen[w]}

Claimable(w) ==
    {j \in Jobs : /\ status[j] = "pending"
                  /\ delay[j] = 0
                  /\ key[j] \in Serves[w]
                  /\ j \notin seen[w]}

\* ORDER BY priority, created_at, id: rows are numbered in insertion order.
Precedes(i, j) ==
    \/ priority[i] < priority[j]
    \/ priority[i] = priority[j] /\ i <= j

\* claim_next(): the selection and the update share one BEGIN IMMEDIATE.
\* failure_category keeps what the previous attempt left in it.
ClaimNext(w) ==
    /\ pc[w] = "idle"
    /\ \E j \in Claimable(w) :
        /\ \A i \in Claimable(w) : Precedes(j, i)
        /\ status' = [status EXCEPT ![j] = "claimed"]
        /\ attempts' = [attempts EXCEPT ![j] = @ + 1]
        /\ owner' = [owner EXCEPT ![j] = IdOf[w]]
        /\ age' = [age EXCEPT ![j] = 0]
        /\ task' = [task EXCEPT ![w] = j]
        /\ epoch' = [epoch EXCEPT ![w] = attempts[j] + 1]
    /\ pc' = [pc EXCEPT ![w] = "claimed"]
    /\ UNCHANGED <<nextId, key, priority, delay, category, seen, runs, operatorState>>

\* Mutant of Owns: the ownership clause is left out.
OwnsByStatus(w, S) == status[task[w]] \in S

\* The WHERE clause of the compare-and-swap transitions.
Owns(w, S) == status[task[w]] \in S /\ owner[task[w]] = IdOf[w]

MarkRunning(w) ==
    /\ pc[w] = "claimed"
    /\ Owns(w, {"claimed"})
    /\ status' = [status EXCEPT ![task[w]] = "running"]
    /\ age' = [age EXCEPT ![task[w]] = 0]
    /\ pc' = [pc EXCEPT ![w] = "running"]
    /\ runs' = [runs EXCEPT ![task[w]] = @ + 1]
    /\ UNCHANGED <<nextId, key, priority, attempts, delay, owner, category,
                   task, seen, epoch, operatorState>>

\* rowcount was 0: InvalidJobTransitionError, caught as a processing failure.
MarkRunningRefused(w) ==
    /\ pc[w] = "claimed"
    /\ ~Owns(w, {"claimed"})
    /\ pc' = [pc EXCEPT ![w] = "failing"]
    /\ UNCHANGED <<columns, task, seen, epoch, runs, operatorState>>

\* The handler returns, raises, or raises PermanentJobError.
HandlerEnds(w) ==
    /\ pc[w] = "running"
    /\ \E end \in {"handled", "failing", "failingForGood"} :
        pc' = [pc EXCEPT ![w] = end]
    /\ UNCHANGED <<columns, task, seen, epoch, runs, operatorState>>

\* Mutant of Remember: the service keeps a `seen` set too.
RememberAlways(w) == seen[w] \cup {task[w]}

Remember(w) == IF w \in Bounded THEN seen[w] \cup {task[w]} ELSE seen[w]

\* run_once() returns; only the bounded CLIs remember the id they processed.
NextRound(w) ==
    /\ pc' = [pc EXCEPT ![w] = "idle"]
    /\ task' = [task EXCEPT ![w] = NoJob]
    /\ seen' = [seen EXCEPT ![w] = Remember(w)]
    /\ epoch' = [epoch EXCEPT ![w] = 0]
    /\ UNCHANGED <<runs, operatorState>>

MarkCompleted(w) ==
    /\ pc[w] = "handled"
    /\ Owns(w, Held)
    /\ status' = [status EXCEPT ![task[w]] = "completed"]
    /\ NextRound(w)
    /\ UNCHANGED <<nextId, key, priority, attempts, delay, age, owner, category>>

MarkCompletedRefused(w) ==
    /\ pc[w] = "handled"
    /\ ~Owns(w, Held)
    /\ pc' = [pc EXCEPT ![w] = "failing"]
    /\ UNCHANGED <<columns, task, seen, epoch, runs, operatorState>>

Exhausted(j) == attempts[j] >= MaxAttempts

\* Mutant of Retries: PermanentJobError is retried like any other failure.
RetriesEveryFailure(w) == ~Exhausted(task[w])

Retries(w) == pc[w] = "failing" /\ ~Exhausted(task[w])

FailureCategory(w) == IF pc[w] = "failingForGood" THEN "permanent" ELSE "transient"

\* mark_failed(), retry branch: the row looks freshly enqueued.
RetryLater(w) ==
    /\ pc[w] \in {"failing", "failingForGood"}
    /\ Owns(w, Held)
    /\ Retries(w)
    /\ status' = [status EXCEPT ![task[w]] = "pending"]
    /\ delay' = [delay EXCEPT ![task[w]] = RetryDelay]
    /\ age' = [age EXCEPT ![task[w]] = 0]
    /\ owner' = [owner EXCEPT ![task[w]] = NoWorker]
    /\ category' = [category EXCEPT ![task[w]] = FailureCategory(w)]
    /\ NextRound(w)
    /\ UNCHANGED <<nextId, key, priority, attempts>>

\* mark_failed(), terminal branch: worker_id keeps the last owner.
FailForGood(w) ==
    /\ pc[w] \in {"failing", "failingForGood"}
    /\ Owns(w, Held)
    /\ ~Retries(w)
    /\ status' = [status EXCEPT ![task[w]] = "failed"]
    /\ category' = [category EXCEPT ![task[w]] = FailureCategory(w)]
    /\ NextRound(w)
    /\ UNCHANGED <<nextId, key, priority, attempts, delay, age, owner>>

\* mark_failed() refuses: JobWorkerStateError leaves run() and ends the thread.
RaiseStateError(w) ==
    /\ pc[w] \in {"failing", "failingForGood"}
    /\ ~Owns(w, Held)
    /\ pc' = [pc EXCEPT ![w] = "died"]
    /\ task' = [task EXCEPT ![w] = NoJob]
    /\ seen' = [seen EXCEPT ![w] = {}]
    /\ epoch' = [epoch EXCEPT ![w] = 0]
    /\ UNCHANGED <<columns, runs, operatorState>>

\* A bounded CLI leaves its loop (limit reached or nothing left), or the
\* service's stop event is seen between two rounds.
Stop(w) ==
    /\ pc[w] = "idle"
    /\ pc' = [pc EXCEPT ![w] = "stopped"]
    /\ seen' = [seen EXCEPT ![w] = {}]
    /\ UNCHANGED <<columns, task, epoch, runs, operatorState>>

\* The process is killed: the row stays claimed or running.
Crash(w) ==
    /\ pc[w] \in Busy
    /\ pc' = [pc EXCEPT ![w] = "stopped"]
    /\ task' = [task EXCEPT ![w] = NoJob]
    /\ seen' = [seen EXCEPT ![w] = {}]
    /\ epoch' = [epoch EXCEPT ![w] = 0]
    /\ UNCHANGED <<columns, runs, operatorState>>

-----------------------------------------------------------------------------
(* Guarded recovery.                                                       *)

\* collect_stale_jobs(), and the predicate of recover_abandoned().
Stale == {j \in Jobs : status[j] \in Held /\ age[j] >= StaleAge}

\* compute_snapshot_digest(): equal digests iff equal sets of lines.  The line's
\* activity timestamp is written once per (job, attempt, status), and the
\* projected outcome is a function of attempts, so neither adds to the line.
DigestLines == {[job |-> j, status |-> status[j], attempts |-> attempts[j]] : j \in Stale}

Claims(S) == {[job |-> j, attempts |-> attempts[j], owner |-> owner[j]] : j \in S}

\* run_recovery(confirm=False), whose report a human reads.
Preview ==
    /\ reviewed' = DigestLines
    /\ reviewedClaims' = Claims(Stale)
    /\ UNCHANGED <<columns, workerState>>

\* Mutant of RecoveredStatus: the recovery always hands the job back.
RecoveredPending(j) == "pending"

RecoveredStatus(j) == IF Exhausted(j) THEN "failed" ELSE "pending"

\* _apply_recovery_row() for every row of S; attempts and failure_category stay.
RecoverRows(S) ==
    /\ status' = [j \in Jobs |-> IF j \in S THEN RecoveredStatus(j) ELSE status[j]]
    /\ delay' = [j \in Jobs |-> IF j \in S THEN 0 ELSE delay[j]]
    /\ age' = [j \in Jobs |-> IF j \in S THEN 0 ELSE age[j]]
    /\ owner' = [j \in Jobs |-> IF j \in S THEN NoWorker ELSE owner[j]]
    /\ UNCHANGED <<nextId, key, priority, attempts, category>>

\* Mutant of SnapshotMatches: --expected-count alone.
CountMatches == Cardinality(reviewed) = Cardinality(Stale)

SnapshotMatches ==
    /\ Cardinality(reviewed) = Cardinality(Stale)
    /\ reviewed = DigestLines

\* run_recovery(confirm=True): the guards and the updates share one transaction.
ConfirmRecovery ==
    /\ StopIsReal => \A w \in Workers : pc[w] \in Down
    /\ SnapshotMatches
    /\ Stale # {}
    /\ RecoverRows(Stale)
    /\ UNCHANGED <<workerState, operatorState>>

-----------------------------------------------------------------------------
Tick ==
    /\ \E j \in Jobs : delay[j] > 0 \/ (status[j] \in Held /\ age[j] < StaleAge)
    /\ delay' = [j \in Jobs |-> IF delay[j] > 0 THEN delay[j] - 1 ELSE 0]
    /\ age' = [j \in Jobs |-> IF status[j] \in Held /\ age[j] < StaleAge
                              THEN age[j] + 1 ELSE age[j]]
    /\ UNCHANGED <<nextId, key, priority, status, attempts, owner, category,
                   workerState, operatorState>>

\* The steps run_once() takes by itself once it holds a job.
Proceed(w) ==
    \/ MarkRunning(w)
    \/ MarkRunningRefused(w)
    \/ HandlerEnds(w)
    \/ MarkCompleted(w)
    \/ MarkCompletedRefused(w)
    \/ RetryLater(w)
    \/ FailForGood(w)
    \/ RaiseStateError(w)

WorkerNext(w) == Start(w) \/ ClaimNext(w) \/ Proceed(w) \/ Stop(w) \/ Crash(w)

Next ==
    \/ \E k \in Keys \cup {NoKey}, p \in Priorities, d \in {0, RetryDelay} : Enqueue(k, p, d)
    \/ \E j \in Jobs : Cancel(j)
    \/ \E w \in Workers : WorkerNext(w)
    \/ Preview
    \/ ConfirmRecovery
    \/ Tick

Spec == Init /\ [][Next]_vars

\* Time passes, a handler returns, and a service worker polls until stopped.
Fairness ==
    /\ WF_vars(Tick)
    /\ \A w \in Workers : WF_vars(Proceed(w))
    /\ \A w \in Workers \ Bounded : WF_vars(ClaimNext(w))

FairSpec == Spec /\ Fairness

-----------------------------------------------------------------------------
TypeOK ==
    /\ nextId \in 1 .. MaxJobs + 1
    /\ key \in [Jobs -> Keys \cup {NoKey}]
    /\ priority \in [Jobs -> Nat]
    /\ status \in [Jobs -> Statuses]
    /\ attempts \in [Jobs -> Nat]
    /\ delay \in [Jobs -> Nat]
    /\ age \in [Jobs -> 0 .. StaleAge]
    /\ owner \in [Jobs -> WorkerIds \cup {NoWorker}]
    /\ category \in [Jobs -> {"none", "transient", "permanent"}]
    /\ pc \in [Workers -> {"idle"} \cup Down \cup Busy]
    /\ task \in [Workers -> Jobs \cup {NoJob}]
    /\ \A w \in Workers : pc[w] \in Busy <=> task[w] # NoJob
    /\ seen \in [Workers -> SUBSET Jobs]
    /\ epoch \in [Workers -> Nat]
    /\ runs \in [Jobs -> Nat]
    /\ reviewed \subseteq [job : Jobs, status : Held, attempts : Nat]
    /\ reviewedClaims \subseteq [job : Jobs, attempts : Nat, owner : WorkerIds \cup {NoWorker}]

\* idx_jobs_unique_active (migration 010) holds across retry, recovery and
\* re-enqueue: one active row per (job_type, archive_id).
UniqueActive ==
    \A i, j \in Jobs :
        (key[i] = key[j] /\ key[i] # NoKey /\ status[i] \in Active /\ status[j] \in Active)
            => i = j

\* claim_next() counts every claim as an attempt, so a row that can still be
\* claimed has an attempt left, whichever of mark_failed() and the recovery put
\* it back; the handler never starts more often than the budget, zombies included.
AttemptBudget ==
    \A j \in Jobs :
        /\ runs[j] <= attempts[j]
        /\ attempts[j] <= MaxAttempts
        /\ status[j] = "pending" => attempts[j] < MaxAttempts

\* The quarantine selects failed rows by failure_category, which neither
\* claim_next() nor the recovery clears: a permanent category is only ever on a
\* row that a permanent failure ended.
PermanentIsFailed ==
    \A j \in Jobs : category[j] = "permanent" => status[j] = "failed"

\* With a true --workers-stopped attestation the worker that holds a job is the
\* one its row names, for the claim it made: no job is worked on twice at once
\* and no worker ends with JobWorkerStateError.
ExclusiveClaim ==
    /\ \A w \in Workers : pc[w] \in Busy =>
        /\ Owns(w, Held)
        /\ attempts[task[w]] = epoch[w]
        /\ status[task[w]] = "claimed" <=> pc[w] = "claimed"
    /\ \A w \in Workers : pc[w] # "died"

\* The worker_id check fences a worker whose job was recovered under it: what it
\* may still write is the claim it made itself.
FencedByOwner ==
    \A w \in Workers : (pc[w] \in Busy /\ Owns(w, Held)) => attempts[task[w]] = epoch[w]

\* A finished, failed or cancelled row is never touched again (cancel(),
\* mark_*() of late workers, recovery).
TerminalIsFinal ==
    [][\A j \in Jobs : status[j] \in Terminal =>
        status'[j] = status[j] /\ attempts'[j] = attempts[j]
            /\ owner'[j] = owner[j] /\ category'[j] = category[j]]_vars

\* Guard 2 of the recovery: the claims it releases are the claims the operator
\* looked at, all of them, although worker_id is not in the digest.
ReviewedOnly ==
    [][ConfirmRecovery =>
        Claims({j \in Jobs : status[j] \in Held /\ status'[j] \notin Held}) = reviewedClaims]_vars

\* Whoever works, dies or recovers: a row spends no more than its attempts, bears
\* no category it does not deserve, is final once it ended, and is recovered only
\* from the claim the operator reviewed.
Safety ==
    []TypeOK /\ []AttemptBudget /\ []PermanentIsFailed /\ TerminalIsFinal /\ ReviewedOnly

\* A due job is not forgotten: while a service worker that serves it stays up it
\* is settled, unless the worker that held it died with it.
Orphaned(j) == status[j] \in Held /\ \A w \in Workers : ~(pc[w] \in Busy /\ task[w] = j)
ServedBy(w, j) == key[j] \in Serves[w] /\ pc[w] \notin Down
PendingIsSettled ==
    \A j \in Jobs :
        status[j] = "pending" ~>
            \/ status[j] \in Terminal
            \/ Orphaned(j)
            \/ \A w \in Workers \ Bounded : ~ServedBy(w, j)

-----------------------------------------------------------------------------
\* What the queue promises its producers, one job at a time.
Phase(s) == IF s \in Held THEN "held" ELSE IF s \in Terminal THEN "settled" ELSE s

Lifecycle == INSTANCE JobLifecycle WITH
    phase <- [j \in Jobs |-> Phase(status[j])],
    tries <- attempts

ImplementsLifecycle == Lifecycle!Spec
=============================================================================
