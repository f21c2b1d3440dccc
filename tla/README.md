# CBZ automation suite: TLA+ models, checks and proofs

The suite takes comic archives into a library (a folder watcher), catalogues them (a
SQLite database, a persistent job queue and the archive stages that drain it), resolves
what an archive is from names, metadata and pages, plans names, supersession and
retention from that, renames, merges, quarantines and deletes library files, and starts
its tools from a web console. Four things make it hard to get right: several processes
share one SQLite file and one directory tree, timer threads race with file events, work
crosses stores that cannot share a transaction (files, journals, manifests, tables), and
everything is expected to survive a crash between any two steps. The models below are
about those.

Contents: [1 The system](#1-the-system), [2 What is modelled](#2-what-is-modelled),
[3 Runs](#3-runs), [4 Fairness](#4-fairness), [5 Proofs](#5-proofs),
[6 Disagreements found](#6-disagreements-found),
[7 Abstractions](#7-abstractions-and-what-they-hide),
[8 Not modelled](#8-not-modelled), [9 Plan](#9-plan), [10 Running it](#10-running-it).

## 1 The system

Paths are relative to `src/`; `C/` stands for `comic_automation/`.

| Component | State | Operations | What is hard | What makes it correct |
|---|---|---|---|---|
| Job queue (`C/jobs/queue.py`, `worker.py`) | the `jobs` table | enqueue, claim_next, mark_running/completed/failed, cancel | statements of several workers interleave; a crash keeps a claim | one active row per key, attempt budget, fenced by owner, finished is final |
| Stale-job recovery (`C/jobs/abandoned_job_recovery.py`) | a digest the operator carries | preview, confirm | a slow worker looks dead | only what was reviewed is released |
| Library discovery (`C/library/discovery.py`, `repository.py`) | `file_locations`, `scan_batches` | scan, batch, resume, mark_missing | a walk that is limited, cut short or resumed while files move | a scan that ran through lists the library; only what is gone is retired |
| Archive stages (`C/archive/handlers.py`, `hashing.py`, `page_hashing.py`, `perceptual_hashing.py`), drift recovery and relocation repair | evidence tables, revisions, jobs | inspect, hash, sign pages, repair locations, recover drift | the file changes under a stage that works for minutes | evidence of one revision agrees with its bytes |
| Census (`C/archive/candidate_selection.py`, `classification.py`) | none: reads `jobs`, locations, evidence | select, classify | two readings of the same predicate; jobs that end out of order | what is eligible and what is excluded partition the library |
| Quarantine and duplicate resolution (`C/archive/quarantine.py`, `duplicate_resolution.py`) | files, `archive_quarantine`, backups | plan, move, record, move back, undo | a crash or a failure between move and commit | files and rows agree, nothing is overwritten |
| Dispositions (`C/archive/disposition.py`, migrations 012-014) | retirements, successors, events | retire, supersede, reverse, raw SQL | decisions and reversals in any order, under triggers | chains end in scope, the history replays to the tables |
| Supersession (`C/archive/supersession.py`) | none: a verdict | bind, compare, judge | pages, rows and file are read at three times | the keeper carries everything |
| Retention (`C/archive/revision_retention.py`) | none: a plan and its digest | plan, verify | pointers roll back and evidence arrives meanwhile | what a roll-back needs is kept |
| Re-certification (`C/archive/content_signature_recertify.py`) | signature rows, a plan, a backup | plan, back up, apply | writers between review, backup, lock and commit | only what was reviewed and backed up is relabelled |
| Field resolution (`C/archive/field_resolution.py`) | none: facts in, fields out | resolve a folder, form families | evidence contradicts itself and comes in any order | human decisions hold; families are disjoint; names keep their words |
| Canonical plan (`C/library/canonical_plan.py`) | a sealed document | walk, read, decide, walk again, seal | the watcher moves books during the walks | the executor accepts it; planned folders held still |
| Canonical apply (`C/library/canonical_apply/`) | library files, journals, `file_locations`, `rename_attempt_steps` | apply, resume, recover, undo | three stores, crash anywhere, torn records, case-only renames | files are where the journal proves them, keepers before dependants, nothing overwritten |
| Backfill artifacts (`C/archive/provenance_backfill_artifact.py`, `provenance_backfill_planner.py`) | a pair of files | stage, link, roll back, read | any call fails or is interrupted; others use the names | what is reported is what is on disk |
| Migrations and backups (`C/database/`) | the ledger, the schema, backups | migrate, guard, back up | several processes migrate at once; the source is written while it is copied | the ledger is the schema; what is verified is a copy |
| Watcher (`scripts/cbz_watcher.py`, `C/library/readiness_hold.py`) | timers, `_processing_dirs`, budgets, session | events, callbacks, discovery, passes, holds, stop and drain | timer threads against events, renames and holds | no overlapping passes, nothing forgotten, a clean drain |
| Series import (`cbz_watcher.py`, `cbz_lock_order.py`, `C/series_resolver.py`) | series folders, alias registry, locks | resolve, lock, confirm, move or merge, register | the lock to take depends on what other imports create | one folder per series, honest aliases |
| Archives in a folder (`cbz_watcher.py`, `cbz_sanitizer.py`, `cbz_promote_staging.py`) | files beside each other | name, merge, rewrite in place | names collide, tags strip, two renames with nothing in between | an issue keeps a copy, pages survive a rewrite |
| Routing (`scripts/cbz_routing.py`, `cbz_watcher_router.py`, `cbz_shadow_handoff.py`, `cbz_library_reclassify.py`) | a series index, the folders | build, classify, note, reclassify | the index is built once and kept by notes | the index is the disk; any evidence counts |
| Review cases (`scripts/cbz_classification_staging.py`) | manifests, staged payloads | transfer, recover, promote, reject, roll back | two stores and a carrier and an operator that die | nothing lost, interruptions recover, decisions stand |
| Library maintenance (`scripts/cbz_library_maintenance.py`) | files, a saved plan | live, dry run, replay | passes over a library that earlier passes changed | a duplicate is deleted only while its pages are kept |
| AI originals and batch (`cbz_watcher.py`, `scripts/camelia_decensor.py`) | originals on two drives, output copies | process, restore, offload, migrate, resume | a failing neighbour, a second mover, dying children | originals survive; completed means complete |
| Console jobs (`C/web/jobs/`) | the `jobs` ledger, receipts, native job objects | admit, spawn, claim, run, publish, finalize, hold, recover, recheck | three processes, each may die; a commit may report an error | conflicting tools never run together, outcomes are never guessed |
| Camelia handoff (`C/library/camelia_handoff.py`) | the consumer's cursor, locations, hashes | prepare a source, reconcile completed events | the backlog, other tools and a second reconciler go on meanwhile | what the cursor passed is on record |
| Watcher instance (`C/library/watcher_instance.py`) | a named mutex, `_owned_names` | enter, leave, recover an abandoned mutex | calls fail, roots are retargeted, processes die inside | one watcher per root |
| Console HTTP, near duplicates, audits, GUI, Komf | - | - | - | section 8 |

`PROJECT.json` lists them one by one with their status, and the hazards of the code at
the lines where they bite.

Interactions. The watcher fills folders; discovery catalogues them and enqueues jobs;
the stages claim jobs and enqueue the next stage; quarantine reads failed jobs; field
resolution reads what the stages stored and feeds supersession and the canonical plan,
which canonical apply executes; staging, maintenance and the reclassifier move the same
folders the watcher fills; the console starts any of these as native tools. They meet in
SQLite and in the file system and hardly ever call each other, so the models are
separate, and where two meet each model lets the other side change the shared state: the
operator in `JobQueue`, the outsider in `CanonicalApply`, users in `WatcherTracker`, other
tools in `SeriesImport`, discovery and repair in `ArchiveStages`, the queue in `Removals`
and `Census`, commits and checkpoints in `Backups`, the watcher in `CanonicalPlan` and
`ReviewCases`, the migration command in `AiOriginals`, other writers in `ArchiveRewrite`
and `PlanArtifacts`.

## 2 What is modelled

| Module | Models | Notes |
|---|---|---|
| `JobQueue` | `queue.py`, `worker.py`, the bounded CLIs' loop, `abandoned_job_recovery.py` | one variable per column that a guard reads |
| `JobLifecycle` | what the queue promises of one job | abstract; `JobQueue` implements it |
| `CanonicalApply` | `executor.py`, `journal.py`, `markers.py` of `canonical_apply` | files, rows, markers, receipts, one run |
| `CatalogueMoves` | what a reader of the catalogue may see | abstract; `CanonicalApply` implements it |
| `WatcherTracker` | `DirectorySettleTracker`, gate, claims, passes, holds, session | one label per critical section |
| `SeriesImport` | resolve, `stable_series_lock`, move or merge, register | one thread per arrival |
| `ConsoleJobs` | `store.py`, `supervisor.py`, `runner.py`, `recovery.py`, `receipts.py`, the native job of `win32.py` | console, runner, I/O worker and tool |
| `LibraryScan` | `scan_library`, batches, checkpoints, resume, `mark_missing` | two orders of paths: the walk's and the checkpoint's |
| `ArchiveStages` | the four stages of one archive, drift recovery, repair, retirement | a file is bytes and a stamp |
| `Removals` | quarantine and duplicate resolution, with undo | move first, commit second, move back |
| `Dispositions` | `disposition.py` and the triggers of migration 013 | raw SQL of an operator included |
| `Census` | eligibility, its explanation, selection, `classify` | one archive, everyone else changes its rows |
| `Supersession` | the evaluator over one family | verdict, keeper, review or error |
| `Retention` | the retention planner around its guarded reads | plan, digest, gate |
| `Recertify` | plan, backup, apply of the page-order re-certification | commits of others at any point |
| `Migrations` | `apply_migrations`, `MigrationSnapshot`, the guard of 015 | several processes, a directory that grows |
| `Backups` | `run_backup` | a WAL source: commits and checkpoints |
| `ReviewCases` | `execute_transfer`, `recover_case`, promote, reject, roll back | one series, a carrier and an operator |
| `ArchiveRewrite` | the in-place rewrite of three tools | one archive, three places |
| `ArchiveMerge` | naming and landing archives, four tools | one intake folder, one series folder |
| `PlanArtifacts` | `write_plan_artifacts`, `read_plan_artifacts` | every call may fail or be interrupted |
| `MaintenancePlan` | library maintenance, live, dry run, replay | a queue of operations |
| `AiOriginals` | the watcher's AI step, rollback, offload, migration command | two drives |
| `CanonicalPlan` | the planner, its two walks, the document and its parser | strict and scoped |
| `FieldResolution` | what a folder's evidence says | a set of facts, fields are functions of it |
| `SeriesRouting` | index, engine, shadow router, handoff gate, reclassifier | predicates are sets of rules |
| `CameliaBatch` | the resumable decensor batch | batches share an output tree |
| `CameliaHandoff` | `prepare_source`, `reconcile_completed` | two reconcilers beside Camelia, the stages and other tools |
| `WatcherInstance` | `watcher_instance_lock` | the system's mutex is external |
| `BackfillPlan` | what the provenance planner decides for every row, the files of a plan, their reader | tables before and after migration 014 |
| `MC*` | the instances that TLC checks | `MCComponents` runs the last twenty-three |
| `*Proofs` | theorems and proofs | extend the component and `TLAPS` |

How state and actions correspond to the code; `PROJECT.json` "map" gives every
definition its lines.

**JobQueue.** `status`, `attempts`, `priority`, `owner` (worker_id), `category`
(failure_category) and `key` (job_type, archive_id) are columns. An action is one SQLite
transaction or autocommit statement: `Enqueue`, `ClaimNext`, `MarkRunning`,
`MarkCompleted`, `RetryLater`, `FailForGood`, `Cancel`, `Preview`, `ConfirmRecovery`.
Between two statements of `run_once()` a worker stands at a `pc`, and anything may
happen, its crash included. A refused update raises `JobWorkerStateError` and the worker
dies. `seen` is the set by which a bounded CLI does not take a job twice.

**CanonicalApply.** `fs` maps an exact name to the bytes there, `Fold` gives the name the
file system compares. `intent`, `done`, `confirmed` are the last receipts of an archive in
an attempt's journal, `marker` its rows in `rename_attempt_steps`, `row` its
`file_locations.path`. A step is `Intent` (record), `Verify` (hash the source), `Rename`,
`WriteDone` (record), `Commit` (row and marker in one transaction), `Confirm` (record); a
crash may come between any two and may tear the record being appended. Recovery
(`Resolve`) takes one decision per unfinished step from receipts, marker, row and files.

**WatcherTracker.** A thread's `pc` names the next critical section of the tracker lock
or of `_processing_dirs_lock`, the next look at the tree or the next file move. `settle`,
`stray` and `retry` are the timers (`stray`: armed, but popped from the table by an older
callback), `fresh` says that a thread's readiness generation is current, `budget` is an
archive's inactivity budget, `session` the main thread. `excused` is history: why
the code knowingly leaves an archive without a timer.

**SeriesImport.** An arrival resolves its title, then its target, then locks the key it
found, and looks again under the lock (`Confirm`); a different answer makes it let go and
try the other key, and a second change defers it. `known`, `alias`, `ambiguous` are the
registry, `folders` the disk.

**ConsoleJobs.** `state` is the ledger row, `pc` the runner, `native` the tool (its root
and its descendants), `owned` the runner's handle on the job object, whose closing
kills the tool. The runner has one operation in flight at its I/O worker (`op`), which
may take effect and still report an error (`Committed`), and collects the `answer` later
(`Collect`). `page` is the snapshot a reconciler pass visits while owners go on.

**The components of `MCComponents`.** Each has its variables and actions under names of
its own, so that one module can extend all twenty-three.

- `LibraryScan`: `tree` and `settled` are the disk (what stayed as it was since the batch
  began), `locations` and `batches` the tables, `scan` the run: walk, flush of a batch with
  its checkpoint, end.
- `ArchiveStages`: a stage reads the file, works, and saves under the check that the row
  still has the stamp it read; `lineage` and `current` are the revisions, `hash` and
  `signature` the evidence, each with the bytes it was really computed from as history.
- `Removals`: `library`, `quarantine`, `backup` are the places of files; a run takes a
  candidate through check, move, commit, and on failure moves back.
- `Dispositions`: the two tables, the reversal context and the events; each command or
  statement is one action with the triggers that fire.
- `Census`: the rows of one archive (`currentStamps`, `jobs`, evidence) and what is on
  disk; the predicate, the explanation and the axes are operators over them.
- `Supersession`: `bound` is what was read of each member, `stored` its rows, `review`
  the outcome; a member is read, then checked against file and rows. `atCheck` is history:
  what each file held at its check, of which the property speaks.
- `Retention` and `Recertify`: a plan made under a read guard, and whatever commits before
  it is used. In `Retention` every step of the planner is an operator over `Inputs`, the
  record one read returns, as `build_plan` is a function of `_Inputs`; `Recertify` has the
  backup's report and the write transaction step by step.
- `Migrations`: `runner[r]` holds what a process read (`discovered`, `recorded`) and what it
  still has to apply (`left`); `BEGIN IMMEDIATE` is `writer`.
- `Backups`: `source` counts commits, `mainFile` the last checkpoint; the run takes its two
  witnesses (fingerprint and `data_version`) where the code takes them.
- `ReviewCases`: `upstream`, `partial`, `pending`, `rejected`, `shelf` are directories,
  `record` the manifest's state; `carrier` and `operator` each stand between two steps.
- `ArchiveRewrite`: `spot` is the archive, its rebuild (`tmp`) and the parked original
  (`bak`); the writer stands in `rewriter`, failures take the code's restore branches.
- `ArchiveMerge`: `intake`, `racks` (the series folder, once `folder` says it exists),
  `aside`, and the pass in `merger`. Before a merge `Backfill` may give a library archive
  that has only the series' name its `Ch. 1`; a pass over a folder with folders inside is
  `loose` and merges the archives that were named, into a folder it makes first; a
  whole folder moves after a look, so that the target may have appeared (`MoveInside`,
  `FallBackToMerge`). `shelved` is history: the keys the folder had a copy of, each
  renamed with its copy.
- `PlanArtifacts`: files with the call that wrote them; the outcome is what the caller is
  told.
- `MaintenancePlan`: `shelves`, the `queue` of operations under way and the saved plan;
  a dry run fills the plan where a live run acts. The duplicates of a group are deleted
  in any order.
- `AiOriginals`: `local` and `vault` are the two drives, `moving` the two movers.
- `CanonicalPlan`: `books` and `stamp` are the disk, `catalogue` the rows, `planning` the run with
  its two inventories, `document` what it seals.
- `FieldResolution`: `attested` is the only variable; a fact arrives, everything is
  resolved anew.
- `SeriesRouting`: `placed` says where every issue is (root, series folder, the folders
  inside it), `standing` which series folders exist, `index` what the router believes,
  `unnoted` the folders a failed move left that the index was not told of, `pass` the
  watcher's threads. The reclassifier (`migration`) runs beside them under no common
  lock. Both look before they move: `hand` holds the path in hand and what was seen at
  its target (`saw`), and the move is a step of its own. The engine takes pins, overrides that only unify
  names (`NoPin`), the index, rules, default, in that order.
- `CameliaBatch`: `book` and `output` with their tags, `batch` the runs. An archive may
  bear the marker without method tags (`UnknownHistory`), as an older program or a child
  that fails leaves it; `again` is `--reprocess`.
- `CameliaHandoff`: `onShelf` is the file of a book (its version and its fingerprint),
  `backlog` Camelia's row and last event, `catalogued` the location's fingerprint and the
  hash; `reconciling[r]` holds the events a run has left and what it measured of the first,
  `preparing[b]` a preparation between its reading and its commit, `cursor` the setting.
- `WatcherInstance`: `mutex` is the system's, with its recursion count, `ownedNames` the
  registry of a process, `lockAt[k]` where an entry of the context manager stands;
  `identityOf` is what a root leads to, which may change.
- `BackfillPlan`: `fileHolds` is what each archive's file contains, `provenance` the tables
  the planner reads, `issued` the plans it made with the tables they were made from,
  `envelope` and `csv` the two files as the reader finds them.

## 3 Runs

Every pass run explores its state space completely. `PROJECT.json` gives for each
property a plausible bug of the code under which the run finds it violated. A property
named `...Safety` is the conjunction of a component's named invariants and action
properties, listed in the second table; the other conjunctions are `JournalIsSound` and
`Progress`.

| Run | Instance | Shows |
|---|---|---|
| `JobQueue_attested` | a service worker and a bounded CLI, 2 jobs of one key, 2 attempts, recovery only when workers are stopped | `ExclusiveClaim`: one worker per job and no refused update; `ImplementsLifecycle`; `PendingIsSettled` |
| `JobQueue_zombies` | two services with own ids, recovery while they work | `FencedByOwner`, `Safety` |
| `CanonicalApply_crashes` | a family whose keeper changes letter case (two steps) with a dependant, a conflicted family, 2 undo attempts, 2 crashes, torn records or early stops, 1 change by somebody else | `JournalIsSound`, `Safety`, `ImplementsCatalogueMoves`, `Progress` |
| `WatcherTracker_nested` | a drop point with a nested directory, an archive in each, 2 timer threads, holding, MIN_AGE, 1 change | `NeverForgotten`, `Safety` |
| `WatcherTracker_progress` | a directory that the pass renames, 2 archives, holding | `Progress` |
| `WatcherTracker_shared_claim` | the renamed directory, 2 timer threads, 3 changes | `ExclusivePasses` is violated (section 6) |
| `WatcherTracker_hold_drops` | one directory, 2 archives, 2 timer threads | `HoldsDropNothing` is violated (section 6) |
| `SeriesImport_filing` | three arrivals of one series under three spellings, one of loose files, an alias claimed by two series, 1 outside change | `DeferredOnlyIfMoving`, `Safety`, `EveryArrivalEnds` |
| `ConsoleJobs_recovery` | 2 admissions of a writing task or a service, 1 failure or death | `Safety`, `NoRowIsStranded` |
| `ConsoleJobs_exit` | 1 writing task, 1 failure | `RunnerExits` is violated (section 6) |
| `MCComponents` | one instance of each of twenty-three components | the twenty-three properties below |
| `MaintenancePlan_replay` | one folder, two archives, a dry run and its replay | `ReplayDeletesDuplicates` is violated (section 6) |

| Module | Property | What it consists of |
|---|---|---|
| `JobQueue` | `Safety` | `TypeOK`, `AttemptBudget`, `PermanentIsFailed`, `TerminalIsFinal`, `ReviewedOnly` |
| `CanonicalApply` | `Safety`, `JournalIsSound`, `Progress` | `ChainsValid`, `KeeperFirst`, `NothingClobbered`; `AttemptsInOrder` (`OneUnfinished`, `LatestUndoneFirst`), `RecoveryIsSound` (`FilesWhereProven`, `RefusedOnlyIfAmbiguous`); `RunEnds`, `ResumeConverges` |
| `WatcherTracker` | `Safety`, `Progress` | `TypeOK`, `ExclusivePasses`, `DrainsBeforeRelease`, `NothingStartsAfterClose`, `HeldOnlyStalled`; `StopReleasesRoot`, `ReadyIsImported` |
| `SeriesImport` | `Safety` | `OneFolderPerSeries`, `ExclusiveFolders`, `RegistryHonest` |
| `ConsoleJobs` | `Safety` | `ExclusiveTools`, `ReleasedMeansDead`, `TrueOutcome`, `DoubtIsKept`, `FreedIsFinal` |
| `LibraryScan` | `ScanSafety` | `FreshScanIsExact`: a batch that ran through lists what held still. `RetiredIsGone`: a location is retired only if its file was away, changed or unreadable since the batch began |
| `ArchiveStages` | `StagesSafety` | `HashNamesRevision`, `EvidenceAgrees`: a hash and a signature of one stamp are of the same bytes |
| `Removals` | `RemovalsSafety` | `RowsTellWhere`, `NothingOverwritten` |
| `Dispositions` | `DispositionsSafety` | `ChainsEndInScope`, `OwnReasons`, `HistoryIsTheTables` |
| `Census` | `CensusSafety` | `Partition`, `EligibleIsPresent`, `WorkIsChronological` |
| `Supersession` | `KeeperCarriesAll` | the keeper's file carries pages in order, members and ComicInfo fields of every member's file, each as it was on disk when it was checked |
| `Retention` | `RetentionSafety` | `RollbackIsKept`, `DigestBindsPlan`, `PlansAreCurrent` |
| `Recertify` | `RecertifySafety` | `VersionTwoIsPageOrder`, `RelabelsAsReviewed`, `RelabelsAreRecoverable` |
| `Migrations` | `MigrationsSafety` | `LedgerIsTheSchema`, `NothingAroundTheGuard` |
| `Backups` | `VerifiedIsACopy` | a backup reported as verified is the source as it was |
| `ReviewCases` | `ReviewSafety` | `NothingIsLost`, `InterruptionsRecover`, `DecisionsStand` |
| `ArchiveRewrite` | `KeepsLastCopy` | the pages are in one of the three places, whatever fails |
| `ArchiveMerge` | `MergeSafety` | `EveryKeyKeepsACopy`, `TagIsNoEvidence`, `ResolverDiscardsNothing` |
| `PlanArtifacts` | `WriterSafety` | `OutcomeIsTrue`, `ReaderAgrees` |
| `MaintenancePlan` | `LiveDeletesDuplicates` | a live run deletes only what it keeps the pages of |
| `AiOriginals` | `AiSafety` | `OriginalsSurvive`, `OffloadedOnlyRouted` |
| `CanonicalPlan` | `PlanSafety` | `ExecutorAccepts`, `PlannedFoldersAreStill` |
| `FieldResolution` | `ResolutionSafety` | `HumanDecides`, `FamiliesAreDisjoint`, `RenamesKeepTheirWords` |
| `SeriesRouting` | `RoutingSafety` | `RouterSeesTheDisk`, `AnyEvidenceDecides`, `LibraryKeepsItsIssues` |
| `CameliaBatch` | `CompletedIsComplete` | a completed batch left every book with every method it was asked for, but where what an archive has had is not recorded |
| `CameliaHandoff` | `HandoffSafety` | `RecordsGoForward`, `PassedIsOnRecord` |
| `WatcherInstance` | `InstanceSafety` | `OneWatcherPerRoot`, `HolderOwnsOnce`, `DoubtIsBlocked` |
| `BackfillPlan` | `BackfillSafety` | `DecidesEachRowOnce`, `GuessesNothing`, `SameSnapshotSamePlan`, `WrittenReadsBack`, `ReadWasDrawn` |

`MCComponents` checks twenty-three instances in one model. They share no variable: a behaviour
picks a component in its first state and runs that one alone, the others keep the state
they start in (`Init` fixes which, so that they do not multiply). The constant
`Components` selects which take part; a single one is checked by naming only it.

Bounds and why they suffice for the question asked:

- `JobQueue`: two jobs of one key are the smallest table in which the unique index,
  priorities and mix-ups of claims matter; two attempts tell the last attempt from the
  one before. `StaleAge` and `RetryDelay` of one tick give "too young" and "old enough",
  "not yet due" and "due".
- `CanonicalApply`: a chain has one or two steps in the code, a family one keeper. Two
  interruptions allow a crash and a second one in the recovery from it; two undos allow
  undo, a refused or interrupted undo, and another. `MaxMeddling = 1`: once a file was
  replaced or created from outside, the properties about what must be refused are met; the
  proof of `NothingClobbered` has no bound.
- `WatcherTracker`: two timer threads and the main thread are enough for every pairwise
  race; two archives tell a stalled from a ready one. `MaxChanges` bounds arrivals,
  completions and withdrawals together. `TimerThreads` are interchangeable and used as a
  symmetry set in safety runs only.
- `SeriesImport`: three arrivals are needed for one to be disturbed twice
  (`DeferredOnlyIfMoving`: `disturbed` remembers which of its looks were followed by a
  change before the next one, and a deferred arrival had one behind each); the spellings
  make the first look differ from the second.
- `ConsoleJobs`: two rows are enough for a conflict. With one trouble every single
  failure or death at any step is covered; the proofs of section 5 cover any number for
  the safety properties.
- `LibraryScan`: three paths with `BatchSize = 2` give a batch that is full and one that
  is not, and the walk and the checkpoint order them differently, which is what a resume
  can get wrong; two batches in two scans allow one resume of each kind of interruption.
  Proved for any.
- `ArchiveStages`: two places and two contents allow an overwrite, a copy, a move and a
  swap; three changes and operator's acts are the shortest sequences that disturbed a
  stage twice. Proved for any.
- `Removals`: two files of one name, one whose name is taken, one meddling and one failure
  at any step; proved for any. `Dispositions`: three archives make chains of two and cycles of three; four
  decisions allow record, reverse and record again beside another; proved for any.
- `Census`: two jobs ended in either order, three facts that come and go; proved for any.
- `Supersession`: three members make a chain and its middle; the six contents contain one
  that lacks a page, one that repeats a page, the same pages with less metadata, and
  pairs that are incomparable. Fewer contents and the mutants survive.
- `Retention`: three revisions with keep 0 and 1; two commits: one before and one after a
  digest is taken. `Recertify`: a sound signature, a tie, a wrong order; two disruptions
  and two applies. Both are proved for any.
- `Migrations`: two processes, one protected version between two ordinary ones, two names
  per version, one arrival after a scan; proved for any number. `Backups`: two runs, two
  paths, so that a destination and a report may coincide or exist already; proved too.
- `ReviewCases`: two chapters tell a case from a changed source; one disturbance (late
  arrival, edit, lock) beside unlimited deaths of either process; proved for any.
- `ArchiveRewrite`: two attempts of each retrying tool, three troubles (a failing rename,
  a failing restore, a crash), two files put in place by others; proved for any numbers.
- `ArchiveMerge`: two archives at a time, five names with every collision and tag case
  (two that collide, three that strip to one of them), sizes below, at and above
  `MinGain`, four tools, a bare name that becomes a first chapter, loose and whole
  folders, a series folder that appears at any point; proved for any.
- `PlanArtifacts`: each set of requested artifacts, two calls, two troubles (one to begin
  the rollback, one in it), two foreign files; proved for any.
- `MaintenancePlan`: two folders with two archives each and a session after a session
  (dry run, then replay). `AiOriginals`: two archives with one backup name, two batches,
  two versions of a name of which another archive may have one (`MaxSlots`, 1000 in the
  code, and `MaxEarlier`). Both are proved for any.
- `CanonicalPlan`: names that differ by letter case, an archive with two rows, a row
  spelled otherwise; one move takes a book away or brings one; proved for any library and
  number of moves. `FieldResolution`: three
  archives, three starts (no facts, a run of numbers, a run of volumes) and three more
  facts of every source. `SeriesRouting`: two spellings of a series, a pinned one, an override that only unifies
  names, weak and strong rules, two threads, one failure, one run of the other tool. The last two are
  proved for any facts, series, rules and passes. `CameliaBatch`:
  two books, two methods, two batches, one trouble, which may leave a copy with only the marker. `CameliaHandoff`: two books, of which one is
  hashed before Camelia works on it, two reconcilers, `--limit 2`, one act of another tool; a
  fingerprint that is gone never returns. `WatcherInstance`: a lock nested in another and a
  third of another launcher, two spellings of a root that may lead to one directory; both
  are proved for any numbers, as is `CameliaBatch`.
- `BackfillPlan`: two archives, each past that the migration could find, one write of a
  producer, two plans and one edit of their files: a plan and its repetition from changed
  tables, and a pair of files that is mixed up or has lost a line; proved for any.

Deadlock is checked in `JobQueue` and `ConsoleJobs`. It is off where the system may
stop: a plan applied and undone, a watcher that released its root, all arrivals filed, a
component of `MCComponents` whose bounds are used up.

## 4 Fairness

| Specification | Assumed | Why the code justifies it |
|---|---|---|
| `JobQueue!FairSpec` | time passes; a handler returns and its worker goes on (`Proceed`); a service keeps polling | the service loop calls `run_once()` until stopped. Nothing is assumed of the operator, of bounded CLIs or of crashes |
| `CanonicalApply!FairSpec` | a run that holds the lock goes on; the operator keeps resuming what is unfinished (strong, as a resume is possible only between other runs) | the executor is one loop. The second is the operator's documented duty, and only `ResumeConverges` needs it |
| `WatcherTracker!FairSpec` | time passes, timers go off, the observer delivers, threads and the main loop run; a hold does not fail for ever (strong) | `threading.Timer`, the observer thread and the poll loop. The last is an assumption about the disk; without it a stalled archive keeps its siblings waiting, as the code intends |
| `SeriesImport!FairSpec` | threads run; a lock that is free again and again is obtained (strong) | every holder releases in a `finally` |
| `ConsoleJobs!FairSpec` | deadlines pass, a live runner and its worker run, the system closes a dead process's handles, descendants end or are terminated, the log pump settles, the console is restarted and keeps making passes | the polling loop, kill-on-close job objects and `Supervisor._schedule`. Nothing is assumed of the tool's own end, of the operator or of the spawn |

The components of `MCComponents` are checked for safety only, under no fairness: their
commands are started by an operator or a scheduler outside the code, and what they
promise is what a run leaves behind, not that it is run.

## 5 Proofs

All theorems hold for every value of the constants that satisfies the component's named
assumption (`QueueAssumption`, `PlanAssumption`, `WatcherAssumption` and `TreeAssumption`,
`SeriesAssumption`, `ConsoleAssumption`, `MigrationsAssumption`, `BackupsAssumption`,
`ContentsAssumption`, `CameliaAssumption`, `CameliaHandoffAssumption`,
`WatcherInstanceAssumption`, `ScanAssumption`, `StoredAssumption`, `ExtraneousAssumption`,
`RemovalsAssumption`, `RequestsAssumption`, `ReviewCasesAssumption`, `HomeAssumption`,
`PageNamesAssumption`, `SlotsAssumption`, `BackfillAssumption`, `FactsAssumption`,
`DisplayAssumption`, `SizesAssumption`, `DestinationsAssumption`, `IssuesAssumption`,
`MaintenanceAssumption`, `KeyIsCoarser`, `PlanningAssumption`, `EvidenceAssumption`,
`RetentionAssumption`, `PagesAssumption`), that is for any
number of jobs, workers, attempts, archives, directories, threads, processes, failures and
outside changes. They say what kind of value a constant is and, where the code relies on
it, no more than it does: that cleaning a clean name changes nothing, that a destination
is neither the import folder nor the quarantine, that no book is called as a directory. A library is finite where that is assumed, and the orders of a walk and of
the checkpoints are any two orders. The bounds such as `MaxJobs` or `MaxTrouble` are
constants like the others, so a proof covers all of them.

**JobQueueProofs.** `TypeCorrect` first. The table is then studied apart from the
workers: `StepIsTableStep` shows that every step is an insertion or moves each row by one
of a few `RowMove`s, and `TableInv == UniqueActive /\ \A j : RowInv(j)` is inductive for
such steps. `RowInv` strengthens `AttemptBudget` by `claimed => runs < attempts`, without
which a handler start could overtake the claims. From it: `UniqueActiveAlways`,
`AttemptBudgetAlways`, `PermanentIsFailedAlways`, `TerminalIsFinalAlways` and
`QueueImplementsLifecycle`. The workers: `OwnerFences` (under pairwise different worker
ids) and `ExclusiveClaimAlways` (under `StopIsReal`, from `ExclusiveInv`: a busy worker's
row names it and no two busy workers have one job). `ReviewedOnlyAlways` is an action
property under the type invariant: a confirmation whose digest is that of the preview
releases rows that were lines of it.

**CanonicalApplyProofs.** `IInv == TypeOK /\ ChainsValid /\ RunOK /\ FamilyOK /\
KeeperFirst`. `ChainsValid` is not inductive: whether a record may be appended depends on
where the run stands, so `RunOK` ties `pc` to the receipts of the step under way.
`KeeperFirst` needs `FamilyOK`: while a dependant is still ahead in the run, its keeper is
ahead too or confirmed, also after a unit was blocked half-way. One lemma per action, and
`NothingClobberedAlways` from the type invariant and the rename alone.

Three more invariants carry what the runs check beyond that. `OrderInv` (`OrderOnDisk /\
RunInOrder`): what a run has left to do is what its attempt was asked and has not completed,
in order, so that at most one step is unfinished and an earlier attempt is only undone once
the later ones are (`AttemptsInOrderAlways`). `RowInv`: a row follows the forward markers
until an undo takes it back, which the apply does not outlive except in its own recovery;
with it every step maps to a step or a stutter of `CatalogueMoves` (`ImplementsMoves`).
`FileInv` is about a library that nobody else touches: the names are held by the plan's own
archives, only one undo ever moves an archive, and the receipts prove where it is, except
that between intent and done it is on one of the two sides, of which the run knows which
one (`RecoveryIsSoundAlways`; `JournalIsSoundAlways` states the first and this together).
None of the three is inductive alone: recovery decides from
all of receipts, markers, row and files at once.

`PlansAreSafe` is about the plan that is then applied, for any library and catalogue.
`PlanInv` follows the two walks: `RowsHold` (a folder is listed with a time it has had, a
book with its folder), `WalkHolds` (the root is walked first, every other folder after it
was seen), and `FirstHolds` and `SecondHolds`: the time of a folder somebody disturbed has
moved on from the one the first walk saw, and the second walk, which begins after the
units were drawn from the first, cannot see that one again. Hence a disturbed folder makes
the two inventories differ and nothing is sealed. That units are accepted by the executor
(`SoundUnits`) rests on `Waypoints`: the intermediate name of a change of letter case is
taken by nothing else in the plan.

**WatcherTrackerProofs.** `IInv == TypeOK /\ Placed /\ Counted /\ Closing`: the two
counters are the cardinalities of the sets of threads in a callback and in a unit, which
is what makes them natural numbers and `DrainsAlways` true; `NothingStarts` follows.
`ExclusiveAlways` is proved under `NoRenames` (no pass renames its directory) from
`ExclInv`, a claiming thread's directory is in `_processing_dirs`; without that
assumption the property is false (section 6). `HeldOnlyStalledAlways` needs it as well:
`HoldInv` says that what a thread is about to hold is `Stalled` from its probe to its commit,
because a change, a landing or another gate only ever takes the budget away.

`NeverForgottenAlways` holds with renames. That some timer or thread covers an archive is not
inductive, as a thread may be about to drop the directory it stands for; `TendInv` says who will look
at the archive before it can be forgotten: an event, an armed or started timer or discovery
(`Awaited`), or a thread that has yet to list it (`Tends`). `Carries(t, d)` is what every step
of a thread at a directory does to these, with one lemma per group of steps; the passes that
rename are the case in which the archive's own directory changes under it.

**SeriesImportProofs.** `Locked`: past its second look an arrival holds the lock of the
identity it settled on and its folder has that key; hence `ExclusiveAlways`. `Chosen`
(what it chose is still the only folder of its key) gives `OneFolderAlways` under
`NoOutsiders`: another tool may create a second folder at any time. `HonestAlways` is
proved from the registration step alone. `DeferredAlways` rests on `Looked`: unless
something moved since, the answer of an arrival's last look is what a look would give now
(`Steady`), so that a second different answer has a change behind it as the first had.

The module also has what else decides about series folders. `MergesAreSafe`: that every key
keeps a copy is not inductive, as a pass takes an archive off the shelf before it puts the
better one there and a tool removes the folder it merged; `SweepIsSafe` says that each key
it had is on the shelf, still to be visited, or being replaced, and `Phases` what a pass
knows of the name it is about to use. A rename, of the backfill or of a deferred name,
moves the promise to the key of the new name. `RoutingIsSafe`: `IndexHolds` says that, of a series
no other tool touched, the folders on disk are those of the index, those a failed move
left (`unnoted`) and those passes are about to fill or note (`InAir`); it needs that one
pass at a time has a series and that a pass which found a home still bears it. The two
step properties follow from what a step reads: a file that is written over is in the
quarantine, or at a path in some mover's hand that had seen something else there. `ResolutionIsSafe` needs only that the facts stay finite;
the rest is about the operators: one human value leaves nothing to choose, families are
disjoint since their keys are functions of the archive, a rename keeps the words of the name.
`LiveDeletesAreDuplicates`: `DeletesHold` says that while a live run deletes, each archive
that is yet to go has its pages in one that stays. That the best of a group stays takes
an argument of its own (`BestIsThere`): among finitely many, some archive is not
worse than any other.

**ConsoleJobsProofs.** `SafetyInv == TypeOK /\ Placed /\ ReleasedMeansDead /\ Witnessed
/\ ExclusiveRows`. `ExclusiveTools` speaks of processes, admission of rows; the bridge is
that a live tool's row holds its admission (`ReleasedMeansDead`) and that rows that
hold do not conflict (`ExclusiveRows`). `Placed` says what a runner, its row and its tool
can be at each point, in particular that a tool whose birth was never recorded sits in an
open job object or was killed, which is why `_gone()` may trust the job's name.
`Witnessed` carries an outcome from the proof through the receipt to the ledger.
`DoubtIsKeptAlways` and `FreedIsFinalAlways` are step properties under the invariant.

`SafetyHolds` in each of the five modules above collects its theorems into the property
`Safety` that the runs check, under the assumptions named with them.

**DatabaseProofs.** For `Migrations` the inductive invariant is `MigrationsTyped /\
WriterApplies /\ PlanHolds(r) /\ LedgerHolds`. `LedgerIsTheSchema` alone is not inductive:
that an applied file is not recorded already follows from the lock and from the reading of
the ledger under it, and that it is unprotected from `PlanHolds`, which says what a process
past the guard still knows: what it read and did not keep is recorded, and nothing it read
is protected and pending. `MigrationsAreSafe` adds `NothingAroundTheGuard` as a step
property under the same invariant. For `Backups`, `RunHolds` relates the witnesses a run
has taken to the commits so far, and `ReportHolds` what a report says to the backup;
`VerifiedAlways` follows for any commits, checkpoints, runs and paths.

`OutcomesAreTrue` is about `PlanArtifacts`: the record of a label tells which of its two names
the call may own, and a file that is the call's is whole and of the kind the request asks for
(`LabelHolds`); a call that refuses has an artifact it did not finish (`CallHolds`). A step
touches the names of one label, so that `OneLabel` reduces each action to that label. What is
excluded is what the properties exclude, interrupts at the few points that leave no trace
(`blind`, section 6).

`BackfillSafetyAlways`: an archive has one row in each table that is unique by archive
(`OneRowEach`, kept by every producer), a plan issued is the plan of the tables it was made
from, and the envelope, however often the files were edited, is that of some issued plan
but for what no digest covers, the census numbers `archives_without_revision` and
`archive_gates` among it: the reader checks only that the number of gate failures fits
(`provenance_backfill_artifact.py:40-46`), so nothing is claimed of them. `SameSnapshotSamePlan` is the long part: two
databases that read the same under the snapshot agree on whatever the planner looks at.

`RelabelsAreSafe` (`Recertify`). `VersionTwoIsPageOrder` needs that `PageOrder`, a choice
among all orders, exists (`SortingEnds`: one page after the other is put in its place) and
that pages in order are their own page order (`PageOrderSettles`: numbers from 1 to n that
increase are the identity). For the apply, `RecertifyInv` says that from verification to
lock, as long as the window on the backup holds, the rows of the backup classify as the
approved plan does, and that what was relabelled under the lock is still as it was reviewed;
a commit to the backup or another file in its place ends the window for good (`WindowBefore`).

**LibraryFileProofs** has the components that own single files. `LastCopyAlways` proves `KeepsLastCopy` for any tools, attempts,
failures and crashes under `NoArrivals` (nobody puts a file where a rewrite has just taken
the archive away; without it the property is false, section 6). The invariant `Keeps(p)`
says where the pages `p` are at each phase: in place, or parked while nothing is in place,
and that the rebuild which may replace them was made of them, or by a tool that looks
again before it renames.

`InstanceIsSafe`: `InstanceInv` adds to the three properties that whoever holds a lock is
registered and that a mutex nobody owns is counted zero times; entering cannot then be
granted twice, neither by recursion on one thread nor after a clean-up that failed.
`HandoffIsSafe`: `HandoffInv` has `ShelfLeads` (records lag behind the files) and, for every
run, `TodoHolds`: each completion up to one of its events is on record or is one of
its events, and what it measured is not newer than the file nor older than the completion it
stands for. With that a cursor that is put back by a slower run skips nothing.
`CompletedAlways`: `BatchInv == CopiesOfUntouched /\ JobsSound /\ NoneForgotten`, where the
outputs of a book nobody rewrote are of its first version, every job continues a copy that
is sound, and each book of a batch is still to be planned, covered, due as a job, or one
whose history is unknown to a batch that does not reprocess.
`AiIsSafe`: that originals survive is inductive only with what the two movers know
(`MoverHolds`: what is installed is in the vault before the local one goes; the watcher
moves the original at the head of its queue, of an archive that was routed) and with the
names under which the batch landed its archives (`BatchHolds`), as a restore and an
offload may meet at one name.

**CatalogueProofs** has the tools that keep catalogue and library in step.

`ScansAreTrue`: `ScanInv` is about the paths nobody touched since the newest batch began
(`settled`). `WalkHolds`: what the walk has passed and is there was seen, and nothing else;
what waits for a flush has the stamp it was seen with. `FreshHolds`: in a batch that was not
resumed each path seen waits or is recorded, and once the missing are marked the locations of
settled paths are the library's. `FreshHolds` has no counterpart for resumed batches, whose
checkpoint is in another order than the walk (section 6); `RetiredIsGone` needs only
`WalkHolds`.

`RemovalsAreSafe`: `RowsTellWhere` says nothing of an archive that a tool holds, so it is
not inductive. `RemovalsInv` makes it a partition: an archive that nothing has strayed is in
its place, with one of the two tools, or where the tool's record put it, and in one of the
five only (`Accounted`). `NamesHold` says what each tool knows of the names it moves to: the
quarantine run has every taken name among `names`, though others quarantined before it, and
the backup of a verified duplicate is free. `NothingOverwritten` compares the
number of files before and after; its lemma is that a move from one directory to a free name
of another keeps the sum.

`KeeperAlwaysCarriesAll` for any family and any contents: what is bound stays bound to its
rows while files change, the pairwise verdicts compose along the chain, and a page list that
is the beginning of another is an ordered subsequence of it.

`ReviewIsSafe`: `CopiesHold` is the argument for the method that copies: the source outlives
the copy, and what is in it may go only once the case made of it is kept. `CasesHold` says
that an undisturbed case that has begun is `Recoverable`: it is published with its own
payload, or its payload is at the source or, for a rename, in the partial directory, and
nowhere else. `CarrierHolds` and `OperatorHolds` tie the two processes to these, in particular
that no other case waits for the source the carrier is about to take away. The proof found
that `SUBSET Chapters \ {{}}` is read in two ways, by the checker as the sets of chapters
that are not empty and by the prover as the sets of chapters that are not `{}`; `Cases` now
has the parentheses.

`StagesAreSafe`: one stamp is one content, so there is a function from stamps to bytes that
every file, every result in a stage's hands and the evidence agree with (`StampsTell`);
signatures that were `overtaken` are what it cannot cover. `PlanIsSound` is the repair's
part: what it planned on is still so unless evidence was saved since. `CensusIsSafe`:
`EndingsInOrder` says that endings are numbered as they came, whatever order the jobs began
in; the partition and the presence of what is offered are then about the operators alone.
`DispositionsAreSafe`: `ChainsEnd` says that from any archive on the chain reaches one that
nothing supersedes. The trigger looks along the chain from the new successor, and the step
needs that the chain is the least set closed under the table (`ChainIsLeast`), which stands
for an induction along it. `RowsAreTheEvents` says that the last event about an archive and
a disposition tells whether it has it.

`RetentionIsSafe`: the invariant is that whatever is planned is the plan for inputs that
could be read (`IsPlanned`), and for those of now unless somebody committed since the
sample. `RetentionPlanKeeps` is then about the planner: with no residue the lineage is
unbroken, and the walk back from the pointer meets the n-th generation at the ordinal n
below (`GenerationsDescend`). `DigestDecides`: two databases with one digest give one plan.

An induction over data is stated in these proofs by a least counterexample in the natural
numbers (`WFMin`, or `LeastExists`), since the induction rules of the library are not
available to the prover: that a recursive function is what its equation says
(`GenerationsAre`), a walk, a sort, the best of a group.

Only model-checked: the liveness properties `PendingIsSettled`, the two `Progress`,
`EveryArrivalEnds` and `NoRowIsStranded`, as fairness and `ENABLED` are out of the prover's
reach. Every safety property and both refinements that a passing run checks are stated by a
theorem.

## 6 Disagreements found

Four runs find what a comment or document rules out.

- `WatcherTracker_shared_claim`: a pass renames its directory before its claim follows,
  and its `finally` discards the old path whoever holds it, so two threads may process
  one directory (`cbz_watcher.py:2548`; the intent is at `:3260`).
- `WatcherTracker_hold_drops`: a settled event that meets a hold at `_dispatch` is
  skipped with nothing to retry it; `docs/watcher_readiness_holding.md:46` says it is not
  dropped. Only the later claim re-arms.
- `ConsoleJobs_exit`: a terminal operation that commits and reports an error leaves the
  runner asking for a hold that the terminal row refuses, for ever (`runner.py:264`;
  `:285` and `:141` state the intent).
- `MaintenancePlan_replay`: a dry run plans every pass on the files as they are. Replayed,
  the move of the first pass puts the only copy under the name that a later pass wants
  deleted as its duplicate (`cbz_library_maintenance.py:2147`, against `:2107`: "Every op
  re-validates current state so a plan stays safe").

Seen while modelling, without a run of their own:

- two runs of a bounded CLI share a worker_id, so the owner fence does not tell them
  apart after a premature recovery (`OwnerFences` therefore assumes distinct ids);
- recovery sends a job with no attempts left to `failed`, which `cancel()` refuses
  although `queue.py:96` speaks of `pending`;
- the claim of a renamed directory stays in `_processing_dirs` (`cbz_watcher.py:2529`);
- a timer callback that already started pops a newer timer (`cbz_watcher.py:3224`);
- `shutil.move` puts an arrival inside a folder that appeared between the check at
  `cbz_watcher.py:2378` and the move at `2391`, against the comment at `2396`;
- in the runner, a release that failed after the doubt was saved leaves closed handles,
  of which `_observe` never says that they settled;
- `relocation_repair.py:46-53` requires two proofs so that no page evidence of other bytes
  is refreshed into looking current; a stage that saves while the repair is planned still
  brings that about, and perceptual hashes have no proof of their own (`EvidenceAgrees`
  therefore excludes `overtaken` evidence and speaks of hash and signature);
- `supersession.py:105` calls `InconsistentRelationsError` unreachable from relations derived
  from bytes, as payload containment is transitive; with ComicInfo drops accepted it is not:
  a document may be dropped for a fuller one, and the archive that adds a second, different
  document to that one is no keeper for the first (`Supersession` reaches "raised");
- a resume skips what the walk visits before the checkpoint but the checkpoint's order puts
  after it, so a resumed batch is no substitute for a fresh one, against the comment at
  `start_batch` (`FreshScanIsExact` speaks of batches that were not resumed);
- a file that arrives at the archive's path between the two renames of a rewrite makes the
  second fail and is then taken for the archive, so the parked original, the last copy of
  its pages, counts as stale at the next start (`cbz_watcher.py:314`: "never the last copy
  of an archive"); hence `NoArrivals`;
- an archive landed under a stripped name can be displaced later by one that bears that
  name itself, as its tag is no longer to be seen (`TagIsNoEvidence` is about the branch
  that strips);
- the `rmtree` of a merged source (`cbz_library_maintenance.py:907`, `cbz_sanitizer.py:985`)
  takes along what arrives after the last look; so does the saved operation of a replay;
- a protected migration that arrives after a process scanned does not stop that process
  from recording a higher version (`NothingAroundTheGuard` speaks of what the process read);
- a retried transfer may race a rejection, a rollback disturbs a case in flight, and the
  recovery of a completed case never releases its source (`cbz_classification_staging.py`);
- an interrupt at a few points of the artifact writer leaves a linked file that no error
  names (`provenance_backfill_planner.py:163`, `:1925`, `:1932`; excluded as `blind`);
- `_excl = exclusions or set()` (`cbz_library_maintenance.py:1167`) takes a caller's empty set
  for none: what is excluded in one directory is lost when the next one saves its own;
- a `return` on unreadable facts in the middle of a batch (`cbz_watcher.py:2682`) leaves
  the earlier archives processed, where the restore docstring (`:1027`) speaks of the batch;
  once the migration command took an original away a restore raises; and a failing archive
  that was replaced although its record was refused is never restored;
- a book at the root of the library that leaves and comes back between the two walks is
  not noticed (`PlannedFoldersAreStill` excludes the root);
- the name a plan gives need not be a fixed point of field resolution;
- a book whose marker has no method tags: `docs/camelia_decensor.md:38-41` says that such
  history is unknown, and the plan lists its copy as `CONTINUE ... legacy/unknown` with
  the methods that remain; `run_batch` asks `methods_to_run` again, which finds nothing
  to do for a marked archive without tags (`camelia_decensor.py:119-122`), skips it as
  "methods completed while batch was waiting" (`:354-359`) and ends `Completed`
  (`CompletedIsComplete` therefore excepts it, unless the batch reprocesses);
- "Never overwrites" (`cbz_library_reclassify.py:17`) holds of what the tool saw: the look
  (`:468`, `:489`) and `shutil.move` (`:474`, `:499`) are two calls and no lock of the
  watcher is taken, so an archive that lands in between is replaced, and a folder that is
  made in between gets the source inside it (`LibraryKeepsItsIssues` excepts just these);
- a move of loose files that fails leaves the folder it made (`cbz_watcher.py:2443`)
  without a note to the index, so the zero-ambiguity gate may say clear of a
  series that has two folders (`RouterSeesTheDisk` speaks of the folders in `unnoted` apart);
- a series found in two libraries "is treated as no match" (`cbz_routing.py:780`), but the
  first of its folders decides, with authority (`:809-822`); a `domain_in_list` predicate may
  name a list that does not exist (`:1247`); the reclassifier's move into quarantine replaces
  what is there (`cbz_library_reclassify.py:494`, against `:17`); emptied source folders
  stay; planning without an index splits a series with two spellings; the digest of a tree
  does not see an edit of equal size; and the index is not told of moves by other tools
  (`stale`).

## 7 Abstractions and what they hide

**JobQueue.** Time is relative (`delay`, `age`), so no clock is bounded. The digest of a
preview is the set of its lines; its timestamp argument, the error message and the
trailing reads are left out. A worker without a handler for its job type is unreachable,
because it claims only types it serves. Worker ids may recur after a restart.

**CanonicalApply.** One plan and one forward attempt per digest. The scope lock is the
single run state. The checks of containment, volume and database identity are left out,
as they refuse before any effect. Pairings follow the location row. Quiescence, drift and
other early stops are one nondeterministic stop, counted in `MaxInterruptions`. Nobody
meddles with the database. `asked` is set when the journal is created.

**WatcherTracker.** A generation is only compared for equality, hence `fresh`. Events of a
directory are coalesced. Only a directory without subdirectories is renamed. Readiness
reasons that cannot be held are budgets that never expire. The recheck of the fingerprint
and the holding rename are one step. The two `finally`s of a pass are one step, startup
visits directories in any order, and the import of a comic directory is what lands and
what stays. The watch root's own archives are left out.

**SeriesImport.** Fuzzy alias matches, a second library and the shadow router are left
out. ComicInfo is folded into `Cleaned`, `Bare` and `Corroborated`; names that differ only
in censorship share a `Key`. Resolution is two looks (title, target). A registry write
that fails, conflicts of single files in a merge and the depth at which an arrival lands
are left out. Only one lock is held at a time, so the lock-order check never fires.

**ConsoleJobs.** No state is entered twice, so a fence on `state_version` is a fence on
the state. One runner per job, whose byte lock is implicit in it. The readiness check and
the admission are one step. Stop requests are never set. A spawn that fails is a
spawn that does not happen. A receipt stores the mapped outcome. A page holds all
rows. History, archives, log contents and the launch specification are left out.

**LibraryScan.** Excluded directories and counts are left out. **ArchiveStages.** One
archive; what is computed from bytes is the bytes. A stamp is never reused, as size and
mtime together practically are not. **Removals.** Names are constants; reports are left
out; the numbers a name may take are bounded, and a run that is out of them waits (`HasNext`). **Census.** One archive; a stamp is what is compared. **Supersession.** Relations are
computed from the contents; archive limits are left out. **Retention.** Evidence is any
subset of the kinds given; the feasibility report is left out. **Recertify.** Pages are numbers, `KeyOf` their sort
key.
**Migrations.** The statements of a migration take effect or not as a whole, as the
transaction does. **Backups.** Row counts are the only comparison of data, as in the code:
two contents may agree on them.

**ReviewCases.** One series and one source. Hash verification is equality of payloads;
free-space checks are left out. **ArchiveRewrite.** Of an archive, its pages (a number) and
whether its ComicInfo is new. **ArchiveMerge.** What a name is cleaned to, its first chapter included, is a function of
constants; equality of bytes is equality of book and size. Every move is a rename on one
volume, so that a copy cut short between volumes is left out; `aside` also holds what a
whole folder took inside one that appeared. `EveryKeyKeepsACopy` is about a key or, once
its copy was renamed, that of the new name. **PlanArtifacts.** A digest is
the call that wrote a file. **MaintenancePlan.** Series folders are matched by a decision
that may go either way where the code asks ratios. **AiOriginals** and **CameliaBatch.** The
external model is an environment action that may fail. In the batch it is assumed that the
inspector reports the method tags that are there; a failed batch remembers nothing. **CanonicalPlan.** What resolution concludes is any name of the
folder; formatting is a constant. **FieldResolution.** A name is the facts it states;
tokenizing is left out. **SeriesRouting.** Predicates over ComicInfo are the set of rules an
archive satisfies; archives have one size, so a digest is a count, and of two archives
either may be the larger. One migration or single move runs at a time; a folder inside a
series folder is there while an issue is in it; moves are renames on one volume.
`MixedParents` says which import folders hold folders of others. An operator may take a
folder of the retiring library away (`TakeAway`, external). Left out: the search for a
sibling that differs in censorship (`_find_censorship_sibling`), and the hold of stripped arrivals, which is in `ArchiveMerge`.

## 8 Not modelled

Reasons are in `PROJECT.json` per component. In short:

- the console's HTTP layer, tokens and ACLs, which keep no state of their own;
- near and content duplicates, job audits, postflight, compilations and gaps: read-only
  reports over one snapshot;
- the projection of an applied backfill (the repository has no executor for it); the plan,
  its artifacts and their reader are modelled;
- the alias registry's files and their recovery; the handoff's previews;
- text: tokenizing, sanitizing and formatting names;
- the GUI, PowerShell helpers and the vendored Komf script, which start the tools above.

One hazard in `PROJECT.json` has no property: a deferred arrival for which nothing is
scheduled (`cbz_watcher.py:2906`); its note says why.

## 9 Plan

Done, in the order of importance: `JobQueue` (with `JobLifecycle`), `CanonicalApply` (with
`CatalogueMoves`), `WatcherTracker`, `SeriesImport`, `ConsoleJobs`, each with its proofs; then
the catalogue (`LibraryScan`, `ArchiveStages`, `Census`, `Removals`, `Dispositions`,
`Supersession`, `Retention`, `Recertify`), the database (`Migrations`, `Backups`), the file
tools (`ArchiveRewrite`, `ArchiveMerge`, `ReviewCases`, `MaintenancePlan`, `AiOriginals`,
`CameliaBatch`), the planners (`FieldResolution`, `CanonicalPlan`, `PlanArtifacts`,
`BackfillPlan`, `SeriesRouting`), and the two locks and cursors around them (`WatcherInstance`,
`CameliaHandoff`).

Next, as models: the registry's two files and their rebuild. As compositions: `WatcherInstance` with
the session of `WatcherTracker`; `ArchiveStages` with the claims of `JobQueue`, whose statuses it reduces
today; `CanonicalPlan` with `CanonicalApply`, so that the plan executed is one that was made.

Next, as proofs: the refinements those compositions state. What the components of today
promise for safety is proved.

## 10 Running it

    tlc -workers 2 -config JobQueue_attested.cfg MCJobQueue.tla
    tlc -workers 2 -config MCComponents.cfg MCComponents.tla
    tlapm JobQueueProofs.tla

The module of each run is in `PROJECT.json`. The longest run takes a few minutes on two
cores, the longest proof about as long.
