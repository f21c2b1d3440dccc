---------------------------- MODULE Migrations ----------------------------
(***************************************************************************)
(* comic_automation/database: apply_migrations and the guard that keeps a  *)
(* protected migration (015) away from it.  Several processes of the suite *)
(* start at once on one database, each reads the migrations directory and  *)
(* the ledger once (MigrationSnapshot) and then applies its plan, one      *)
(* BEGIN IMMEDIATE transaction per file.  Files arrive in the directory    *)
(* at any time, two files may claim one version, and a process may die.    *)
(* A file is <<version, name>>; what its statements do to the schema is    *)
(* the pair itself.                                                        *)
(***************************************************************************)
EXTENDS Integers, FiniteSets, Sequences

CONSTANTS
  Runners,          \* processes that call apply_migrations
  Ordinary,         \* versions of ordinary migrations
  Protected,        \* PROTECTED_MIGRATIONS
  FileLabels,       \* file names a version can have
  MaxArrivals       \* bound: files that arrive after the first start

ASSUME MigrationsAssumption ==
  /\ Ordinary \subseteq Nat /\ Protected \subseteq Nat
  /\ Ordinary \cap Protected = {}
  /\ "nobody" \notin Runners
  /\ MaxArrivals \in Nat

VARIABLES
  directory,        \* the migrations directory: a set of files
  ledger,           \* rows of schema_migrations
  effects,          \* sequence of the files whose statements were committed
  writer,           \* the runner inside BEGIN IMMEDIATE, or "nobody"
  runner,           \* runner -> phase, snapshot and plan
  arrivals          \* files that arrived so far

migrationVars == <<directory, ledger, effects, writer, runner, arrivals>>

Versions == Ordinary \cup Protected
MigrationFiles == Versions \X FileLabels
VersionsOf(files) == {f[1] : f \in files}
NotStarted == [phase |-> "idle", discovered |-> {}, recorded |-> {}, left |-> {}]

MigrationsInit ==
  /\ directory \in {{<<v, n>> : v \in vs} : vs \in SUBSET Ordinary, n \in FileLabels}
  /\ ledger = {} /\ effects = <<>> /\ writer = "nobody"
  /\ runner = [r \in Runners |-> NotStarted]
  /\ arrivals = 0

(* Two files may not claim one version.                                    *)
Ambiguous(files) == \E f, g \in files : f # g /\ f[1] = g[1]

(* MigrationSnapshot.pending and pending_protected.                        *)
Pending(snapshot) == {f \in snapshot.discovered : f[1] \notin snapshot.recorded}
PendingProtected(snapshot) == {f \in Pending(snapshot) : f[1] \in Protected}

(* Mutant of ApplyPlan: the directory is scanned a second time.            *)
ApplyPlanRescanned(snapshot) == {f \in directory : f[1] \notin snapshot.recorded}

(* ordinary_apply_plan: the pending ordinary files, which are taken in     *)
(* version order.                                                          *)
ApplyPlan(snapshot) == {f \in Pending(snapshot) : f[1] \notin Protected}
Foremost(f, plan) == f \in plan /\ \A g \in plan : f[1] <= g[1]

(* take_migration_snapshot, its reading of the directory; an ambiguous one *)
(* is refused.                                                             *)
ScanDirectory(r) ==
  /\ runner[r].phase = "idle"
  /\ runner' = [runner EXCEPT ![r] =
       IF Ambiguous(directory) THEN [NotStarted EXCEPT !.phase = "refused"]
       ELSE [NotStarted EXCEPT !.phase = "scanned", !.discovered = directory]]
  /\ UNCHANGED <<directory, ledger, effects, writer, arrivals>>

(* Mutant of GuardPasses: the protected file is skipped, not refused.      *)
GuardSkips(snapshot) == TRUE

(* assert_no_pending_protected, before the ledger table is even created.   *)
GuardPasses(snapshot) == PendingProtected(snapshot) = {}

(* recorded_versions closes the snapshot; the guard and the plan are drawn *)
(* from it, and apply_migrations goes on to the first file.                *)
GuardAndPlan(r) ==
  LET snapshot == [runner[r] EXCEPT !.recorded = VersionsOf(ledger)] IN
  /\ runner[r].phase = "scanned"
  /\ runner' = [runner EXCEPT ![r] =
       IF GuardPasses(snapshot)
       THEN [snapshot EXCEPT !.phase = "applying", !.left = ApplyPlan(snapshot)]
       ELSE [NotStarted EXCEPT !.phase = "refused"]]
  /\ UNCHANGED <<directory, ledger, effects, writer, arrivals>>

(* BEGIN IMMEDIATE: the write lock is taken before any statement.          *)
BeginMigration(r) ==
  /\ runner[r].phase = "applying" /\ writer = "nobody"
  /\ \E f \in directory : Foremost(f, runner[r].left)
  /\ writer' = r
  /\ UNCHANGED <<directory, ledger, effects, runner, arrivals>>

(* read_text of a file that has left the directory since the snapshot.     *)
FileIsGone(r) ==
  /\ runner[r].phase = "applying" /\ writer # r
  /\ \E f \in runner[r].left : Foremost(f, runner[r].left) /\ f \notin directory
  /\ runner' = [runner EXCEPT ![r].phase = "raised"]
  /\ UNCHANGED <<directory, ledger, effects, writer, arrivals>>

(* Mutant of Recordable: INSERT OR IGNORE.                                 *)
RecordableOrIgnored(f) == TRUE

(* The INSERT into schema_migrations, whose version is the primary key.    *)
Recordable(f) == f[1] \notin VersionsOf(ledger)

(* The statements, the ledger row and COMMIT, or ROLLBACK and raise.       *)
CommitMigration(r, f) ==
  /\ writer = r /\ Foremost(f, runner[r].left)
  /\ Recordable(f)
  /\ ledger' = ledger \cup {f}
  /\ effects' = Append(effects, f)
  /\ runner' = [runner EXCEPT ![r].left = @ \ {f}]
  /\ writer' = "nobody"
  /\ UNCHANGED <<directory, arrivals>>

RollBack(r, f) ==
  /\ writer = r /\ Foremost(f, runner[r].left)
  /\ ~Recordable(f)
  /\ runner' = [runner EXCEPT ![r].phase = "raised"]
  /\ writer' = "nobody"
  /\ UNCHANGED <<directory, ledger, effects, arrivals>>

(* The plan is exhausted; the next start is a new run.                     *)
EndRun(r) ==
  /\ \/ runner[r].phase = "applying" /\ runner[r].left = {}
     \/ runner[r].phase \in {"refused", "raised"}
  /\ writer # r
  /\ runner' = [runner EXCEPT ![r] = NotStarted]
  /\ UNCHANGED <<directory, ledger, effects, writer, arrivals>>

(* The process dies: SQLite rolls an open transaction back.                *)
RunnerDies(r) ==
  /\ runner[r].phase \in {"scanned", "applying"}
  /\ runner' = [runner EXCEPT ![r] = NotStarted]
  /\ writer' = IF writer = r THEN "nobody" ELSE writer
  /\ UNCHANGED <<directory, ledger, effects, arrivals>>

(* A deployment adds a file, or renames one.                               *)
FileArrives(f, gone) ==
  /\ arrivals < MaxArrivals /\ f \notin directory
  /\ arrivals' = arrivals + 1
  /\ directory' = (directory \ gone) \cup {f}
  /\ UNCHANGED <<ledger, effects, writer, runner>>

MigrationsNext ==
  \/ \E r \in Runners :
       \/ ScanDirectory(r) \/ GuardAndPlan(r) \/ BeginMigration(r) \/ FileIsGone(r)
       \/ EndRun(r) \/ RunnerDies(r)
       \/ \E f \in runner[r].left : CommitMigration(r, f) \/ RollBack(r, f)
  \/ \E f \in MigrationFiles : FileArrives(f, {}) \/ FileArrives(f, {<<f[1], n>> : n \in FileLabels})

MigrationsSpec == MigrationsInit /\ [][MigrationsNext]_migrationVars

-----------------------------------------------------------------------------

(* The schema and the ledger tell one story whatever processes race, die   *)
(* or meet a renamed file: each version's statements took effect once, by  *)
(* the file its row names, and no protected version among them.            *)
LedgerIsTheSchema ==
  /\ Cardinality(VersionsOf(ledger)) = Len(effects)
  /\ {effects[i] : i \in DOMAIN effects} = ledger
  /\ VersionsOf(ledger) \cap Protected = {}

(* R6, fail closed: a version lands only if the directory its run read had *)
(* no protected migration pending, for the plan and the guard have judged  *)
(* the same reading; and then every lower version of that reading is       *)
(* recorded already.                                                       *)
NothingAroundTheGuard ==
  [][\A f \in ledger' \ ledger, r \in Runners :
       writer = r =>
         /\ f \in runner[r].discovered
         /\ PendingProtected(runner[r]) = {}
         /\ \A g \in runner[r].discovered : g[1] < f[1] => g[1] \in VersionsOf(ledger)]_migrationVars

\* The ledger is the schema, whoever migrates, and no ordinary run applies what
\* the guard protects.
MigrationsSafety == []LedgerIsTheSchema /\ NothingAroundTheGuard

=============================================================================
