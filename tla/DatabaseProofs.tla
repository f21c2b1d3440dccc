---------------------------- MODULE DatabaseProofs ----------------------------
(***************************************************************************)
(* What holds of the database's ledger for any number of processes that    *)
(* migrate it, any migrations and any arrivals in the directory; of its    *)
(* backups for any commits, checkpoints, runs and paths; of the provenance *)
(* backfill planned from it, for any evidence and any edits of its files;  *)
(* of plan artifacts written from it, for any requests and failures; and   *)
(* of the signatures relabelled in it, for any pages and disruptions.      *)
(***************************************************************************)
EXTENDS Migrations, Backups, PlanArtifacts, BackfillPlan, Recertify,
        FiniteSetTheorems, WellFoundedInduction, TLAPS

-----------------------------------------------------------------------------
(* Migrations                                                              *)

Phases == {"idle", "scanned", "applying", "refused", "raised"}
RunnersTyped ==
  runner \in [Runners -> [phase : Phases, discovered : SUBSET MigrationFiles,
                          recorded : SUBSET Versions, left : SUBSET MigrationFiles]]
MigrationsTyped ==
  /\ directory \subseteq MigrationFiles /\ ledger \subseteq MigrationFiles
  /\ effects \in Seq(MigrationFiles)
  /\ writer \in Runners \cup {"nobody"}
  /\ RunnersTyped

(* What a run that passed the guard still knows: every file it read is     *)
(* recorded or left to it, and none of them is protected and pending.      *)
PlanHolds(r) ==
  runner[r].phase = "applying" =>
    /\ runner[r].left \subseteq runner[r].discovered
    /\ VersionsOf(runner[r].left) \cap Protected = {}
    /\ PendingProtected(runner[r]) = {}
    /\ \A g \in runner[r].discovered \ runner[r].left : g[1] \in VersionsOf(ledger)
WriterApplies == \A r \in Runners : writer = r => runner[r].phase = "applying"

LedgerHolds == IsFiniteSet(VersionsOf(ledger)) /\ LedgerIsTheSchema
MigrationsInv == MigrationsTyped /\ WriterApplies /\ (\A r \in Runners : PlanHolds(r)) /\ LedgerHolds

LEMMA VersionsAreVersions ==
  ASSUME NEW files \in SUBSET MigrationFiles
  PROVE  VersionsOf(files) \subseteq Versions
BY DEF VersionsOf, MigrationFiles

LEMMA VersionsGrow ==
  ASSUME NEW files, NEW f
  PROVE  VersionsOf(files \cup {f}) = VersionsOf(files) \cup {f[1]}
BY DEF VersionsOf

LEMMA FileHasVersion ==
  ASSUME NEW f \in MigrationFiles
  PROVE  f[1] \in Nat /\ f[1] \in Versions
BY MigrationsAssumption DEF MigrationFiles, Versions

LEMMA MigrationsTypedInit == MigrationsInit => MigrationsTyped
<1> SUFFICES ASSUME MigrationsInit PROVE MigrationsTyped
  OBVIOUS
<1>1. directory \subseteq MigrationFiles
  BY DEF MigrationsInit, MigrationFiles, Versions
<1>2. NotStarted \in [phase : Phases, discovered : SUBSET MigrationFiles,
                      recorded : SUBSET Versions, left : SUBSET MigrationFiles]
  BY DEF NotStarted, Phases
<1> QED
  BY <1>1, <1>2 DEF MigrationsInit, MigrationsTyped, RunnersTyped

LEMMA MigrationsTypedStep == MigrationsTyped /\ [MigrationsNext]_migrationVars => MigrationsTyped'
<1> SUFFICES ASSUME MigrationsTyped, [MigrationsNext]_migrationVars PROVE MigrationsTyped'
  OBVIOUS
<1> DEFINE Snapshots == [phase : Phases, discovered : SUBSET MigrationFiles,
                         recorded : SUBSET Versions, left : SUBSET MigrationFiles]
<1>0. NotStarted \in Snapshots
  BY DEF NotStarted, Phases
<1>1. CASE UNCHANGED migrationVars
  BY <1>1 DEF migrationVars, MigrationsTyped, RunnersTyped
<1>2. ASSUME NEW r \in Runners, ScanDirectory(r) PROVE MigrationsTyped'
  <2>1. [NotStarted EXCEPT !.phase = "refused"] \in Snapshots
    BY <1>0 DEF Phases
  <2>2. [NotStarted EXCEPT !.phase = "scanned", !.discovered = directory] \in Snapshots
    BY <1>0 DEF Phases, MigrationsTyped
  <2> QED
    BY <1>2, <2>1, <2>2 DEF ScanDirectory, MigrationsTyped, RunnersTyped
<1>3. ASSUME NEW r \in Runners, GuardAndPlan(r) PROVE MigrationsTyped'
  <2> DEFINE snapshot == [runner[r] EXCEPT !.recorded = VersionsOf(ledger)]
  <2>1. runner[r] \in Snapshots
    BY DEF MigrationsTyped, RunnersTyped
  <2>2. snapshot \in Snapshots
    BY <2>1, VersionsAreVersions DEF MigrationsTyped
  <2>3. ApplyPlan(snapshot) \subseteq MigrationFiles
    BY <2>2 DEF ApplyPlan, Pending
  <2>4. [snapshot EXCEPT !.phase = "applying", !.left = ApplyPlan(snapshot)] \in Snapshots
    BY <2>2, <2>3 DEF Phases
  <2>5. [NotStarted EXCEPT !.phase = "refused"] \in Snapshots
    BY <1>0 DEF Phases
  <2> HIDE DEF snapshot
  <2>6. runner' \in [Runners -> Snapshots]
    BY <1>3, <2>4, <2>5 DEF GuardAndPlan, MigrationsTyped, RunnersTyped, snapshot
  <2> QED
    BY <1>3, <2>6 DEF GuardAndPlan, MigrationsTyped, RunnersTyped
<1>4. ASSUME NEW r \in Runners, BeginMigration(r) PROVE MigrationsTyped'
  BY <1>4 DEF BeginMigration, MigrationsTyped, RunnersTyped
<1>5. ASSUME NEW r \in Runners, FileIsGone(r) PROVE MigrationsTyped'
  <2>1. [runner[r] EXCEPT !.phase = "raised"] \in Snapshots
    BY DEF MigrationsTyped, RunnersTyped, Phases
  <2> QED
    BY <1>5, <2>1 DEF FileIsGone, MigrationsTyped, RunnersTyped
<1>6. ASSUME NEW r \in Runners, NEW f \in runner[r].left, CommitMigration(r, f) PROVE MigrationsTyped'
  <2>1. runner[r] \in Snapshots /\ f \in MigrationFiles
    BY DEF MigrationsTyped, RunnersTyped
  <2>2. [runner[r] EXCEPT !.left = @ \ {f}] \in Snapshots
    BY <2>1
  <2> HIDE DEF Snapshots
  <2>3. runner \in [Runners -> Snapshots]
    BY DEF MigrationsTyped, RunnersTyped, Snapshots
  <2>4. runner' = [runner EXCEPT ![r] = [runner[r] EXCEPT !.left = @ \ {f}]]
    BY <1>6, <2>3 DEF CommitMigration
  <2>5. runner' \in [Runners -> Snapshots]
    BY <2>2, <2>3, <2>4
  <2>6. ledger' \subseteq MigrationFiles /\ effects' \in Seq(MigrationFiles)
    BY <1>6, <2>1 DEF CommitMigration, MigrationsTyped
  <2> QED
    BY <1>6, <2>5, <2>6 DEF CommitMigration, MigrationsTyped, RunnersTyped, Snapshots
<1>7. ASSUME NEW r \in Runners, NEW f \in runner[r].left, RollBack(r, f) PROVE MigrationsTyped'
  <2>1. [runner[r] EXCEPT !.phase = "raised"] \in Snapshots
    BY DEF MigrationsTyped, RunnersTyped, Phases
  <2> QED
    BY <1>7, <2>1 DEF RollBack, MigrationsTyped, RunnersTyped
<1>8. ASSUME NEW r \in Runners, EndRun(r) PROVE MigrationsTyped'
  BY <1>0, <1>8 DEF EndRun, MigrationsTyped, RunnersTyped
<1>9. ASSUME NEW r \in Runners, RunnerDies(r) PROVE MigrationsTyped'
  BY <1>0, <1>9 DEF RunnerDies, MigrationsTyped, RunnersTyped
<1>10. ASSUME NEW f \in MigrationFiles, NEW gone, FileArrives(f, gone) PROVE MigrationsTyped'
  BY <1>10 DEF FileArrives, MigrationsTyped, RunnersTyped
<1> QED
  BY <1>1, <1>2, <1>3, <1>4, <1>5, <1>6, <1>7, <1>8, <1>9, <1>10 DEF MigrationsNext

LEMMA MigrationsInvInit == MigrationsInit => MigrationsInv
<1> SUFFICES ASSUME MigrationsInit PROVE MigrationsInv
  OBVIOUS
<1>1. VersionsOf(ledger) = {} /\ effects = <<>> /\ ledger = {}
  BY DEF MigrationsInit, VersionsOf
<1>2. LedgerHolds
  BY <1>1, FS_EmptySet DEF LedgerHolds, LedgerIsTheSchema
<1>3. \A r \in Runners : runner[r].phase = "idle"
  BY DEF MigrationsInit, NotStarted
<1>4. writer \notin Runners
  BY MigrationsAssumption DEF MigrationsInit
<1> QED
  BY <1>2, <1>3, <1>4, MigrationsTypedInit DEF MigrationsInv, WriterApplies, PlanHolds

(* The commit is the one step that changes the ledger.                     *)
LEMMA CommitKeepsLedger ==
  ASSUME MigrationsInv, NEW r \in Runners, NEW f \in runner[r].left, CommitMigration(r, f)
  PROVE  LedgerHolds'
<1>1. f \in MigrationFiles /\ f[1] \notin VersionsOf(ledger) /\ effects \in Seq(MigrationFiles)
  BY DEF MigrationsInv, MigrationsTyped, RunnersTyped, CommitMigration, Recordable
<1>2. f[1] \notin Protected
  BY <1>1 DEF MigrationsInv, PlanHolds, WriterApplies, CommitMigration, VersionsOf
<1>3. VersionsOf(ledger') = VersionsOf(ledger) \cup {f[1]}
  BY VersionsGrow DEF CommitMigration
<1>4. IsFiniteSet(VersionsOf(ledger'))
      /\ Cardinality(VersionsOf(ledger')) = Cardinality(VersionsOf(ledger)) + 1
  BY <1>1, <1>3, FS_AddElement DEF MigrationsInv, LedgerHolds
<1>5. effects' = Append(effects, f) /\ Len(effects') = Len(effects) + 1
  BY <1>1 DEF CommitMigration
<1>6. {effects'[i] : i \in DOMAIN effects'} = {effects[i] : i \in DOMAIN effects} \cup {f}
  <2>1. DOMAIN effects' = 1..(Len(effects) + 1) /\ DOMAIN effects = 1..Len(effects)
    BY <1>1, <1>5
  <2>2. effects'[Len(effects) + 1] = f /\ \A i \in 1..Len(effects) : effects'[i] = effects[i]
    BY <1>1, <1>5
  <2> QED
    BY <2>1, <2>2, <1>1
<1>7. VersionsOf(ledger') \cap Protected = {}
  BY <1>2, <1>3 DEF MigrationsInv, LedgerHolds, LedgerIsTheSchema
<1>8. ledger' = ledger \cup {f}
  BY DEF CommitMigration
<1> QED
  BY <1>4, <1>5, <1>6, <1>7, <1>8
     DEF MigrationsInv, LedgerHolds, LedgerIsTheSchema, VersionsOf

LEMMA StepKeepsLedger == MigrationsInv /\ [MigrationsNext]_migrationVars => LedgerHolds'
<1> SUFFICES ASSUME MigrationsInv, [MigrationsNext]_migrationVars PROVE LedgerHolds'
  OBVIOUS
<1>1. CASE UNCHANGED <<ledger, effects>>
  BY <1>1 DEF MigrationsInv, LedgerHolds, LedgerIsTheSchema, VersionsOf
<1>2. ASSUME NEW r \in Runners, NEW f \in runner[r].left, CommitMigration(r, f)
      PROVE  LedgerHolds'
  BY <1>2, CommitKeepsLedger
<1> QED
  BY <1>1, <1>2 DEF MigrationsNext, migrationVars, ScanDirectory, GuardAndPlan, BeginMigration,
                    FileIsGone, RollBack, EndRun, RunnerDies, FileArrives

(* The ledger only grows, and with it the versions on record.              *)
LEMMA LedgerGrows ==
  [MigrationsNext]_migrationVars => VersionsOf(ledger) \subseteq VersionsOf(ledger')
<1> SUFFICES ASSUME [MigrationsNext]_migrationVars PROVE ledger \subseteq ledger'
  BY DEF VersionsOf
<1> QED
  BY DEF MigrationsNext, migrationVars, ScanDirectory, GuardAndPlan, BeginMigration, FileIsGone,
         CommitMigration, RollBack, EndRun, RunnerDies, FileArrives

(* A plan drawn from a snapshot covers what the snapshot read.             *)
LEMMA PlanCovers ==
  ASSUME NEW snapshot, PendingProtected(snapshot) = {}
  PROVE  /\ ApplyPlan(snapshot) \subseteq snapshot.discovered
         /\ VersionsOf(ApplyPlan(snapshot)) \cap Protected = {}
         /\ \A g \in snapshot.discovered \ ApplyPlan(snapshot) : g[1] \in snapshot.recorded
BY DEF ApplyPlan, PendingProtected, Pending, VersionsOf

LEMMA StepKeepsPlans ==
  ASSUME MigrationsInv, [MigrationsNext]_migrationVars, NEW q \in Runners
  PROVE  PlanHolds(q)'
<1>g. VersionsOf(ledger) \subseteq VersionsOf(ledger')
  BY LedgerGrows
<1>t. runner \in [Runners -> [phase : Phases, discovered : SUBSET MigrationFiles,
                              recorded : SUBSET Versions, left : SUBSET MigrationFiles]]
  BY DEF MigrationsInv, MigrationsTyped, RunnersTyped
<1>p. PlanHolds(q)
  BY DEF MigrationsInv
<1>0. CASE runner'[q] = runner[q]
  BY <1>0, <1>g, <1>p DEF PlanHolds, PendingProtected, Pending, VersionsOf
<1>1. CASE runner'[q].phase # "applying"
  BY <1>1 DEF PlanHolds
<1>2. ASSUME NEW r \in Runners, GuardAndPlan(r), q = r, runner'[q].phase = "applying"
      PROVE  PlanHolds(q)'
  <2> DEFINE snapshot == [runner[r] EXCEPT !.recorded = VersionsOf(ledger)]
  <2>1. /\ snapshot.discovered = runner[r].discovered
        /\ snapshot.recorded = VersionsOf(ledger)
    BY <1>t
  <2>2. GuardPasses(snapshot)
        /\ runner'[q] = [snapshot EXCEPT !.phase = "applying", !.left = ApplyPlan(snapshot)]
    <3>1. NotStarted.phase = "idle" /\ [NotStarted EXCEPT !.phase = "refused"].phase = "refused"
      BY DEF NotStarted
    <3> QED
      BY <1>2, <1>t, <3>1 DEF GuardAndPlan
  <2>3. /\ runner'[q].left = ApplyPlan(snapshot)
        /\ runner'[q].discovered = snapshot.discovered
        /\ runner'[q].recorded = snapshot.recorded
    BY <2>2, <1>t
  <2> HIDE DEF snapshot
  <2>4. PendingProtected(runner'[q]) = {}
    BY <2>2, <2>3 DEF GuardPasses, PendingProtected, Pending
  <2> QED
    BY <2>1, <2>2, <2>3, <2>4, <1>g, PlanCovers
       DEF GuardPasses, PlanHolds, PendingProtected, Pending, VersionsOf
<1>3. ASSUME NEW r \in Runners, NEW f \in runner[r].left, CommitMigration(r, f), q = r
      PROVE  PlanHolds(q)'
  <2>1. runner'[q] = [runner[q] EXCEPT !.left = @ \ {f}]
    BY <1>3, <1>t DEF CommitMigration
  <2>2. f[1] \in VersionsOf(ledger')
    BY <1>3 DEF CommitMigration, VersionsOf
  <2>3. /\ runner'[q].left = runner[q].left \ {f} /\ runner'[q].phase = runner[q].phase
        /\ runner'[q].discovered = runner[q].discovered
        /\ runner'[q].recorded = runner[q].recorded
    BY <2>1, <1>t
  <2> QED
    BY <2>2, <2>3, <1>g, <1>p DEF PlanHolds, PendingProtected, Pending, VersionsOf
<1>4. ASSUME NEW r \in Runners, q # r,
             \/ ScanDirectory(r) \/ GuardAndPlan(r) \/ BeginMigration(r) \/ FileIsGone(r)
             \/ EndRun(r) \/ RunnerDies(r)
             \/ \E f \in runner[r].left : CommitMigration(r, f) \/ RollBack(r, f)
      PROVE  runner'[q] = runner[q]
  BY <1>4, <1>t DEF ScanDirectory, GuardAndPlan, BeginMigration, FileIsGone, EndRun, RunnerDies,
                    CommitMigration, RollBack
<1>5. ASSUME NEW r \in Runners, q = r,
             \/ ScanDirectory(r) \/ FileIsGone(r) \/ EndRun(r) \/ RunnerDies(r)
             \/ \E f \in runner[r].left : RollBack(r, f)
      PROVE  runner'[q].phase # "applying"
  <2>1. CASE ScanDirectory(r)
    BY <1>5, <1>t, <2>1 DEF ScanDirectory, NotStarted
  <2>2. CASE FileIsGone(r) \/ \E f \in runner[r].left : RollBack(r, f)
    BY <1>5, <1>t, <2>2 DEF FileIsGone, RollBack
  <2>3. CASE EndRun(r) \/ RunnerDies(r)
    BY <1>5, <1>t, <2>3 DEF EndRun, RunnerDies, NotStarted
  <2> QED
    BY <1>5, <2>1, <2>2, <2>3
<1>6. ASSUME NEW r \in Runners, BeginMigration(r) PROVE runner'[q] = runner[q]
  BY <1>6 DEF BeginMigration
<1>7. ASSUME NEW f \in MigrationFiles, NEW gone, FileArrives(f, gone) PROVE runner'[q] = runner[q]
  BY <1>7 DEF FileArrives
<1>8. CASE UNCHANGED migrationVars
  BY <1>0, <1>8 DEF migrationVars
<1>9. ASSUME NEW r \in Runners, NEW f \in runner[r].left, CommitMigration(r, f) PROVE PlanHolds(q)'
  BY <1>9, <1>0, <1>3, <1>4
<1>10. ASSUME NEW r \in Runners, GuardAndPlan(r) PROVE PlanHolds(q)'
  BY <1>10, <1>0, <1>1, <1>2, <1>4
<1>11. ASSUME NEW r \in Runners,
              \/ ScanDirectory(r) \/ FileIsGone(r) \/ EndRun(r) \/ RunnerDies(r)
              \/ \E f \in runner[r].left : RollBack(r, f)
       PROVE  PlanHolds(q)'
  <2>1. CASE q = r
    BY <1>11, <2>1, <1>1, <1>5
  <2>2. CASE q # r
    BY <1>11, <2>2, <1>0, <1>4
  <2> QED
    BY <2>1, <2>2
<1>12. ASSUME NEW r \in Runners, BeginMigration(r) PROVE PlanHolds(q)'
  BY <1>12, <1>0, <1>6
<1>13. ASSUME NEW f \in MigrationFiles, NEW gone, FileArrives(f, gone) PROVE PlanHolds(q)'
  BY <1>13, <1>0, <1>7
<1> QED
  BY <1>0, <1>8, <1>9, <1>10, <1>11, <1>12, <1>13 DEF MigrationsNext

LEMMA StepKeepsWriter == MigrationsInv /\ [MigrationsNext]_migrationVars => WriterApplies'
<1> SUFFICES ASSUME MigrationsInv, [MigrationsNext]_migrationVars, NEW q \in Runners, writer' = q
             PROVE  runner'[q].phase = "applying"
  BY DEF WriterApplies
<1>t. runner \in [Runners -> [phase : Phases, discovered : SUBSET MigrationFiles,
                              recorded : SUBSET Versions, left : SUBSET MigrationFiles]]
  BY DEF MigrationsInv, MigrationsTyped, RunnersTyped
<1>w. writer = q => runner[q].phase = "applying"
  BY DEF MigrationsInv, WriterApplies
<1>n. q # "nobody"
  BY MigrationsAssumption
<1>1. CASE UNCHANGED migrationVars
  BY <1>1, <1>w DEF migrationVars
<1>2. ASSUME NEW r \in Runners, ScanDirectory(r) \/ GuardAndPlan(r) PROVE runner'[q].phase = "applying"
  BY <1>2, <1>t, <1>w DEF ScanDirectory, GuardAndPlan
<1>3. ASSUME NEW r \in Runners, BeginMigration(r) PROVE runner'[q].phase = "applying"
  BY <1>3 DEF BeginMigration
<1>4. ASSUME NEW r \in Runners, FileIsGone(r) \/ EndRun(r) \/ RunnerDies(r)
      PROVE  runner'[q].phase = "applying"
  BY <1>4, <1>t, <1>w, <1>n DEF FileIsGone, EndRun, RunnerDies
<1>5. ASSUME NEW r \in Runners, NEW f, CommitMigration(r, f) \/ RollBack(r, f)
      PROVE  runner'[q].phase = "applying"
  BY <1>5, <1>n DEF CommitMigration, RollBack
<1>6. ASSUME NEW f, NEW gone, FileArrives(f, gone) PROVE runner'[q].phase = "applying"
  BY <1>6, <1>w DEF FileArrives
<1> QED
  BY <1>1, <1>2, <1>3, <1>4, <1>5, <1>6 DEF MigrationsNext

THEOREM MigrationsInvariant == MigrationsSpec => []MigrationsInv
<1>1. MigrationsInv /\ [MigrationsNext]_migrationVars => MigrationsInv'
  BY MigrationsTypedStep, StepKeepsLedger, StepKeepsPlans, StepKeepsWriter DEF MigrationsInv
<1> QED
  BY <1>1, MigrationsInvInit, PTL DEF MigrationsSpec

(* Whatever processes race, die or meet a renamed file, each recorded      *)
(* version took effect once, and none of them is protected.                *)
THEOREM LedgerAlways == MigrationsSpec => []LedgerIsTheSchema
<1>1. MigrationsInv => LedgerIsTheSchema
  BY DEF MigrationsInv, LedgerHolds
<1> QED
  BY <1>1, MigrationsInvariant, PTL

LEMMA OnlyCommitsRecord ==
  ASSUME MigrationsInv, MigrationsNext, NEW q \in Runners, writer = q,
         NEW f \in ledger' \ ledger
  PROVE  f \in runner[q].left /\ CommitMigration(q, f)
<1>1. \E r \in Runners : \E g \in runner[r].left : CommitMigration(r, g)
  BY DEF MigrationsNext, ScanDirectory, GuardAndPlan, BeginMigration, FileIsGone, RollBack,
         EndRun, RunnerDies, FileArrives
<1> QED
  BY <1>1 DEF CommitMigration

(* No ordinary run records a version around the guard, or before a lower   *)
(* version of the directory it read.                                       *)
THEOREM GuardAlways == MigrationsSpec => NothingAroundTheGuard
<1>1. ASSUME MigrationsInv, [MigrationsNext]_migrationVars,
             NEW f \in ledger' \ ledger, NEW r \in Runners, writer = r
      PROVE  /\ f \in runner[r].discovered
             /\ PendingProtected(runner[r]) = {}
             /\ \A g \in runner[r].discovered : g[1] < f[1] => g[1] \in VersionsOf(ledger)
  <2>1. f \in runner[r].left /\ CommitMigration(r, f)
    BY <1>1, OnlyCommitsRecord DEF migrationVars
  <2>2. runner[r].phase = "applying" /\ PlanHolds(r)
    BY <1>1 DEF MigrationsInv, WriterApplies
  <2>3. runner[r].left \subseteq MigrationFiles
    BY <1>1 DEF MigrationsInv, MigrationsTyped, RunnersTyped
  <2>4. \A g \in runner[r].left : ~(g[1] < f[1])
    BY <2>1, <2>3, FileHasVersion DEF CommitMigration, Foremost
  <2> QED
    BY <2>1, <2>2, <2>4 DEF PlanHolds
<1>2. MigrationsInv /\ [MigrationsNext]_migrationVars =>
        [\A f \in ledger' \ ledger, r \in Runners :
           writer = r =>
             /\ f \in runner[r].discovered
             /\ PendingProtected(runner[r]) = {}
             /\ \A g \in runner[r].discovered : g[1] < f[1] => g[1] \in VersionsOf(ledger)]_migrationVars
  BY <1>1
<1> QED
  BY <1>2, MigrationsInvariant, PTL DEF MigrationsSpec, NothingAroundTheGuard

(* Both, as the run checks them: the ledger is the schema, and no ordinary *)
(* run applies what the guard protects.                                    *)
THEOREM MigrationsAreSafe == MigrationsSpec => MigrationsSafety
BY LedgerAlways, GuardAlways, PTL DEF MigrationsSafety

-----------------------------------------------------------------------------
(* Backups                                                                 *)

Unwritten == {"fingerprinted", "sampled", "counted"}
Sampled == {"sampled", "counted", "copying", "copied", "closed"}

(* The destination is nobody else's until the run ends; what is copied to  *)
(* it is a content the source had after the first sample and before the    *)
(* last.                                                                   *)
RunHolds ==
  /\ backupRun[1] \in {"none"} \cup Unwritten \cup Sampled
  /\ backupRun[1] = "none" => backupRun = <<"none">>
  /\ backupRun[1] # "none" => Run.destination \in BackupPaths /\ Run.report \in BackupPaths
  /\ backupRun[1] \in Unwritten => backups[Run.destination] = <<"absent">>
  /\ backupRun[1] \in Sampled => backupRun[3].version \in Nat /\ backupRun[3].version <= source
  /\ backupRun[1] = "copied" =>
       \E c \in Nat : /\ backups[Run.destination] = <<"content", c>>
                      /\ backupRun[3].version <= c /\ c <= source
  /\ backupRun[1] = "closed" =>
       \E c \in Nat : /\ backups[Run.destination] = <<"content", c>>
                      /\ backupRun[3].version <= c /\ c <= backupRun[4].version

ReportHolds(p) ==
  reports[p][1] = "verified" =>
    /\ reports[p][2] \in BackupPaths
    /\ backups[reports[p][2]] = <<"content", reports[p][3]>>
    /\ backupRun[1] # "none" => reports[p][2] # Run.destination

BackupsInv ==
  /\ source \in Nat
  /\ backups = [p \in BackupPaths |-> backups[p]] /\ reports = [p \in BackupPaths |-> reports[p]]
  /\ RunHolds
  /\ \A p \in BackupPaths : ReportHolds(p)

LEMMA BackupsInvInit == BackupsInit => BackupsInv
BY DEF BackupsInit, BackupsInv, RunHolds, ReportHolds, Unwritten, Sampled

(* Commits and checkpoints only move the source forward.                   *)
LEMMA SourceMoves ==
  ASSUME BackupsInv, Writes \/ CheckpointWal
  PROVE  BackupsInv'
<1>1. source' \in Nat /\ source <= source' /\ UNCHANGED <<backups, reports, backupRun>>
  BY DEF BackupsInv, Writes, CheckpointWal
<1>2. Run' = Run
  BY <1>1 DEF Run
<1>3. /\ \A v \in Nat : v <= source => v <= source'
      /\ source \in Nat
  BY <1>1 DEF BackupsInv
<1>4. backupRun[1] \in Sampled =>
        backupRun'[3].version \in Nat /\ backupRun'[3].version <= source'
  BY <1>1, <1>3 DEF BackupsInv, RunHolds
<1>5. backupRun[1] = "copied" =>
        \E c \in Nat : /\ backups'[Run.destination] = <<"content", c>>
                       /\ backupRun'[3].version <= c /\ c <= source'
  BY <1>1, <1>3 DEF BackupsInv, RunHolds
<1>6. RunHolds'
  BY <1>1, <1>2, <1>4, <1>5 DEF BackupsInv, RunHolds
<1> QED
  BY <1>1, <1>2, <1>6 DEF BackupsInv, ReportHolds

(* The steps of a run that write neither a backup nor a report.            *)
LEMMA RunReads ==
  ASSUME BackupsInv, SampleBefore \/ CountSource \/ SampleAfter
  PROVE  BackupsInv'
<1>1. UNCHANGED <<source, backups, reports>> /\ Run' = Run /\ backupRun[1] # "none"
      /\ backupRun'[1] # "none"
  BY DEF SampleBefore, CountSource, SampleAfter, BackupStep, Run
<1>2. RunHolds'
  <2>1. CASE SampleBefore
    BY <1>1, <2>1 DEF SampleBefore, BackupStep, BackupsInv, RunHolds, Run, Unwritten, Sampled
  <2>2. CASE CountSource
    BY <1>1, <2>2 DEF CountSource, BackupStep, BackupsInv, RunHolds, Run, Unwritten, Sampled
  <2>3. CASE SampleAfter
    BY <1>1, <2>3 DEF SampleAfter, BackupStep, BackupsInv, RunHolds, Run, Unwritten, Sampled
  <2> QED
    BY <2>1, <2>2, <2>3
<1>3. \A p \in BackupPaths : ReportHolds(p)'
  BY <1>1 DEF BackupsInv, ReportHolds
<1> QED
  BY <1>1, <1>2, <1>3 DEF BackupsInv

LEMMA RunStarts ==
  ASSUME BackupsInv, NEW d \in BackupPaths, NEW r \in BackupPaths, StartBackup(d, r)
  PROVE  BackupsInv'
<1>1. UNCHANGED <<source, backups, reports>> /\ backups[d] = <<"absent">>
  BY DEF StartBackup, PathsAreFree
<1>2. backupRun'[1] = "fingerprinted" /\ Run'.destination = d /\ Run'.report = r
  BY DEF StartBackup, Run
<1>3. RunHolds'
  BY <1>1, <1>2 DEF RunHolds, Unwritten, Sampled
<1>4. \A p \in BackupPaths : ReportHolds(p)'
  BY <1>1, <1>2 DEF BackupsInv, ReportHolds
<1> QED
  BY <1>1, <1>3, <1>4 DEF BackupsInv

(* The destination is written: no verified report names it.                *)
LEMMA RunCopies ==
  ASSUME BackupsInv, CreateDestination \/ CopyPages
  PROVE  BackupsInv'
<1>1. UNCHANGED <<source, reports>> /\ Run' = Run /\ backupRun[1] # "none" /\ backupRun'[1] # "none"
  BY DEF CreateDestination, CopyPages, BackupStep, Run
<1>2. Run.destination \in BackupPaths
  BY <1>1 DEF BackupsInv, RunHolds
<1>3. \A p \in BackupPaths \ {Run.destination} : backups'[p] = backups[p]
  BY <1>2 DEF CreateDestination, CopyPages, BackupsInv
<1>4. backups' = [p \in BackupPaths |-> backups'[p]]
  BY DEF CreateDestination, CopyPages, BackupsInv
<1>5. RunHolds'
  <2>1. CASE CreateDestination
    BY <1>1, <2>1 DEF CreateDestination, BackupStep, BackupsInv, RunHolds, Run, Unwritten, Sampled
  <2>2. CASE CopyPages
    <3>1. backups'[Run.destination] = <<"content", source>>
      BY <1>2, <2>2 DEF CopyPages, BackupsInv
    <3>2. backupRun'[1] = "copied" /\ backupRun'[3] = backupRun[3] /\ backupRun[1] = "copying"
      BY <2>2 DEF CopyPages, BackupStep
    <3> QED
      BY <1>1, <3>1, <3>2 DEF BackupsInv, RunHolds, Unwritten, Sampled
  <2> QED
    BY <2>1, <2>2
<1>6. \A p \in BackupPaths : ReportHolds(p)'
  BY <1>1, <1>3 DEF BackupsInv, ReportHolds
<1> QED
  BY <1>1, <1>4, <1>5, <1>6 DEF BackupsInv

(* The run ends: the only report that says verified is Verify's.           *)
LEMMA RunEnds ==
  ASSUME BackupsInv, Verify \/ FailBackup \/ BackupDies
  PROVE  BackupsInv'
<1>1. UNCHANGED <<source, backups>> /\ backupRun' = <<"none">> /\ backupRun[1] # "none"
  BY DEF Verify, FailBackup, BackupDies, BackupStep, BackupsInv, RunHolds
<1>2. RunHolds'
  BY <1>1 DEF RunHolds, Unwritten, Sampled
<1>3. Run.destination \in BackupPaths /\ Run.report \in BackupPaths
  BY <1>1 DEF BackupsInv, RunHolds
<1>4. reports' = [p \in BackupPaths |-> reports'[p]]
  BY DEF Verify, FailBackup, BackupDies, WriteReport, BackupsInv
<1>5. ASSUME NEW p \in BackupPaths, reports'[p] = reports[p] PROVE ReportHolds(p)'
  BY <1>1, <1>5 DEF BackupsInv, ReportHolds
<1>6. CASE Verify
  <2>1. backups[Run.destination] = <<"content", backupRun[3].version>>
    BY <1>6 DEF Verify, BackupStep, Unchanged, BackupsInv, RunHolds, Sampled
  <2>2. ASSUME NEW p \in BackupPaths, reports'[p] # reports[p]
        PROVE  reports'[p] = <<"verified", Run.destination, backupRun[3].version>>
    BY <1>3, <1>6, <2>2 DEF Verify, WriteReport, BackupsInv
  <2>3. ASSUME NEW p \in BackupPaths, reports'[p] # reports[p] PROVE ReportHolds(p)'
    BY <1>1, <1>3, <2>1, <2>2, <2>3 DEF ReportHolds
  <2> QED
    BY <1>1, <1>2, <1>4, <1>5, <2>3 DEF BackupsInv
<1>7. CASE FailBackup
  <2>1. ASSUME NEW p \in BackupPaths, reports'[p] # reports[p] PROVE reports'[p][1] = "failed"
    BY <1>3, <1>7, <2>1 DEF FailBackup, WriteReport, BackupsInv
  <2>2. ASSUME NEW p \in BackupPaths, reports'[p] # reports[p] PROVE ReportHolds(p)'
    BY <2>1, <2>2 DEF ReportHolds
  <2> QED
    BY <1>1, <1>2, <1>4, <1>5, <2>2 DEF BackupsInv
<1>8. CASE BackupDies
  BY <1>1, <1>2, <1>4, <1>5, <1>8 DEF BackupDies, BackupsInv
<1> QED
  BY <1>6, <1>7, <1>8

(* Whatever was committed and checkpointed while it ran, whichever runs    *)
(* failed or died before it and followed: a backup reported as verified    *)
(* holds the content its source had when the run began to read.            *)
THEOREM VerifiedAlways == BackupsSpec => []VerifiedIsACopy
<1>1. BackupsInv /\ [BackupsNext]_backupVars => BackupsInv'
  <2> SUFFICES ASSUME BackupsInv, [BackupsNext]_backupVars PROVE BackupsInv'
    OBVIOUS
  <2>1. CASE UNCHANGED backupVars
    BY <2>1 DEF backupVars, BackupsInv, RunHolds, ReportHolds, Run
  <2> QED
    BY <2>1, SourceMoves, RunReads, RunStarts, RunCopies, RunEnds DEF BackupsNext
<1>2. BackupsInv => VerifiedIsACopy
  BY DEF BackupsInv, ReportHolds, VerifiedIsACopy
<1> QED
  BY <1>1, <1>2, BackupsInvInit, PTL DEF BackupsSpec

-----------------------------------------------------------------------------
(* Plan artifacts                                                          *)

Artifacts == [from : Nat, whole : BOOLEAN, pair : BOOLEAN, there : BOOLEAN]
WriterRecords == {"none", "anchored", "unverified", "released", "promoted", "cleared"}
WriterCalls ==
  [phase : {"staging", "refusing", "interrupted"}, wants : SUBSET Labels,
   linked : SUBSET Labels, blind : BOOLEAN, records : [Labels -> WriterRecords]]
WriterTyped ==
  /\ artifacts \in [ArtifactNames -> Artifacts]
  /\ plans \in Nat
  /\ writing \in {NotWriting} \cup WriterCalls
  /\ writing # NotWriting => plans > 0

(* A file is of a call so far, and a call's file is really there.          *)
FilesHold ==
  \A n \in ArtifactNames :
    /\ artifacts[n].from <= plans
    /\ artifacts[n].from > 0 => artifacts[n].there

(* An artifact of the running call, as it was meant to be written.         *)
AsMeant(l, file) == file.whole /\ file.pair = (l = "json" /\ "csv" \in writing.wants)

(* The record of a label tells which of its two names the call may own.    *)
LabelHolds(l) ==
  LET record == writing.records[l] IN
  /\ record # "none" => l \in writing.wants
  /\ l \in writing.linked => l \in writing.wants
  /\ Owns(Final(l)) => l \in writing.linked /\ AsMeant(l, artifacts[Final(l)])
  /\ writing.phase = "staging" /\ Owns(Staging(l)) => AsMeant(l, artifacts[Staging(l)])
  /\ ~writing.blind =>
       /\ l \in writing.linked <=> record \in {"promoted", "cleared"}
       /\ record \in {"none", "cleared"} => ~Owns(Staging(l))

CallHolds ==
  writing # NotWriting =>
    /\ \A l \in Labels : LabelHolds(l)
    /\ writing.blind => writing.phase = "interrupted"
    /\ writing.phase = "refusing" => \E l \in writing.wants : writing.records[l] # "cleared"

WriterInv == WriterTyped /\ FilesHold /\ CallHolds

LEMMA ArtifactParts ==
  /\ \A l \in Labels : Final(l) \in ArtifactNames /\ Staging(l) \in ArtifactNames
  /\ \A l, k \in Labels : /\ Final(l) # Staging(k)
                          /\ Final(l) = Final(k) => l = k
                          /\ Staging(l) = Staging(k) => l = k
  BY DEF Labels, ArtifactNames, Final, Staging

LEMMA WriterInvInit == WriterInit => WriterInv
  BY ArtifactParts DEF WriterInit, WriterInv, WriterTyped, FilesHold, CallHolds, NoArtifact, Artifacts

(* A step of the call on one label keeps what holds of the other.          *)
LEMMA OtherLabel ==
  ASSUME WriterInv, NEW l \in Labels, NEW k \in Labels \ {l},
         writing # NotWriting, writing' \in WriterCalls,
         UNCHANGED plans, writing'.wants = writing.wants,
         writing'.records[k] = writing.records[k], k \in writing'.linked <=> k \in writing.linked,
         writing'.phase = "staging" => writing.phase = "staging",
         ~writing'.blind => ~writing.blind,
         \A n \in ArtifactNames \ {Final(l), Staging(l)} : artifacts'[n] = artifacts[n]
  PROVE  LabelHolds(k)'
<1>1. /\ Final(k) \in ArtifactNames \ {Final(l), Staging(l)}
      /\ Staging(k) \in ArtifactNames \ {Final(l), Staging(l)}
  BY ArtifactParts
<1>2. LabelHolds(k)
  BY DEF WriterInv, CallHolds
<1>3. /\ artifacts'[Final(k)] = artifacts[Final(k)]
      /\ artifacts'[Staging(k)] = artifacts[Staging(k)]
  BY <1>1
<1> QED
  BY <1>2, <1>3 DEF LabelHolds, AsMeant, Owns

(* So it is enough to look at the label, the files and the call.           *)
LEMMA OneLabel ==
  ASSUME WriterInv, NEW l \in Labels, writing # NotWriting, writing' \in WriterCalls,
         UNCHANGED plans, writing'.wants = writing.wants,
         \A k \in Labels \ {l} : /\ writing'.records[k] = writing.records[k]
                                 /\ k \in writing'.linked <=> k \in writing.linked,
         writing'.phase = "staging" => writing.phase = "staging",
         ~writing'.blind => ~writing.blind,
         artifacts' \in [ArtifactNames -> Artifacts], FilesHold',
         \A n \in ArtifactNames \ {Final(l), Staging(l)} : artifacts'[n] = artifacts[n],
         LabelHolds(l)', writing'.blind => writing'.phase = "interrupted",
         writing'.phase = "refusing" => \E k \in writing.wants : writing'.records[k] # "cleared"
  PROVE  WriterInv'
<1>1. \A k \in Labels : LabelHolds(k)'
  <2> SUFFICES ASSUME NEW k \in Labels, k # l PROVE LabelHolds(k)'
    OBVIOUS
  <2> QED
    BY OtherLabel
<1>2. WriterTyped'
  BY DEF WriterInv, WriterTyped, NotWriting, WriterCalls
<1> QED
  BY <1>1, <1>2 DEF WriterInv, CallHolds

LEMMA Marked ==
  ASSUME WriterTyped, writing # NotWriting, NEW l \in Labels, NEW record \in WriterRecords,
         NEW phase \in {"staging", "refusing", "interrupted"}, Marks(l, record, phase)
  PROVE  /\ writing' \in WriterCalls /\ writing'.phase = phase
         /\ writing'.wants = writing.wants /\ writing'.linked = writing.linked
         /\ writing'.blind = writing.blind /\ writing'.records[l] = record
         /\ \A k \in Labels \ {l} : writing'.records[k] = writing.records[k]
<1>1. writing \in WriterCalls
  BY DEF WriterTyped
<1>2. writing' = [writing EXCEPT !.records = [writing.records EXCEPT ![l] = record],
                                 !.phase = phase]
  BY <1>1 DEF Marks, WriterCalls
<1> QED
  BY <1>1, <1>2 DEF WriterCalls

LEMMA FilePut ==
  ASSUME WriterTyped, FilesHold, NEW n \in ArtifactNames, NEW file \in Artifacts,
         file.from <= plans, file.from > 0 => file.there,
         artifacts' = [artifacts EXCEPT ![n] = file], UNCHANGED plans
  PROVE  /\ artifacts' \in [ArtifactNames -> Artifacts] /\ FilesHold'
         /\ artifacts'[n] = file
         /\ \A m \in ArtifactNames \ {n} : artifacts'[m] = artifacts[m]
<1>1. /\ artifacts' \in [ArtifactNames -> Artifacts] /\ artifacts'[n] = file
      /\ \A m \in ArtifactNames \ {n} : artifacts'[m] = artifacts[m]
  BY DEF WriterTyped
<1> QED
  BY <1>1 DEF FilesHold

(* Staging a file: it is the call's, and meant unless the write failed.    *)
LEMMA WrittenPut ==
  ASSUME WriterInv, writing # NotWriting, NEW l \in Labels, NEW whole \in BOOLEAN,
         Written(l, whole), UNCHANGED plans
  PROVE  /\ artifacts' \in [ArtifactNames -> Artifacts] /\ FilesHold'
         /\ artifacts'[Final(l)] = artifacts[Final(l)]
         /\ \A m \in ArtifactNames \ {Final(l), Staging(l)} : artifacts'[m] = artifacts[m]
         /\ artifacts'[Staging(l)].whole = whole
         /\ artifacts'[Staging(l)].pair = (l = "json" /\ "csv" \in writing.wants)
<1> DEFINE file == [from |-> plans, whole |-> whole, there |-> TRUE,
                    pair |-> l = "json" /\ "csv" \in writing.wants]
<1>1. file \in Artifacts /\ file.from <= plans /\ file.there
  BY DEF WriterInv, WriterTyped, Artifacts
<1>2. /\ Staging(l) \in ArtifactNames /\ Final(l) \in ArtifactNames /\ Final(l) # Staging(l)
      /\ artifacts' = [artifacts EXCEPT ![Staging(l)] = file]
  BY ArtifactParts DEF Written
<1> HIDE DEF file
<1>3. /\ artifacts' \in [ArtifactNames -> Artifacts] /\ FilesHold'
      /\ artifacts'[Staging(l)] = file
      /\ \A m \in ArtifactNames \ {Staging(l)} : artifacts'[m] = artifacts[m]
  BY <1>1, <1>2, FilePut DEF WriterInv
<1> QED
  BY <1>2, <1>3 DEF file

LEMMA CallTyped ==
  ASSUME WriterInv, writing # NotWriting
  PROVE  /\ writing \in WriterCalls /\ plans \in Nat /\ plans > 0
         /\ artifacts \in [ArtifactNames -> Artifacts]
         /\ \A l \in Labels : LabelHolds(l)
         /\ \A n \in ArtifactNames : Owns(n) => Is(n)
<1>1. \A n \in ArtifactNames : Owns(n) => Is(n)
  BY DEF WriterInv, WriterTyped, FilesHold, Owns, Is
<1> QED
  BY <1>1 DEF WriterInv, WriterTyped, CallHolds

LEMMA StagingCall ==
  ASSUME WriterInv, writing.phase # "idle"
  PROVE  writing # NotWriting /\ (writing.phase = "staging" => ~writing.blind)
<1>1. writing # NotWriting
  BY DEF NotWriting
<1>2. writing \in WriterCalls
  BY <1>1 DEF WriterInv, WriterTyped
<1> QED
  BY <1>1, <1>2 DEF WriterInv, CallHolds, WriterCalls

LEMMA StagingSteps ==
  ASSUME WriterInv, NEW l \in Labels,
         CreateStaging(l) \/ CreateFails(l) \/ ReleaseAnchor(l)
  PROVE  WriterInv'
<1>0. /\ writing # NotWriting /\ writing.phase = "staging" /\ l \in writing.wants
      /\ UNCHANGED plans /\ ~writing.blind
  <2>1. writing.phase = "staging" /\ l \in writing.wants /\ UNCHANGED plans
    BY DEF CreateStaging, CreateFails, ReleaseAnchor, Turn
  <2> QED
    BY <2>1, StagingCall
<1>t. /\ writing \in WriterCalls /\ plans \in Nat /\ plans > 0
      /\ artifacts \in [ArtifactNames -> Artifacts] /\ LabelHolds(l) /\ FilesHold
      /\ Staging(l) \in ArtifactNames /\ Final(l) \in ArtifactNames /\ Final(l) # Staging(l)
  BY <1>0, CallTyped, ArtifactParts DEF WriterInv
<1>1. ASSUME NEW record \in {"anchored", "unverified"}, NEW whole \in BOOLEAN,
             NEW phase \in {"staging", "refusing"}, phase = "staging" => whole,
             writing.records[l] = "none", Written(l, whole), Marks(l, record, phase)
      PROVE  WriterInv'
  <2>1. /\ writing' \in WriterCalls /\ writing'.phase = phase
        /\ writing'.wants = writing.wants /\ writing'.linked = writing.linked
        /\ writing'.blind = writing.blind /\ writing'.records[l] = record
        /\ \A k \in Labels \ {l} : writing'.records[k] = writing.records[k]
    BY <1>0, <1>1, Marked DEF WriterInv, WriterRecords
  <2>2. LabelHolds(l)'
    BY <1>0, <1>1, <1>t, <2>1, WrittenPut DEF LabelHolds, AsMeant, Owns
  <2> QED
    BY <1>0, <1>1, <2>1, <2>2, WrittenPut, OneLabel
<1>2. ASSUME NEW record \in {"none", "anchored", "released"}, NEW phase \in {"staging", "refusing"},
             UNCHANGED artifacts, Marks(l, record, phase),
             record = "none" => writing.records[l] = "none",
             writing.records[l] \in {"none", "anchored"}
      PROVE  WriterInv'
  <2>1. /\ writing' \in WriterCalls /\ writing'.phase = phase
        /\ writing'.wants = writing.wants /\ writing'.linked = writing.linked
        /\ writing'.blind = writing.blind /\ writing'.records[l] = record
        /\ \A k \in Labels \ {l} : writing'.records[k] = writing.records[k]
    BY <1>0, <1>2, Marked DEF WriterInv, WriterRecords
  <2>2. LabelHolds(l)'
    BY <1>0, <1>2, <1>t, <2>1 DEF LabelHolds, AsMeant, Owns
  <2>3. FilesHold'
    BY <1>0, <1>2, <1>t DEF FilesHold
  <2> QED
    BY <1>0, <1>2, <1>t, <2>1, <2>2, <2>3, OneLabel
<1> QED
  BY <1>0, <1>1, <1>2 DEF CreateStaging, CreateFails, ReleaseAnchor

LEMMA LinkingSteps ==
  ASSUME WriterInv, NEW l \in Labels,
         LinkFinal(l) \/ LinkFails(l) \/ UnlinkStaging(l)
  PROVE  WriterInv'
<1>0. /\ writing # NotWriting /\ writing.phase = "staging" /\ UNCHANGED plans /\ ~writing.blind
      /\ writing.records[l] \in {"released", "promoted"}
  <2>1. /\ writing.phase = "staging" /\ UNCHANGED plans
        /\ writing.records[l] \in {"released", "promoted"}
    BY DEF LinkFinal, LinkFails, UnlinkStaging
  <2> QED
    BY <2>1, StagingCall
<1>t. /\ writing \in WriterCalls /\ plans \in Nat /\ plans > 0
      /\ artifacts \in [ArtifactNames -> Artifacts] /\ LabelHolds(l) /\ FilesHold
      /\ Staging(l) \in ArtifactNames /\ Final(l) \in ArtifactNames /\ Final(l) # Staging(l)
  BY <1>0, CallTyped, ArtifactParts DEF WriterInv
<1>w. l \in writing.wants
  BY <1>0, <1>t DEF LabelHolds
<1>1. ASSUME NEW record \in {"released", "promoted"}, writing.records[l] = record,
             Marks(l, record, "refusing"), UNCHANGED artifacts
      PROVE  WriterInv'
  <2>1. /\ writing' \in WriterCalls /\ writing'.phase = "refusing"
        /\ writing'.wants = writing.wants /\ writing'.linked = writing.linked
        /\ writing'.blind = writing.blind /\ writing'.records[l] = record
        /\ \A k \in Labels \ {l} : writing'.records[k] = writing.records[k]
    BY <1>0, <1>1, Marked DEF WriterInv, WriterRecords
  <2>2. LabelHolds(l)'
    BY <1>0, <1>1, <1>t, <2>1 DEF LabelHolds, AsMeant, Owns
  <2>3. FilesHold'
    BY <1>0, <1>1, <1>t DEF FilesHold
  <2> QED
    BY <1>0, <1>1, <1>t, <1>w, <2>1, <2>2, <2>3, OneLabel
<1>2. CASE /\ writing.records[l] = "promoted" /\ Marks(l, "cleared", "staging")
           /\ artifacts' = [artifacts EXCEPT ![Staging(l)] = NoArtifact]
  <2>1. /\ writing' \in WriterCalls /\ writing'.phase = "staging"
        /\ writing'.wants = writing.wants /\ writing'.linked = writing.linked
        /\ writing'.blind = writing.blind /\ writing'.records[l] = "cleared"
        /\ \A k \in Labels \ {l} : writing'.records[k] = writing.records[k]
    BY <1>0, <1>2, Marked DEF WriterInv, WriterRecords
  <2>2. NoArtifact \in Artifacts /\ NoArtifact.from = 0
    BY DEF NoArtifact, Artifacts
  <2>3. /\ artifacts' \in [ArtifactNames -> Artifacts] /\ FilesHold'
        /\ artifacts'[Staging(l)] = NoArtifact
        /\ \A m \in ArtifactNames \ {Staging(l)} : artifacts'[m] = artifacts[m]
    <3>1. WriterTyped /\ FilesHold /\ plans \in Nat /\ NoArtifact.from <= plans
      BY <1>t, <2>2 DEF WriterInv
    <3>2. NoArtifact.from > 0 => NoArtifact.there
      BY <2>2
    <3> QED
      BY <1>0, <1>2, <1>t, <2>2, <3>1, <3>2, FilePut
  <2>4. LabelHolds(l)'
    BY <1>0, <1>2, <1>t, <2>1, <2>2, <2>3 DEF LabelHolds, AsMeant, Owns
  <2> QED
    BY <1>0, <1>t, <2>1, <2>3, <2>4, OneLabel
<1>3. CASE LinkFinal(l)
  <2> DEFINE file == artifacts[Staging(l)]
  <2>0. file \in Artifacts /\ file.from <= plans /\ (file.from > 0 => file.there)
    BY <1>t DEF FilesHold
  <2>1. PICK record \in {"promoted", "cleared"} :
           /\ writing' = [writing EXCEPT !.records[l] = record, !.linked = @ \union {l}]
           /\ IF record = "promoted" THEN artifacts' = [artifacts EXCEPT ![Final(l)] = file]
              ELSE artifacts' = [artifacts EXCEPT ![Final(l)] = file, ![Staging(l)] = NoArtifact]
    BY <1>3 DEF LinkFinal
  <2>2. writing' = [writing EXCEPT !.records = [writing.records EXCEPT ![l] = record],
                                   !.linked = writing.linked \union {l}]
    BY <1>t, <2>1 DEF WriterCalls
  <2>3. /\ writing' \in WriterCalls /\ writing'.phase = "staging"
        /\ writing'.wants = writing.wants /\ writing'.linked = writing.linked \cup {l}
        /\ writing'.blind = writing.blind /\ writing'.records[l] = record
        /\ \A k \in Labels \ {l} : writing'.records[k] = writing.records[k]
    BY <1>0, <1>t, <2>2 DEF WriterCalls, WriterRecords
  <2>4. NoArtifact \in Artifacts /\ NoArtifact.from = 0
    BY DEF NoArtifact, Artifacts
  <2> HIDE DEF file
  <2>5. /\ artifacts' \in [ArtifactNames -> Artifacts]
        /\ artifacts'[Final(l)] = file
        /\ artifacts'[Staging(l)] = IF record = "promoted" THEN artifacts[Staging(l)] ELSE NoArtifact
        /\ \A m \in ArtifactNames \ {Final(l), Staging(l)} : artifacts'[m] = artifacts[m]
    BY <1>t, <2>0, <2>1, <2>4
  <2>6. FilesHold'
    BY <1>0, <1>t, <2>0, <2>4, <2>5 DEF FilesHold
  <2>7. LabelHolds(l)'
    BY <1>0, <1>t, <1>w, <2>3, <2>4, <2>5 DEF LabelHolds, AsMeant, Owns, file
  <2> QED
    BY <1>0, <1>t, <2>3, <2>5, <2>6, <2>7, OneLabel
<1> QED
  BY <1>0, <1>1, <1>2, <1>3 DEF LinkFails, UnlinkStaging

LEMMA InterruptSteps ==
  ASSUME WriterInv, NEW l \in Labels, InterruptWrite \/ InterruptBlindly(l)
  PROVE  WriterInv'
<1>0. /\ writing # NotWriting /\ writing.phase = "staging" /\ UNCHANGED plans /\ ~writing.blind
  <2>1. writing.phase = "staging" /\ UNCHANGED plans
    BY DEF InterruptWrite, InterruptBlindly
  <2> QED
    BY <2>1, StagingCall
<1>t. /\ writing \in WriterCalls /\ plans \in Nat /\ plans > 0
      /\ artifacts \in [ArtifactNames -> Artifacts] /\ LabelHolds(l) /\ FilesHold
      /\ Staging(l) \in ArtifactNames /\ Final(l) \in ArtifactNames /\ Final(l) # Staging(l)
  BY <1>0, CallTyped, ArtifactParts DEF WriterInv
<1>1. CASE InterruptWrite
  <2>1. /\ writing' = [writing EXCEPT !.phase = "interrupted"] /\ UNCHANGED artifacts
    BY <1>1 DEF InterruptWrite
  <2>2. /\ writing' \in WriterCalls /\ writing'.phase = "interrupted"
        /\ writing'.wants = writing.wants /\ writing'.linked = writing.linked
        /\ writing'.blind = writing.blind /\ writing'.records = writing.records
    BY <1>t, <2>1 DEF WriterCalls
  <2>3. LabelHolds(l)' /\ FilesHold'
    BY <1>0, <1>t, <2>1, <2>2 DEF LabelHolds, AsMeant, Owns, FilesHold
  <2> QED
    BY <1>0, <1>t, <2>1, <2>2, <2>3, OneLabel
<1>2. CASE /\ Turn(l) /\ Written(l, FALSE)
           /\ writing' = [writing EXCEPT !.phase = "interrupted", !.blind = TRUE]
  <2>2. /\ writing' \in WriterCalls /\ writing'.phase = "interrupted"
        /\ writing'.wants = writing.wants /\ writing'.linked = writing.linked
        /\ writing'.blind /\ writing'.records = writing.records
    BY <1>t, <1>2 DEF WriterCalls
  <2>3. LabelHolds(l)'
    BY <1>0, <1>2, <1>t, <2>2, WrittenPut DEF LabelHolds, AsMeant, Owns
  <2> QED
    BY <1>0, <1>2, <1>t, <2>2, <2>3, WrittenPut, OneLabel
<1>3. CASE /\ writing.records[l] = "released"
           /\ artifacts' = [artifacts EXCEPT ![Final(l)] = artifacts[Staging(l)]]
           /\ writing' = [writing EXCEPT !.phase = "interrupted", !.blind = TRUE,
                                         !.linked = @ \union {l}]
  <2>2. /\ writing' \in WriterCalls /\ writing'.phase = "interrupted"
        /\ writing'.wants = writing.wants /\ writing'.linked = writing.linked \cup {l}
        /\ writing'.blind /\ writing'.records = writing.records
    BY <1>t, <1>3 DEF WriterCalls
  <2>3. /\ artifacts[Staging(l)] \in Artifacts /\ artifacts[Staging(l)].from <= plans
        /\ artifacts[Staging(l)].from > 0 => artifacts[Staging(l)].there
    BY <1>t DEF FilesHold
  <2>4. /\ artifacts' \in [ArtifactNames -> Artifacts] /\ FilesHold'
        /\ artifacts'[Final(l)] = artifacts[Staging(l)]
        /\ \A m \in ArtifactNames \ {Final(l)} : artifacts'[m] = artifacts[m]
    BY <1>0, <1>3, <1>t, <2>3, FilePut DEF WriterInv
  <2>5. LabelHolds(l)'
    BY <1>0, <1>3, <1>t, <2>2, <2>4 DEF LabelHolds, AsMeant, Owns
  <2> QED
    BY <1>0, <1>t, <2>2, <2>4, <2>5, OneLabel
<1> QED
  BY <1>1, <1>2, <1>3 DEF InterruptBlindly

(* What is no step on a label: a call begins or ends, or a stranger acts.  *)
LEMMA OtherWriterSteps ==
  ASSUME WriterInv,
         \/ \E req \in Requests : StartWrite(req)
         \/ FinishWrite \/ DiscardStaged \/ WriterDies
         \/ \E name \in ArtifactNames : StrangerActs(name)
         \/ UNCHANGED writerVars
  PROVE  WriterInv'
<1>t. WriterTyped /\ FilesHold /\ NoArtifact \in Artifacts /\ Stranger \in Artifacts
      /\ NoArtifact.from = 0 /\ Stranger.from = 0
  BY DEF WriterInv, NoArtifact, Stranger, Artifacts
<1>1. ASSUME NEW req \in Requests, StartWrite(req) PROVE WriterInv'
  <2>1. /\ writing' \in WriterCalls /\ plans' = plans + 1 /\ UNCHANGED artifacts
        /\ writing'.phase = "staging" /\ ~writing'.blind /\ writing'.linked = {}
        /\ \A l \in Labels : writing'.records[l] = "none"
    BY <1>1, RequestsAssumption DEF StartWrite, WriterCalls, WriterRecords
  <2>2. WriterTyped' /\ FilesHold' /\ \A n \in ArtifactNames : ~Owns(n)'
    BY <1>t, <2>1 DEF WriterTyped, FilesHold, Owns, Artifacts
  <2>3. \A l \in Labels : LabelHolds(l)'
    BY <2>1, <2>2, ArtifactParts DEF LabelHolds
  <2> QED
    BY <2>1, <2>2, <2>3 DEF WriterInv, CallHolds
<1>2. CASE FinishWrite \/ WriterDies
  BY <1>2 DEF FinishWrite, WriterDies, WriterInv, WriterTyped, FilesHold, CallHolds
<1>3. CASE DiscardStaged
  <2>1. PICK S \in SUBSET ArtifactNames :
          artifacts' = [n \in ArtifactNames |-> IF n \in S THEN NoArtifact ELSE artifacts[n]]
    <3>1. PICK stuck \in SUBSET writing.wants :
             artifacts' = [n \in ArtifactNames |->
                 IF \E l \in Removable(stuck) : n = Staging(l) THEN NoArtifact ELSE artifacts[n]]
      BY <1>3 DEF DiscardStaged
    <3> WITNESS {n \in ArtifactNames : \E l \in Removable(stuck) : n = Staging(l)}
                  \in SUBSET ArtifactNames
    <3> QED
      BY <3>1
  <2>2. artifacts' \in [ArtifactNames -> Artifacts] /\ writing' = NotWriting /\ plans' = plans
    BY <1>3, <1>t, <2>1 DEF WriterTyped, DiscardStaged
  <2>3. \A n \in ArtifactNames : artifacts'[n] \in {NoArtifact, artifacts[n]}
    BY <2>1
  <2>4. FilesHold'
    BY <1>t, <2>2, <2>3 DEF FilesHold, WriterTyped
  <2> QED
    BY <1>t, <2>2, <2>4 DEF WriterInv, WriterTyped, CallHolds
<1>4. ASSUME NEW name \in ArtifactNames, StrangerActs(name) PROVE WriterInv'
  <2>1. PICK file \in {Stranger, NoArtifact} : artifacts' = [artifacts EXCEPT ![name] = file]
    BY <1>4 DEF StrangerActs
  <2>2. UNCHANGED <<writing, plans>>
    BY <1>4 DEF StrangerActs
  <2>3. /\ artifacts' \in [ArtifactNames -> Artifacts]
        /\ artifacts'[name].from = 0
        /\ \A n \in ArtifactNames \ {name} : artifacts'[n] = artifacts[n]
    BY <1>t, <2>1 DEF WriterTyped
  <2>4. FilesHold'
    BY <1>t, <2>2, <2>3 DEF FilesHold, WriterTyped
  <2>5. ASSUME writing # NotWriting PROVE \A l \in Labels : LabelHolds(l)'
    <3>1. plans > 0 /\ plans \in Nat /\ \A l \in Labels : LabelHolds(l)
      BY <2>5 DEF WriterInv, WriterTyped, CallHolds
    <3>2. \A n \in ArtifactNames : Owns(n)' => Owns(n) /\ artifacts'[n] = artifacts[n]
      BY <2>2, <2>3, <3>1 DEF Owns
    <3> QED
      BY <2>2, <3>1, <3>2, ArtifactParts DEF LabelHolds, AsMeant
  <2> QED
    BY <1>t, <2>2, <2>3, <2>4, <2>5 DEF WriterInv, WriterTyped, CallHolds
<1>5. CASE UNCHANGED writerVars
  BY <1>5 DEF writerVars, WriterInv, WriterTyped, FilesHold, CallHolds, LabelHolds, AsMeant, Owns
<1> QED
  BY <1>1, <1>2, <1>3, <1>4, <1>5

LEMMA WriterStep == WriterInv /\ [WriterNext]_writerVars => WriterInv'
  BY StagingSteps, LinkingSteps, InterruptSteps, OtherWriterSteps DEF WriterNext, Labels

(* A call that returns has linked all it was asked for and left nothing    *)
(* staged.                                                                 *)
LEMMA ReturnsTrue ==
  ASSUME WriterInv, FinishWrite
  PROVE  /\ outcome'.call = writing /\ outcome'.kind = "returned"
         /\ TellsTheTruth(outcome)'
<1>0. /\ writing # NotWriting /\ ~writing.blind /\ UNCHANGED <<artifacts, plans>>
      /\ outcome' = [kind |-> "returned", names |-> {}, call |-> writing]
      /\ \A l \in writing.wants : writing.records[l] = "cleared"
  BY StagingCall DEF FinishWrite
<1>1. writing \in WriterCalls /\ \A l \in Labels : LabelHolds(l)
  BY <1>0, CallTyped
<1>2. \A l \in Labels : /\ ~Owns(Staging(l))
                        /\ l \in writing.linked <=> l \in writing.wants
  BY <1>0, <1>1 DEF LabelHolds
<1>3. Complete(outcome'.call)
  <2>1. writing.linked = writing.wants
    BY <1>1, <1>2 DEF WriterCalls
  <2> QED
    BY <1>0, <2>1 DEF Complete
<1>4. Owned("staging")' = {}
  BY <1>0, <1>2 DEF Owned, Owns, Staging
<1> QED
  BY <1>0, <1>3, <1>4 DEF TellsTheTruth, Complete

(* What a call that fails reports, when no interrupt struck it blindly.    *)
LEMMA FailsTrue ==
  ASSUME WriterInv, DiscardStaged, ~writing.blind
  PROVE  /\ outcome'.call = writing /\ outcome'.kind \in {"residue", "refused", "unchanged"}
         /\ TellsTheTruth(outcome)'
<1>0. PICK stuck \in SUBSET writing.wants :
         /\ artifacts' = [n \in ArtifactNames |->
                IF \E l \in Removable(stuck) : n = Staging(l) THEN NoArtifact ELSE artifacts[n]]
         /\ outcome' = [kind |-> ErrorKind(stuck), names |-> Reported(stuck), call |-> writing]
  BY DEF DiscardStaged
<1>1. writing # NotWriting /\ UNCHANGED plans /\ writing.phase \in {"refusing", "interrupted"}
  BY StagingCall DEF DiscardStaged
<1>2. /\ writing \in WriterCalls /\ plans > 0 /\ plans \in Nat
      /\ \A l \in Labels : LabelHolds(l)
      /\ \A n \in ArtifactNames : Owns(n) => Is(n)
      /\ writing.phase = "refusing" => \E l \in writing.wants : writing.records[l] # "cleared"
  BY <1>1, CallTyped DEF WriterInv, CallHolds
<1>3. /\ writing.linked = Promoted /\ Promoted \subseteq writing.wants
      /\ writing.wants \subseteq Labels
  BY <1>2 DEF LabelHolds, Promoted, RecordsIn, WriterCalls
<1>4. Complete(writing) <=> Promoted = writing.wants
  BY <1>3 DEF Complete
\* What is still staged of the call is named.
<1>5. {Staging(l) : l \in Owned("staging")'} \subseteq Reported(stuck)
  <2> SUFFICES ASSUME NEW l \in Labels, Owns(Staging(l))'
               PROVE  Staging(l) \in Reported(stuck)
    BY DEF Owned, Staging
  <2>1. Staging(l) \in ArtifactNames
    BY ArtifactParts
  <2>2. l \notin Removable(stuck) /\ Owns(Staging(l))
    <3>1. NoArtifact.from = 0
      BY DEF NoArtifact
    <3> QED
      BY <1>0, <1>1, <1>2, <2>1, <3>1 DEF Owns
  <2>3. Is(Staging(l)) /\ writing.records[l] \notin {"none", "cleared"} /\ l \in writing.wants
        /\ writing.records[l] \in WriterRecords
    BY <1>2, <2>1, <2>2 DEF LabelHolds, WriterCalls
  <2> QED
    BY <2>2, <2>3 DEF Reported, RecordsIn, WriterRecords
<1>6. ~Complete(writing) => {Final(l) : l \in writing.linked} \subseteq Reported(stuck)
  BY <1>3, <1>4 DEF Reported
<1>7. /\ ErrorKind(stuck) \in {"residue", "refused", "unchanged"}
      /\ ErrorKind(stuck) = "residue" => Complete(writing)
  BY <1>4 DEF ErrorKind
<1>8. ASSUME ErrorKind(stuck) = "refused" PROVE ~Complete(writing)
  <2> SUFFICES ASSUME Promoted = writing.wants PROVE FALSE
    BY <1>4
  <2>1. RecordsIn({"promoted"}) = {} /\ (Reported(stuck) # {} \/ writing.phase = "refusing")
    BY <1>8 DEF ErrorKind
  <2>2. \A l \in writing.wants : writing.records[l] = "cleared"
    BY <2>1 DEF Promoted, RecordsIn
  <2>3. Reported(stuck) = {}
    BY <2>2 DEF Reported, RecordsIn
  <2> QED
    BY <1>2, <2>1, <2>2, <2>3
<1>9. ASSUME ErrorKind(stuck) = "unchanged" PROVE Complete(writing) \/ writing.linked = {}
  <2>1. Reported(stuck) = {}
    BY <1>9 DEF ErrorKind
  <2> QED
    BY <1>6, <2>1
<1> QED
  BY <1>0, <1>5, <1>6, <1>7, <1>8, <1>9 DEF TellsTheTruth, Complete, Owned

(* Both artifacts of a call that was asked for both are a pair a reader    *)
(* accepts.                                                                *)
LEMMA PairIsAccepted ==
  ASSUME WriterInv, writing # NotWriting, writing.wants = Labels,
         UNCHANGED plans, \A l \in Labels : artifacts'[Final(l)] = artifacts[Final(l)],
         (Owned("final") = Labels)'
  PROVE  Accepts' /\ Complete(writing)
<1>1. "json" \in Labels /\ "csv" \in Labels
  BY DEF Labels
<1>2. \A l \in Labels : Owns(Final(l))
  BY DEF Owned, Owns, Final
<1>3. /\ \A l \in Labels : LabelHolds(l) /\ Is(Final(l))
      /\ writing \in WriterCalls
  BY <1>2, CallTyped, ArtifactParts
<1>4. Labels \subseteq writing.linked
  BY <1>2, <1>3 DEF LabelHolds
<1>5. Complete(writing)
  BY <1>3, <1>4 DEF Complete, WriterCalls
<1>6. /\ AsMeant("json", artifacts[Final("json")]) /\ AsMeant("csv", artifacts[Final("csv")])
      /\ Is(Final("json")) /\ Is(Final("csv"))
      /\ artifacts[Final("json")].from = artifacts[Final("csv")].from
  BY <1>1, <1>2, <1>3 DEF LabelHolds, Owns
<1>7. Accepts'
  BY <1>1, <1>6 DEF Accepts, Attests, AsMeant, Is
<1> QED
  BY <1>5, <1>7

(* However a call of the writer ends, whatever failed or was interrupted,  *)
(* and whoever used the names meanwhile: what it reports is what is on     *)
(* disk, and what a reader of the pair accepts or refuses.                 *)
THEOREM OutcomesAreTrue == WriterSpec => WriterSafety
<1>1. WriterInv /\ [WriterNext]_writerVars =>
        [\/ outcome' \in {outcome, NoOutcome} \/ outcome'.call.blind
         \/ TellsTheTruth(outcome)']_writerVars
  <2> SUFFICES ASSUME WriterInv, WriterNext, outcome' \notin {outcome, NoOutcome},
                      ~outcome'.call.blind
               PROVE  TellsTheTruth(outcome)'
    OBVIOUS
  <2>1. FinishWrite \/ DiscardStaged
    BY DEF WriterNext, StartWrite, CreateStaging, CreateFails, ReleaseAnchor, LinkFinal, LinkFails,
           UnlinkStaging, InterruptBlindly, InterruptWrite, WriterDies, StrangerActs
  <2>2. outcome'.call = writing
    BY <2>1 DEF FinishWrite, DiscardStaged
  <2> QED
    BY <2>1, <2>2, ReturnsTrue, FailsTrue
<1>2. WriterInv /\ [WriterNext]_writerVars =>
        [\/ outcome' \in {outcome, NoOutcome} \/ outcome'.call.wants # Labels
         \/ outcome'.call.blind
         \/ /\ outcome'.kind \in {"returned", "residue"} /\ (Owned("final") = Labels)' => Accepts'
            /\ outcome'.kind = "refused" => ~(Accepts /\ Owned("final") = Labels)']_writerVars
  <2> SUFFICES ASSUME WriterInv, WriterNext, outcome' \notin {outcome, NoOutcome},
                      outcome'.call.wants = Labels, ~outcome'.call.blind,
                      (Owned("final") = Labels)'
               PROVE  Accepts' /\ outcome'.kind # "refused"
    OBVIOUS
  <2>1. FinishWrite \/ DiscardStaged
    BY DEF WriterNext, StartWrite, CreateStaging, CreateFails, ReleaseAnchor, LinkFinal, LinkFails,
           UnlinkStaging, InterruptBlindly, InterruptWrite, WriterDies, StrangerActs
  <2>2. outcome'.call = writing /\ writing # NotWriting /\ UNCHANGED plans
    BY <2>1, StagingCall DEF FinishWrite, DiscardStaged
  <2>3. \A l \in Labels : artifacts'[Final(l)] = artifacts[Final(l)]
    <3>1. CASE FinishWrite
      BY <3>1 DEF FinishWrite
    <3>2. CASE DiscardStaged
      <4>1. writing.wants \subseteq Labels
        BY <2>2, CallTyped DEF WriterCalls
      <4>2. \A stuck : Removable(stuck) \subseteq Labels
        BY <4>1 DEF Removable, RecordsIn
      <4> QED
        BY <3>2, <4>2, ArtifactParts DEF DiscardStaged
    <3> QED
      BY <2>1, <3>1, <3>2
  <2>4. Accepts' /\ Complete(writing)
    BY <2>2, <2>3, PairIsAccepted
  <2>5. TellsTheTruth(outcome)'
    BY <2>1, <2>2, ReturnsTrue, FailsTrue
  <2> QED
    BY <2>2, <2>4, <2>5 DEF TellsTheTruth, Complete
<1> QED
  BY <1>1, <1>2, WriterInvInit, WriterStep, PTL DEF WriterSpec, WriterSafety, OutcomeIsTrue, ReaderAgrees

-----------------------------------------------------------------------------
(* The provenance backfill                                                 *)

(* The tables hold one hash and one signature of an archive.               *)
OneRowEach(d) ==
  /\ \A h, k \in d.hashes : h.archive = k.archive => h = k
  /\ \A h \in d.hashes : h = [archive |-> h.archive, digest |-> h.digest]
  /\ \A s, t \in d.signatures : s.archive = t.archive => s = t

(* An envelope found on the way to the reader still is, in all that says   *)
(* which plan it is, the one that was written.                             *)
EnvelopeWith(plan, rows, totals, census, failures) ==
  [there |-> TRUE, csv |-> rows, snapshot |-> plan.snapshot, plan |-> PlanDigest(plan),
   totals |-> totals, unrevised |-> census, failures |-> failures]
OfPlan(plan, header) ==
  header = EnvelopeWith(plan, header.csv, header.totals, header.unrevised, header.failures)

BackfillInv ==
  /\ OneRowEach(provenance)
  /\ \A i \in issued : OneRowEach(i.from) /\ ~PlannerRefuses(i.from) /\ i.plan = PlanOf(i.from)
  /\ envelope = NoFiles
       \/ \E i \in issued : OfPlan(i.plan, envelope)

(* What the signatures of two databases with one snapshot have in common.  *)
LEMMA SignaturesShown ==
  ASSUME NEW d, NEW e, Snapshot(d) = Snapshot(e), NEW s \in d.signatures
  PROVE  \E t \in e.signatures : /\ t.archive = s.archive /\ t.digest = s.digest
                                 /\ t.pages = s.pages /\ t.at = s.at
<1> DEFINE Brief(x) == [archive |-> x.archive, digest |-> x.digest, pages |-> x.pages, at |-> x.at]
<1>1. {Brief(x) : x \in d.signatures} = {Brief(x) : x \in e.signatures}
  <2>1. Snapshot(d).signatures = Snapshot(e).signatures
    OBVIOUS
  <2> QED
    BY <2>1 DEF Snapshot
<1>2. Brief(s) \in {Brief(x) : x \in e.signatures}
  BY <1>1
<1>3. PICK t \in e.signatures : Brief(t) = Brief(s)
  BY <1>2
<1>4. /\ Brief(t).archive = Brief(s).archive /\ Brief(t).digest = Brief(s).digest
      /\ Brief(t).pages = Brief(s).pages /\ Brief(t).at = Brief(s).at
  BY <1>3
<1> QED
  BY <1>4

LEMMA SnapshotFields ==
  ASSUME NEW d, NEW e, Snapshot(d) = Snapshot(e)
  PROVE  /\ d.revisions = e.revisions /\ d.hashes = e.hashes
         /\ d.inspections = e.inspections /\ d.candidates = e.candidates
         /\ Populations(d) = Populations(e) /\ Drifted(d) = Drifted(e)
         /\ Unrevised(d) = Unrevised(e)
<1>1. /\ Snapshot(d).revisions = Snapshot(e).revisions /\ Snapshot(d).hashes = Snapshot(e).hashes
      /\ Snapshot(d).inspections = Snapshot(e).inspections
      /\ Snapshot(d).candidates = Snapshot(e).candidates
      /\ Snapshot(d).pages = Snapshot(e).pages /\ Snapshot(d).drift = Snapshot(e).drift
      /\ Snapshot(d).unrevised = Snapshot(e).unrevised
  OBVIOUS
<1> QED
  BY <1>1 DEF Snapshot

(* Databases with one snapshot are refused together ...                    *)
LEMMA RefusedTogether ==
  ASSUME NEW d, NEW e, Snapshot(d) = Snapshot(e), PlannerRefuses(d)
  PROVE  PlannerRefuses(e)
<1>1. /\ d.revisions = e.revisions /\ d.hashes = e.hashes
      /\ Populations(d) = Populations(e) /\ Drifted(d) = Drifted(e)
  BY SnapshotFields
<1>2. \A s \in d.signatures : \E t \in e.signatures :
         t.archive = s.archive /\ t.digest = s.digest /\ t.pages = s.pages /\ t.at = s.at
  BY SignaturesShown
<1>3. \A t \in e.signatures : \E s \in d.signatures : s.archive = t.archive
  BY SignaturesShown
<1>4. \A a : Owning(d, a) = Owning(e, a)
  BY <1>1 DEF Owning
<1>5. CASE \E r, s \in d.revisions : r # s /\ r.archive = s.archive
  BY <1>1, <1>5 DEF PlannerRefuses
<1>6. CASE \E p \in d.pages : ~\E s \in d.signatures : s.archive = p.archive
  <2>1. PICK p \in d.pages : ~\E s \in d.signatures : s.archive = p.archive
    BY <1>6
  <2>2. Population(d, p.archive) \in Populations(e)
    BY <1>1 DEF Populations
  <2>3. PICK q \in e.pages : Population(d, p.archive) = Population(e, q.archive)
    BY <2>2 DEF Populations
  <2>4. Population(d, p.archive).archive = Population(e, q.archive).archive
    BY <2>3
  <2>5. q.archive = p.archive
    BY <2>4 DEF Population
  <2> QED
    BY <2>1, <2>5, <1>3 DEF PlannerRefuses
<1>7. CASE \E h \in d.hashes : ~\E r \in Owning(d, h.archive) : r.sha = h.digest
  BY <1>1, <1>4, <1>7 DEF PlannerRefuses
<1>8. CASE \E s \in d.signatures :
             \/ s.archive \notin Drifted(d)
                /\ \E r \in Owning(d, s.archive) : r.signature # s.digest
             \/ ~PagesAgree(d, s)
  <2>1. PICK s \in d.signatures :
             \/ s.archive \notin Drifted(d)
                /\ \E r \in Owning(d, s.archive) : r.signature # s.digest
             \/ ~PagesAgree(d, s)
    BY <1>8
  <2>2. PICK t \in e.signatures :
           t.archive = s.archive /\ t.digest = s.digest /\ t.pages = s.pages /\ t.at = s.at
    BY <1>2
  <2>3. PagesAgree(e, t) => PagesAgree(d, s)
    BY <1>1, <2>2 DEF PagesAgree
  <2> QED
    BY <1>1, <1>4, <2>1, <2>2, <2>3 DEF PlannerRefuses
<1> QED
  BY <1>5, <1>6, <1>7, <1>8 DEF PlannerRefuses

LEMMA ResolvedAlike ==
  ASSUME NEW d, NEW e, Snapshot(d) = Snapshot(e), NEW a, NEW basis
  PROVE  Resolved(d, a, basis) = Resolved(e, a, basis)
BY SnapshotFields DEF Resolved, Owning

LEMMA BoundAlike ==
  ASSUME NEW d, NEW e, Snapshot(d) = Snapshot(e)
  PROVE  /\ SignatureBindings(d) \subseteq SignatureBindings(e)
         /\ InventoryBindings(d) \subseteq InventoryBindings(e)
<1>1. ASSUME NEW s \in d.signatures, NEW t \in e.signatures, NEW basis,
             t.archive = s.archive
      PROVE  SignatureSide(d, s, basis) = SignatureSide(e, t, basis)
  BY <1>1, SnapshotFields, ResolvedAlike DEF SignatureSide
<1>2. \A s \in d.signatures : \E t \in e.signatures :
         t.archive = s.archive /\ t.digest = s.digest /\ t.pages = s.pages /\ t.at = s.at
  BY SignaturesShown
<1>3. ASSUME NEW b \in SignatureBindings(d) PROVE b \in SignatureBindings(e)
  BY <1>1, <1>2 DEF SignatureBindings
<1>4. ASSUME NEW b \in InventoryBindings(d) PROVE b \in InventoryBindings(e)
  BY <1>1, <1>2 DEF InventoryBindings
<1> QED
  BY <1>3, <1>4

(* ... and given the same plan.                                            *)
LEMMA PlannedAlike ==
  ASSUME NEW d, NEW e, Snapshot(d) = Snapshot(e)
  PROVE  PlanOf(d) = PlanOf(e)
<1>1. HashBindings(d) = HashBindings(e)
  BY SnapshotFields, ResolvedAlike DEF HashBindings
<1>2. InspectionBindings(d) = InspectionBindings(e)
  BY SnapshotFields, ResolvedAlike DEF InspectionBindings
<1>3. CandidateBindings(d) = CandidateBindings(e)
  <2> DEFINE Sides(f, c) ==
        [label \in {"a", "b"} |->
            Resolved(f, IF label = "a" THEN c[1] ELSE c[2], "single_revision_inherited")]
  <2>1. \A c : Sides(d, c) = Sides(e, c)
    BY ResolvedAlike
  <2>2. d.candidates = e.candidates
    BY SnapshotFields
  <2> HIDE DEF Sides
  <2>3. {Binding("near_duplicate_candidates", c, Sides(d, c), <<c[2], "unknown_legacy">>) :
            c \in d.candidates}
        = {Binding("near_duplicate_candidates", c, Sides(e, c), <<c[2], "unknown_legacy">>) :
            c \in e.candidates}
    BY <2>1, <2>2
  <2> QED
    BY <2>3 DEF CandidateBindings, Sides
<1>4. SignatureBindings(d) = SignatureBindings(e) /\ InventoryBindings(d) = InventoryBindings(e)
  BY BoundAlike
<1> QED
  BY <1>1, <1>2, <1>3, <1>4, SnapshotFields DEF PlanOf, Classification

(* A revision that owns is the only one of its archive.                    *)
LEMMA OwnerIsOnly ==
  ASSUME NEW d, ~PlannerRefuses(d), NEW a, Owning(d, a) # {}
  PROVE  \E r \in d.revisions :
           /\ Owning(d, a) = {r} /\ r.archive = a /\ r.state = "established"
           /\ \A q \in d.revisions : q.archive = a => q = r
<1>1. PICK r \in Owning(d, a) : TRUE
  OBVIOUS
<1>2. r \in d.revisions /\ r.archive = a /\ r.state = "established"
  BY DEF Owning
<1>3. \A q \in d.revisions : q.archive = a => q = r
  BY <1>2 DEF PlannerRefuses
<1>4. Owning(d, a) = {r}
  BY <1>1, <1>3 DEF Owning
<1> QED
  BY <1>2, <1>3, <1>4

(* Every binding names a table, a row of it and a side of a form that can  *)
(* be written down and read back.                                          *)
LEMMA SideOfAlone ==
  ASSUME NEW side
  PROVE  DOMAIN Alone(side) = {"one"} /\ Alone(side)["one"] = side
BY DEF Alone

LEMMA HashBindingsLegal ==
  ASSUME NEW d, ~PlannerRefuses(d), NEW b \in HashBindings(d)
  PROVE  /\ b.table = "archive_hashes" /\ LegalBinding(b)
         /\ \E h \in d.hashes : /\ b.key = <<h.archive>>
                                /\ b.sides = Alone(Side(h.archive, Owning(d, h.archive), "identity_seed"))
<1>1. PICK h \in d.hashes :
         b = Binding("archive_hashes", <<h.archive>>, Alone(Resolved(d, h.archive, "identity_seed")), <<>>)
  BY DEF HashBindings
<1>2. Owning(d, h.archive) # {}
  BY DEF PlannerRefuses
<1>3. Resolved(d, h.archive, "identity_seed") = Side(h.archive, Owning(d, h.archive), "identity_seed")
  BY <1>2 DEF Resolved
<1> DEFINE side == Side(h.archive, Owning(d, h.archive), "identity_seed")
<1>4. /\ b.table = "archive_hashes" /\ b.key = <<h.archive>> /\ b.sides = Alone(side)
  BY <1>1, <1>3 DEF Binding
<1>5. side.basis = "identity_seed" /\ side.revision # {}
  BY <1>2 DEF Side
<1>6. LegalBinding(b)
  BY <1>4, <1>5, SideOfAlone DEF LegalBinding, Receiving, Vocabulary, SideBound, UnresolvedBases
<1> QED
  BY <1>4, <1>6

(* Where a side is bound, it is to the revision that owns.                 *)
OwnedOrNot(d, a, side, basis) ==
  \/ Owning(d, a) = {} /\ side = Side(a, {}, "unresolved_no_identity")
  \/ Owning(d, a) # {} /\ side = Side(a, Owning(d, a), basis)

LEMMA ResolvedIs ==
  ASSUME NEW d, NEW a, NEW basis
  PROVE  OwnedOrNot(d, a, Resolved(d, a, basis), basis)
BY DEF OwnedOrNot, Resolved

LEMMA SideIsLegal ==
  ASSUME NEW d, NEW a, NEW side,
         \/ OwnedOrNot(d, a, side, "field_seed")
         \/ OwnedOrNot(d, a, side, "single_revision_inherited")
         \/ side = Side(a, {}, "unresolved_drift")
  PROVE  /\ side.archive = a
         /\ SideBound(side) <=> side.revision # {}
         /\ SideBound(side) => side.revision = Owning(d, a)
BY DEF OwnedOrNot, Side, SideBound, UnresolvedBases

LEMMA SignatureBindingsLegal ==
  ASSUME NEW d, NEW b \in SignatureBindings(d)
  PROVE  /\ b.table = "archive_content_signatures" /\ LegalBinding(b)
         /\ \E s \in d.signatures : /\ b.key = <<s.archive>>
                                    /\ b.sides = Alone(SignatureSide(d, s, "field_seed"))
<1>1. PICK s \in d.signatures :
         b = Binding("archive_content_signatures", <<s.archive>>,
                     Alone(SignatureSide(d, s, "field_seed")), <<>>)
  BY DEF SignatureBindings
<1> DEFINE side == SignatureSide(d, s, "field_seed")
<1>2. /\ b.table = "archive_content_signatures" /\ b.key = <<s.archive>> /\ b.sides = Alone(side)
  BY <1>1 DEF Binding
<1>3. OwnedOrNot(d, s.archive, side, "field_seed") \/ side = Side(s.archive, {}, "unresolved_drift")
  BY ResolvedIs DEF SignatureSide
<1>4. SideBound(side) <=> side.revision # {}
  BY <1>3, SideIsLegal
<1>5. side.basis \in {"field_seed", "unresolved_no_identity", "unresolved_drift"}
  BY <1>3 DEF OwnedOrNot, Side
<1>6. LegalBinding(b)
  BY <1>2, <1>4, <1>5, SideOfAlone DEF LegalBinding, Receiving, Vocabulary, UnresolvedBases
<1> QED
  BY <1>2, <1>6

LEMMA InventoryBindingsLegal ==
  ASSUME NEW d, NEW b \in InventoryBindings(d)
  PROVE  /\ b.table = "page_inventory" /\ LegalBinding(b)
         /\ \E s \in d.signatures :
               /\ b.key = <<s.archive>>
               /\ b.sides = Alone(SignatureSide(d, s, "single_revision_inherited"))
<1> DEFINE Copied(s) == <<s.pages, s.digest, s.at,
               IF s.pages = 0 THEN "signature_calculated_at" ELSE "first_page_persistence">>
<1>1. PICK s \in d.signatures :
         b = Binding("page_inventory", <<s.archive>>,
                     Alone(SignatureSide(d, s, "single_revision_inherited")), Copied(s))
  BY DEF InventoryBindings
<1> HIDE DEF Copied
<1> DEFINE side == SignatureSide(d, s, "single_revision_inherited")
<1>2. /\ b.table = "page_inventory" /\ b.key = <<s.archive>> /\ b.sides = Alone(side)
  BY <1>1 DEF Binding
<1>3. \/ OwnedOrNot(d, s.archive, side, "single_revision_inherited")
      \/ side = Side(s.archive, {}, "unresolved_drift")
  BY ResolvedIs DEF SignatureSide
<1>4. SideBound(side) <=> side.revision # {}
  BY <1>3, SideIsLegal
<1>5. side.basis \in {"single_revision_inherited", "unresolved_no_identity", "unresolved_drift"}
  BY <1>3 DEF OwnedOrNot, Side
<1>6. LegalBinding(b)
  BY <1>2, <1>4, <1>5, SideOfAlone DEF LegalBinding, Receiving, Vocabulary, UnresolvedBases
<1> QED
  BY <1>2, <1>6

LEMMA InspectionBindingsLegal ==
  ASSUME NEW d, NEW b \in InspectionBindings(d)
  PROVE  /\ b.table = "archive_inspections" /\ LegalBinding(b)
         /\ \E a \in d.inspections :
               /\ b.key = <<a>>
               /\ b = Binding("archive_inspections", <<a>>,
                              Alone(Resolved(d, a, "single_revision_inherited")), <<"unknown_legacy">>)
<1>1. PICK a \in d.inspections :
         b = Binding("archive_inspections", <<a>>,
                     Alone(Resolved(d, a, "single_revision_inherited")), <<"unknown_legacy">>)
  BY DEF InspectionBindings
<1> DEFINE side == Resolved(d, a, "single_revision_inherited")
<1>2. /\ b.table = "archive_inspections" /\ b.key = <<a>> /\ b.sides = Alone(side)
  BY <1>1 DEF Binding
<1>3. OwnedOrNot(d, a, side, "single_revision_inherited")
  BY ResolvedIs
<1>4. SideBound(side) <=> side.revision # {}
  BY <1>3, SideIsLegal
<1>5. side.basis \in {"single_revision_inherited", "unresolved_no_identity"}
  BY <1>3 DEF OwnedOrNot, Side
<1>6. LegalBinding(b)
  BY <1>2, <1>4, <1>5, SideOfAlone DEF LegalBinding, Receiving, Vocabulary, UnresolvedBases
<1> QED
  BY <1>1, <1>2, <1>6

LEMMA CandidateBindingsLegal ==
  ASSUME NEW d, NEW b \in CandidateBindings(d)
  PROVE  /\ b.table = "near_duplicate_candidates" /\ LegalBinding(b)
         /\ b.key \in d.candidates
         /\ DOMAIN b.sides = {"a", "b"}
         /\ \A label \in {"a", "b"} :
               b.sides[label] = Resolved(d, IF label = "a" THEN b.key[1] ELSE b.key[2],
                                         "single_revision_inherited")
         /\ b.values = <<b.key[2], "unknown_legacy">>
         /\ DOMAIN b = {"table", "key", "sides", "values"}
<1> DEFINE Sides(c) ==
        [label \in {"a", "b"} |->
            Resolved(d, IF label = "a" THEN c[1] ELSE c[2], "single_revision_inherited")]
<1>1. PICK c \in d.candidates :
         b = Binding("near_duplicate_candidates", c, Sides(c), <<c[2], "unknown_legacy">>)
  BY DEF CandidateBindings
<1>2. /\ b.table = "near_duplicate_candidates" /\ b.key = c /\ b.sides = Sides(c)
      /\ b.values = <<c[2], "unknown_legacy">> /\ DOMAIN b = {"table", "key", "sides", "values"}
  BY <1>1 DEF Binding
<1>3. ASSUME NEW label \in {"a", "b"}
      PROVE  OwnedOrNot(d, IF label = "a" THEN c[1] ELSE c[2], b.sides[label],
                        "single_revision_inherited")
  BY <1>2, ResolvedIs
<1>4. ASSUME NEW label \in {"a", "b"}
      PROVE  /\ SideBound(b.sides[label]) <=> b.sides[label].revision # {}
             /\ b.sides[label].basis \in {"single_revision_inherited", "unresolved_no_identity"}
  BY <1>3, SideIsLegal DEF OwnedOrNot, Side
<1>5. DOMAIN b.sides = {"a", "b"}
  BY <1>2
<1>6. LegalBinding(b)
  BY <1>2, <1>4, <1>5 DEF LegalBinding, Receiving, Vocabulary
<1> QED
  BY <1>2, <1>5, <1>6

LEMMA TableOf ==
  ASSUME NEW d, ~PlannerRefuses(d), NEW b \in Classification(d)
  PROVE  /\ LegalBinding(b)
         /\ b.table = "archive_hashes" => b \in HashBindings(d)
         /\ b.table = "archive_content_signatures" => b \in SignatureBindings(d)
         /\ b.table = "archive_inspections" => b \in InspectionBindings(d)
         /\ b.table = "page_inventory" => b \in InventoryBindings(d)
         /\ b.table = "near_duplicate_candidates" => b \in CandidateBindings(d)
         /\ b.table \in {"archive_hashes", "archive_content_signatures", "archive_inspections",
                         "page_inventory", "near_duplicate_candidates"}
<1>1. CASE b \in HashBindings(d)
  BY <1>1, HashBindingsLegal
<1>2. CASE b \in SignatureBindings(d)
  BY <1>2, SignatureBindingsLegal
<1>3. CASE b \in InspectionBindings(d)
  BY <1>3, InspectionBindingsLegal
<1>4. CASE b \in InventoryBindings(d)
  BY <1>4, InventoryBindingsLegal
<1>5. CASE b \in CandidateBindings(d)
  BY <1>5, CandidateBindingsLegal
<1> QED
  BY <1>1, <1>2, <1>3, <1>4, <1>5 DEF Classification

(* One binding for a row, as the tables hold one row of an archive.        *)
LEMMA OneBindingEach ==
  ASSUME NEW d, OneRowEach(d), ~PlannerRefuses(d),
         NEW b \in Classification(d), NEW c \in Classification(d), b.table = c.table, b.key = c.key
  PROVE  b = c
<1>1. CASE b.table = "archive_hashes"
  <2>1. b \in HashBindings(d) /\ c \in HashBindings(d)
    BY <1>1, TableOf
  <2>2. PICK h \in d.hashes :
           b = Binding("archive_hashes", <<h.archive>>,
                       Alone(Resolved(d, h.archive, "identity_seed")), <<>>)
    BY <2>1 DEF HashBindings
  <2>3. PICK k \in d.hashes :
           c = Binding("archive_hashes", <<k.archive>>,
                       Alone(Resolved(d, k.archive, "identity_seed")), <<>>)
    BY <2>1 DEF HashBindings
  <2>4. <<h.archive>> = <<k.archive>>
    BY <2>2, <2>3 DEF Binding
  <2>5. h.archive = k.archive
    BY <2>4
  <2> QED
    BY <2>2, <2>3, <2>5
<1>2. CASE b.table = "archive_content_signatures"
  <2>1. b \in SignatureBindings(d) /\ c \in SignatureBindings(d)
    BY <1>2, TableOf
  <2>2. PICK s \in d.signatures :
           b = Binding("archive_content_signatures", <<s.archive>>,
                       Alone(SignatureSide(d, s, "field_seed")), <<>>)
    BY <2>1 DEF SignatureBindings
  <2>3. PICK t \in d.signatures :
           c = Binding("archive_content_signatures", <<t.archive>>,
                       Alone(SignatureSide(d, t, "field_seed")), <<>>)
    BY <2>1 DEF SignatureBindings
  <2>4. <<s.archive>> = <<t.archive>>
    BY <2>2, <2>3 DEF Binding
  <2>5. s = t
    BY <2>4 DEF OneRowEach
  <2> QED
    BY <2>2, <2>3, <2>5
<1>3. CASE b.table = "archive_inspections"
  <2>1. b \in InspectionBindings(d) /\ c \in InspectionBindings(d)
    BY <1>3, TableOf
  <2>2. PICK x \in d.inspections :
           /\ b.key = <<x>>
           /\ b = Binding("archive_inspections", <<x>>,
                       Alone(Resolved(d, x, "single_revision_inherited")), <<"unknown_legacy">>)
    BY <2>1, InspectionBindingsLegal
  <2>3. PICK y \in d.inspections :
           /\ c.key = <<y>>
           /\ c = Binding("archive_inspections", <<y>>,
                       Alone(Resolved(d, y, "single_revision_inherited")), <<"unknown_legacy">>)
    BY <2>1, InspectionBindingsLegal
  <2>4. <<x>> = <<y>>
    BY <2>2, <2>3
  <2>5. x = y
    BY <2>4
  <2> QED
    BY <2>2, <2>3, <2>5
<1>4. CASE b.table = "page_inventory"
  <2> DEFINE Copied(s) == <<s.pages, s.digest, s.at,
               IF s.pages = 0 THEN "signature_calculated_at" ELSE "first_page_persistence">>
  <2>1. b \in InventoryBindings(d) /\ c \in InventoryBindings(d)
    BY <1>4, TableOf
  <2>2. PICK s \in d.signatures :
           b = Binding("page_inventory", <<s.archive>>,
                       Alone(SignatureSide(d, s, "single_revision_inherited")), Copied(s))
    BY <2>1 DEF InventoryBindings
  <2>3. PICK t \in d.signatures :
           c = Binding("page_inventory", <<t.archive>>,
                       Alone(SignatureSide(d, t, "single_revision_inherited")), Copied(t))
    BY <2>1 DEF InventoryBindings
  <2> HIDE DEF Copied
  <2>4. <<s.archive>> = <<t.archive>>
    BY <2>2, <2>3 DEF Binding
  <2>5. s = t
    BY <2>4 DEF OneRowEach
  <2> QED
    BY <2>2, <2>3, <2>5
<1>5. CASE b.table = "near_duplicate_candidates"
  <2> DEFINE Sides(k) ==
        [label \in {"a", "b"} |->
            Resolved(d, IF label = "a" THEN k[1] ELSE k[2], "single_revision_inherited")]
  <2>1. b \in CandidateBindings(d) /\ c \in CandidateBindings(d)
    BY <1>5, TableOf
  <2>2. PICK k \in d.candidates :
           b = Binding("near_duplicate_candidates", k, Sides(k), <<k[2], "unknown_legacy">>)
    BY <2>1 DEF CandidateBindings
  <2>3. PICK l \in d.candidates :
           c = Binding("near_duplicate_candidates", l, Sides(l), <<l[2], "unknown_legacy">>)
    BY <2>1 DEF CandidateBindings
  <2> HIDE DEF Sides
  <2>4. k = l
    BY <2>2, <2>3 DEF Binding
  <2> QED
    BY <2>2, <2>3, <2>4
<1> QED
  BY <1>1, <1>2, <1>3, <1>4, <1>5, TableOf

LEMMA RowsOf ==
  ASSUME NEW d
  PROVE  /\ Receiving = {"archive_hashes", "archive_content_signatures", "archive_inspections",
                         "page_inventory", "near_duplicate_candidates"}
         /\ KeysToPlan(d)["archive_hashes"] = {<<h.archive>> : h \in d.hashes}
         /\ KeysToPlan(d)["archive_content_signatures"] = {<<s.archive>> : s \in d.signatures}
         /\ KeysToPlan(d)["archive_inspections"] = {<<a>> : a \in d.inspections}
         /\ KeysToPlan(d)["page_inventory"] = {<<s.archive>> : s \in d.signatures}
         /\ KeysToPlan(d)["near_duplicate_candidates"] = d.candidates
BY DEF Receiving, Vocabulary, KeysToPlan

LEMMA EveryRowDecided ==
  ASSUME NEW d, NEW t \in Receiving, NEW key \in KeysToPlan(d)[t]
  PROVE  \E b \in Classification(d) : b.table = t /\ b.key = key
<1>1. CASE t = "archive_hashes"
  <2>1. PICK h \in d.hashes : key = <<h.archive>>
    BY <1>1, RowsOf
  <2> DEFINE b == Binding("archive_hashes", <<h.archive>>,
                          Alone(Resolved(d, h.archive, "identity_seed")), <<>>)
  <2>2. b \in HashBindings(d) /\ b.table = t /\ b.key = key
    BY <1>1, <2>1 DEF HashBindings, Binding
  <2> QED
    BY <2>2 DEF Classification
<1>2. CASE t = "archive_content_signatures"
  <2>1. PICK s \in d.signatures : key = <<s.archive>>
    BY <1>2, RowsOf
  <2> DEFINE b == Binding("archive_content_signatures", <<s.archive>>,
                          Alone(SignatureSide(d, s, "field_seed")), <<>>)
  <2>2. b \in SignatureBindings(d) /\ b.table = t /\ b.key = key
    BY <1>2, <2>1 DEF SignatureBindings, Binding
  <2> QED
    BY <2>2 DEF Classification
<1>3. CASE t = "archive_inspections"
  <2>1. PICK a \in d.inspections : key = <<a>>
    BY <1>3, RowsOf
  <2> DEFINE b == Binding("archive_inspections", <<a>>,
                Alone(Resolved(d, a, "single_revision_inherited")), <<"unknown_legacy">>)
  <2>2. b \in InspectionBindings(d) /\ b.table = t /\ b.key = key
    BY <1>3, <2>1 DEF InspectionBindings, Binding
  <2> QED
    BY <2>2 DEF Classification
<1>4. CASE t = "page_inventory"
  <2>1. PICK s \in d.signatures : key = <<s.archive>>
    BY <1>4, RowsOf
  <2> DEFINE Copied == <<s.pages, s.digest, s.at,
               IF s.pages = 0 THEN "signature_calculated_at" ELSE "first_page_persistence">>
             b == Binding("page_inventory", <<s.archive>>,
                          Alone(SignatureSide(d, s, "single_revision_inherited")), Copied)
  <2>2. b \in InventoryBindings(d)
    BY DEF InventoryBindings
  <2> HIDE DEF Copied
  <2>3. b.table = t /\ b.key = key
    BY <1>4, <2>1 DEF Binding
  <2> QED
    BY <2>2, <2>3 DEF Classification
<1>5. CASE t = "near_duplicate_candidates"
  <2>1. key \in d.candidates
    BY <1>5, RowsOf
  <2> DEFINE Sides == [label \in {"a", "b"} |->
               Resolved(d, IF label = "a" THEN key[1] ELSE key[2], "single_revision_inherited")]
             b == Binding("near_duplicate_candidates", key, Sides, <<key[2], "unknown_legacy">>)
  <2>2. b \in CandidateBindings(d)
    BY <2>1 DEF CandidateBindings
  <2> HIDE DEF Sides
  <2>3. b.table = t /\ b.key = key
    BY <1>5, <2>1 DEF Binding
  <2> QED
    BY <2>2, <2>3 DEF Classification
<1> QED
  BY <1>1, <1>2, <1>3, <1>4, <1>5, RowsOf

LEMMA NothingElseDecided ==
  ASSUME NEW d, ~PlannerRefuses(d), NEW b \in Classification(d)
  PROVE  b.table \in Receiving /\ b.key \in KeysToPlan(d)[b.table]
<1>1. CASE b.table = "archive_hashes"
  <2>1. \E h \in d.hashes : b.key = <<h.archive>>
    BY <1>1, TableOf, HashBindingsLegal
  <2> QED
    BY <1>1, <2>1, RowsOf
<1>2. CASE b.table = "archive_content_signatures"
  <2>1. \E s \in d.signatures : b.key = <<s.archive>>
    BY <1>2, TableOf, SignatureBindingsLegal
  <2> QED
    BY <1>2, <2>1, RowsOf
<1>3. CASE b.table = "archive_inspections"
  <2>1. \E a \in d.inspections : b.key = <<a>>
    BY <1>3, TableOf, InspectionBindingsLegal
  <2> QED
    BY <1>3, <2>1, RowsOf
<1>4. CASE b.table = "page_inventory"
  <2>1. \E s \in d.signatures : b.key = <<s.archive>>
    BY <1>4, TableOf, InventoryBindingsLegal
  <2> QED
    BY <1>4, <2>1, RowsOf
<1>5. CASE b.table = "near_duplicate_candidates"
  BY <1>5, TableOf, CandidateBindingsLegal, RowsOf
<1> QED
  BY <1>1, <1>2, <1>3, <1>4, <1>5, TableOf

(* What is bound, and why.                                                 *)
GuessesNothingOf(d, b) ==
    \A label \in DOMAIN b.sides :
       LET side == b.sides[label]
       IN  SideBound(side) =>
              /\ \E r \in d.revisions :
                    /\ side.revision = {r} /\ r.archive = side.archive /\ r.state = "established"
                    /\ \A q \in d.revisions : q.archive = side.archive => q = r
                    /\ b.table = "archive_hashes" =>
                          [archive |-> side.archive, digest |-> r.sha] \in d.hashes
                    /\ b.table = "archive_content_signatures" =>
                          \E s \in d.signatures :
                             s.archive = side.archive /\ s.digest = r.signature
              /\ b.table \in {"archive_content_signatures", "page_inventory"} =>
                    \A s \in d.signatures : s.archive = side.archive => Undrifted(d, s)

LEMMA OwnedIsKnown ==
  ASSUME NEW d, ~PlannerRefuses(d), NEW a, NEW side,
         \/ OwnedOrNot(d, a, side, "field_seed")
         \/ OwnedOrNot(d, a, side, "single_revision_inherited")
         \/ side = Side(a, {}, "unresolved_drift"),
         SideBound(side)
  PROVE  /\ side.archive = a
         /\ \E r \in d.revisions :
               /\ side.revision = {r} /\ r.archive = a /\ r.state = "established"
               /\ r \in Owning(d, a)
               /\ \A q \in d.revisions : q.archive = a => q = r
<1>1. side.archive = a /\ side.revision # {} /\ side.revision = Owning(d, a)
  BY SideIsLegal
<1> QED
  BY <1>1, OwnerIsOnly

LEMMA NothingGuessed ==
  ASSUME NEW d, OneRowEach(d), ~PlannerRefuses(d), NEW b \in Classification(d)
  PROVE  GuessesNothingOf(d, b)
<1> SUFFICES ASSUME NEW label \in DOMAIN b.sides, SideBound(b.sides[label])
             PROVE  /\ \E r \in d.revisions :
                          /\ b.sides[label].revision = {r} /\ r.archive = b.sides[label].archive
                          /\ r.state = "established"
                          /\ \A q \in d.revisions : q.archive = b.sides[label].archive => q = r
                          /\ b.table = "archive_hashes" =>
                                [archive |-> b.sides[label].archive, digest |-> r.sha] \in d.hashes
                          /\ b.table = "archive_content_signatures" =>
                                \E s \in d.signatures :
                                   s.archive = b.sides[label].archive /\ s.digest = r.signature
                    /\ b.table \in {"archive_content_signatures", "page_inventory"} =>
                          \A s \in d.signatures :
                             s.archive = b.sides[label].archive => Undrifted(d, s)
  BY DEF GuessesNothingOf
<1>1. CASE b.table = "archive_hashes"
  <2>1. PICK h \in d.hashes :
           b.sides = Alone(Side(h.archive, Owning(d, h.archive), "identity_seed"))
    BY <1>1, TableOf, HashBindingsLegal
  <2>2. b.sides[label] = Side(h.archive, Owning(d, h.archive), "identity_seed")
    BY <2>1, SideOfAlone
  <2>3. b.sides[label].archive = h.archive /\ b.sides[label].revision = Owning(d, h.archive)
    BY <2>2 DEF Side
  <2>4. PICK o \in Owning(d, h.archive) : o.sha = h.digest
    BY DEF PlannerRefuses
  <2>5. PICK r \in d.revisions :
           /\ Owning(d, h.archive) = {r} /\ r.archive = h.archive /\ r.state = "established"
           /\ \A q \in d.revisions : q.archive = h.archive => q = r
    BY <2>4, OwnerIsOnly
  <2>6. [archive |-> h.archive, digest |-> r.sha] \in d.hashes
    BY <2>4, <2>5 DEF OneRowEach
  <2> QED
    BY <1>1, <2>3, <2>5, <2>6
<1>2. CASE b.table \in {"archive_content_signatures", "page_inventory"}
  <2>1. PICK s \in d.signatures, basis \in {"field_seed", "single_revision_inherited"} :
           /\ b.sides = Alone(SignatureSide(d, s, basis))
           /\ b.table = "archive_content_signatures" => basis = "field_seed"
    BY <1>2, TableOf, SignatureBindingsLegal, InventoryBindingsLegal
  <2> DEFINE side == SignatureSide(d, s, basis)
  <2>2. b.sides[label] = side
    BY <2>1, SideOfAlone
  <2>3. s.archive \notin Drifted(d) /\ side = Resolved(d, s.archive, basis)
    BY <2>2 DEF SignatureSide, Side, SideBound, UnresolvedBases
  <2>4. OwnedOrNot(d, s.archive, side, basis)
    BY <2>3, ResolvedIs
  <2>5. PICK r \in d.revisions :
           /\ side.archive = s.archive
           /\ side.revision = {r} /\ r.archive = s.archive /\ r.state = "established"
           /\ r \in Owning(d, s.archive)
           /\ \A q \in d.revisions : q.archive = s.archive => q = r
    BY <2>1, <2>2, <2>4, OwnedIsKnown
  <2>6. r.signature = s.digest
    BY <2>3, <2>5 DEF PlannerRefuses
  <2>7. \A t \in d.signatures : t.archive = s.archive => Undrifted(d, t)
    BY <2>3 DEF Drifted, Undrifted
  <2> QED
    BY <1>2, <2>2, <2>5, <2>6, <2>7
<1>3. CASE b.table \in {"archive_inspections", "near_duplicate_candidates"}
  <2>1. PICK a : b.sides[label] = Resolved(d, a, "single_revision_inherited")
    <3>1. CASE b.table = "archive_inspections"
      <4>1. PICK a \in d.inspections :
               b = Binding("archive_inspections", <<a>>,
                      Alone(Resolved(d, a, "single_revision_inherited")), <<"unknown_legacy">>)
        BY <3>1, TableOf, InspectionBindingsLegal
      <4>2. b.sides = Alone(Resolved(d, a, "single_revision_inherited"))
        BY <4>1 DEF Binding
      <4> QED
        BY <4>2, SideOfAlone
    <3>2. CASE b.table = "near_duplicate_candidates"
      BY <3>2, TableOf, CandidateBindingsLegal
    <3> QED
      BY <1>3, <3>1, <3>2
  <2>2. OwnedOrNot(d, a, b.sides[label], "single_revision_inherited")
    BY <2>1, ResolvedIs
  <2> QED
    BY <1>3, <2>2, OwnedIsKnown
<1> QED
  BY <1>1, <1>2, <1>3, TableOf

(* What is written reads back.                                             *)
LEMMA LinesOf ==
  ASSUME NEW plan
  PROVE  Decoded(CsvOf(plan)) = plan.bindings
<1>1. \A b : Line(b, plan).binding = b
  BY DEF Line
<1>2. CsvOf(plan).lines = {Line(b, plan) : b \in plan.bindings}
  BY DEF CsvOf
<1> QED
  BY <1>1, <1>2 DEF Decoded

LEMMA PlanReadsBack ==
  ASSUME NEW d, OneRowEach(d), ~PlannerRefuses(d)
  PROVE  Accepted(EnvelopeOf(PlanOf(d)), CsvOf(PlanOf(d)))
<1> DEFINE plan == PlanOf(d)
           header == EnvelopeOf(plan)
           rows == CsvOf(plan)
<1>1. plan.bindings = Classification(d)
  BY DEF PlanOf
<1> HIDE DEF plan
<1>2. Decoded(rows) = plan.bindings
  BY LinesOf
<1>3. /\ header.there /\ header.csv = rows /\ header.snapshot = plan.snapshot
      /\ header.plan = PlanDigest(plan) /\ header.totals = Totals(plan.bindings)
      /\ header.unrevised = Cardinality(plan.unrevised)
      /\ header.failures = GateFailures(Totals(plan.bindings), Cardinality(plan.unrevised))
  BY DEF EnvelopeOf
<1>4. /\ rows.there /\ rows.repeated = {} /\ rows.lines = {Line(b, plan) : b \in plan.bindings}
  BY DEF CsvOf
<1> HIDE DEF header, rows
<1>5. \A b : /\ Line(b, plan).binding = b /\ Line(b, plan).bound = Bound(b)
             /\ Line(b, plan).snapshot = plan.snapshot /\ Line(b, plan).plan = PlanDigest(plan)
  BY DEF Line
<1>6. ASSUME NEW line \in rows.lines
      PROVE  /\ line.snapshot = header.snapshot /\ line.plan = header.plan
             /\ LegalBinding(line.binding) /\ line.bound = Bound(line.binding)
             /\ line.binding \in Classification(d) /\ line = Line(line.binding, plan)
  BY <1>1, <1>3, <1>4, <1>5, TableOf
<1>7. ASSUME NEW l \in rows.lines, NEW m \in rows.lines,
             l.binding.table = m.binding.table, l.binding.key = m.binding.key
      PROVE  l = m
  <2>1. l.binding = m.binding
    BY <1>6, <1>7, OneBindingEach
  <2> QED
    BY <1>6, <2>1
<1>8. LinesAgree(header, rows)
  BY <1>4, <1>6, <1>7 DEF LinesAgree
<1>9. CountsAgree(header, rows)
  BY <1>2, <1>3 DEF CountsAgree
<1> QED
  BY <1>2, <1>3, <1>4, <1>8, <1>9 DEF Accepted, PlanDigest, header, rows, plan

(* The invariant is what the properties need.                              *)
LEMMA PlannedSafely ==
  BackfillInv => BackfillSafety
<1> SUFFICES ASSUME BackfillInv PROVE BackfillSafety
  OBVIOUS
<1>1. ASSUME NEW i \in issued
      PROVE  /\ OneRowEach(i.from) /\ ~PlannerRefuses(i.from) /\ i.plan = PlanOf(i.from)
             /\ i.plan.bindings = Classification(i.from) /\ i.plan.snapshot = Snapshot(i.from)
  BY DEF BackfillInv, PlanOf
<1>2. DecidesEachRowOnce
  BY <1>1, EveryRowDecided, NothingElseDecided, OneBindingEach DEF DecidesEachRowOnce
<1>3. GuessesNothing
  <2>1. \A i \in issued : \A b \in i.plan.bindings : GuessesNothingOf(i.from, b)
    BY <1>1, NothingGuessed
  <2> QED
    BY <2>1, Zenon DEF GuessesNothing, GuessesNothingOf
<1>4. SameSnapshotSamePlan
  BY <1>1, RefusedTogether, PlannedAlike DEF SameSnapshotSamePlan
<1>5. WrittenReadsBack
  BY <1>1, PlanReadsBack DEF WrittenReadsBack
<1>6. ReadWasDrawn
  <2> SUFFICES ASSUME Accepted(envelope, csv)
               PROVE  /\ \E i \in issued :
                           /\ Decoded(csv) = i.plan.bindings
                           /\ envelope.snapshot = i.plan.snapshot
                           /\ envelope.totals = EnvelopeOf(i.plan).totals
                           /\ envelope.failures \ CensusGate
                                 = EnvelopeOf(i.plan).failures \ CensusGate
                      /\ CensusGate \subseteq envelope.failures <=> envelope.unrevised # 0
    BY DEF ReadWasDrawn
  <2>1. /\ envelope.there
        /\ Totals(Decoded(csv)) = envelope.totals
        /\ GateFailures(Totals(Decoded(csv)), envelope.unrevised) = envelope.failures
        /\ envelope.plan = <<Decoded(csv), envelope.snapshot>>
    BY DEF Accepted, CountsAgree
  <2>2. envelope # NoFiles
    BY <2>1 DEF NoFiles
  <2>3. PICK i \in issued : OfPlan(i.plan, envelope)
    BY <2>2 DEF BackfillInv
  <2>4. envelope.snapshot = i.plan.snapshot /\ envelope.plan = PlanDigest(i.plan)
    BY <2>3 DEF OfPlan, EnvelopeWith
  <2>5. Decoded(csv) = i.plan.bindings
    BY <2>1, <2>4 DEF PlanDigest
  <2>6. /\ EnvelopeOf(i.plan).totals = Totals(i.plan.bindings)
        /\ EnvelopeOf(i.plan).failures
             = GateFailures(Totals(i.plan.bindings), Cardinality(i.plan.unrevised))
    BY DEF EnvelopeOf
  <2> DEFINE gates(t) == {basis \in ProducerBases : t.sides[basis] > 0}
  <2>7. "archives_without_revision" \notin ProducerBases
    BY DEF ProducerBases
  <2>8. \A t, n : /\ GateFailures(t, n) \ CensusGate = gates(t)
                  /\ CensusGate \subseteq GateFailures(t, n) <=> n # 0
    BY <2>7 DEF GateFailures, CensusGate
  <2> HIDE DEF gates
  <2>9. envelope.failures \ CensusGate = EnvelopeOf(i.plan).failures \ CensusGate
    BY <2>1, <2>5, <2>6, <2>8
  <2>10. CensusGate \subseteq envelope.failures <=> envelope.unrevised # 0
    BY <2>1, <2>8
  <2> QED
    BY <2>1, <2>4, <2>5, <2>6, <2>9, <2>10
<1> QED
  BY <1>2, <1>3, <1>4, <1>5, <1>6 DEF BackfillSafety

(* The steps.                                                              *)
LEMMA RowsReplaced ==
  ASSUME NEW rows, NEW a, NEW new, new.archive = a,
         \A r, s \in rows : r.archive = s.archive => r = s
  PROVE  \A r, s \in OfOthers(rows, a) \cup {new} : r.archive = s.archive => r = s
BY DEF OfOthers

Columns == {"revisions", "hashes", "signatures", "pages", "inspections", "candidates", "located"}

LEMMA BackfillInitially ==
  BackfillInit => BackfillInv /\ DOMAIN provenance = Columns
<1> SUFFICES ASSUME BackfillInit PROVE BackfillInv /\ DOMAIN provenance = Columns
  OBVIOUS
<1>1. PICK past \in Pasts : provenance = Migrated(past)
  BY DEF BackfillInit
<1>2. DOMAIN provenance = Columns
  BY <1>1 DEF Migrated, Columns
<1>3. /\ provenance.hashes = {[archive |-> a, digest |-> past[a].hashed] :
                    a \in {a \in Owners : past[a].hashed # NoDigest}}
      /\ provenance.signatures = {SignatureRow(a, past[a].signed) :
                        a \in {a \in Owners : past[a].signed # NoDigest}}
  BY <1>1 DEF Migrated
<1>4. \A a, g : SignatureRow(a, g).archive = a
  BY DEF SignatureRow
<1>5. OneRowEach(provenance)
  BY <1>3, <1>4 DEF OneRowEach
<1> QED
  BY <1>2, <1>5 DEF BackfillInv, BackfillInit

LEMMA HeaderEdited ==
  ASSUME NEW b, NEW c, NEW x, NEW p, NEW t, NEW u, NEW f, NEW n,
         NEW header, header = [there |-> b, csv |-> c, snapshot |-> x, plan |-> p,
                               totals |-> t, unrevised |-> u, failures |-> f]
  PROVE  /\ [header EXCEPT !.csv = n]
              = [there |-> b, csv |-> n, snapshot |-> x, plan |-> p,
                 totals |-> t, unrevised |-> u, failures |-> f]
         /\ [header EXCEPT !.totals = n]
              = [there |-> b, csv |-> c, snapshot |-> x, plan |-> p,
                 totals |-> n, unrevised |-> u, failures |-> f]
         /\ [header EXCEPT !.unrevised = n]
              = [there |-> b, csv |-> c, snapshot |-> x, plan |-> p,
                 totals |-> t, unrevised |-> n, failures |-> f]
         /\ [header EXCEPT !.failures = n]
              = [there |-> b, csv |-> c, snapshot |-> x, plan |-> p,
                 totals |-> t, unrevised |-> u, failures |-> n]
<1>1. [header EXCEPT !.csv = n]
         = [there |-> b, csv |-> n, snapshot |-> x, plan |-> p,
                 totals |-> t, unrevised |-> u, failures |-> f]
  OBVIOUS
<1>2. [header EXCEPT !.totals = n]
         = [there |-> b, csv |-> c, snapshot |-> x, plan |-> p,
                 totals |-> n, unrevised |-> u, failures |-> f]
  OBVIOUS
<1>3. [header EXCEPT !.unrevised = n]
         = [there |-> b, csv |-> c, snapshot |-> x, plan |-> p,
                 totals |-> t, unrevised |-> n, failures |-> f]
  OBVIOUS
<1>4. [header EXCEPT !.failures = n]
         = [there |-> b, csv |-> c, snapshot |-> x, plan |-> p,
                 totals |-> t, unrevised |-> u, failures |-> n]
  OBVIOUS
<1> QED
  BY <1>1, <1>2, <1>3, <1>4

(* An edit of one field changes that argument.                             *)
LEMMA SumEdited ==
  ASSUME NEW plan, NEW c, NEW t, NEW u, NEW f, NEW n,
         NEW header, header = EnvelopeWith(plan, c, t, u, f)
  PROVE  [header EXCEPT !.csv = n] = EnvelopeWith(plan, n, t, u, f)
<1> DEFINE b == TRUE
           x == plan.snapshot
           p == PlanDigest(plan)
<1>1. \A d, e, h, g : EnvelopeWith(plan, d, e, h, g) =
         [there |-> b, csv |-> d, snapshot |-> x, plan |-> p,
          totals |-> e, unrevised |-> h, failures |-> g]
  BY DEF EnvelopeWith
<1> HIDE DEF b, x, p
<1>2. header = [there |-> b, csv |-> c, snapshot |-> x, plan |-> p,
                totals |-> t, unrevised |-> u, failures |-> f]
  BY <1>1
<1> QED
  BY <1>1, <1>2, HeaderEdited

LEMMA TotalsEdited ==
  ASSUME NEW plan, NEW c, NEW t, NEW u, NEW f, NEW n,
         NEW header, header = EnvelopeWith(plan, c, t, u, f)
  PROVE  [header EXCEPT !.totals = n] = EnvelopeWith(plan, c, n, u, f)
<1> DEFINE b == TRUE
           x == plan.snapshot
           p == PlanDigest(plan)
<1>1. \A d, e, h, g : EnvelopeWith(plan, d, e, h, g) =
         [there |-> b, csv |-> d, snapshot |-> x, plan |-> p,
          totals |-> e, unrevised |-> h, failures |-> g]
  BY DEF EnvelopeWith
<1> HIDE DEF b, x, p
<1>2. header = [there |-> b, csv |-> c, snapshot |-> x, plan |-> p,
                totals |-> t, unrevised |-> u, failures |-> f]
  BY <1>1
<1> QED
  BY <1>1, <1>2, HeaderEdited

LEMMA CensusEdited ==
  ASSUME NEW plan, NEW c, NEW t, NEW u, NEW f, NEW n,
         NEW header, header = EnvelopeWith(plan, c, t, u, f)
  PROVE  [header EXCEPT !.unrevised = n] = EnvelopeWith(plan, c, t, n, f)
<1> DEFINE b == TRUE
           x == plan.snapshot
           p == PlanDigest(plan)
<1>1. \A d, e, h, g : EnvelopeWith(plan, d, e, h, g) =
         [there |-> b, csv |-> d, snapshot |-> x, plan |-> p,
          totals |-> e, unrevised |-> h, failures |-> g]
  BY DEF EnvelopeWith
<1> HIDE DEF b, x, p
<1>2. header = [there |-> b, csv |-> c, snapshot |-> x, plan |-> p,
                totals |-> t, unrevised |-> u, failures |-> f]
  BY <1>1
<1> QED
  BY <1>1, <1>2, HeaderEdited

LEMMA FailuresEdited ==
  ASSUME NEW plan, NEW c, NEW t, NEW u, NEW f, NEW n,
         NEW header, header = EnvelopeWith(plan, c, t, u, f)
  PROVE  [header EXCEPT !.failures = n] = EnvelopeWith(plan, c, t, u, n)
<1> DEFINE b == TRUE
           x == plan.snapshot
           p == PlanDigest(plan)
<1>1. \A d, e, h, g : EnvelopeWith(plan, d, e, h, g) =
         [there |-> b, csv |-> d, snapshot |-> x, plan |-> p,
          totals |-> e, unrevised |-> h, failures |-> g]
  BY DEF EnvelopeWith
<1> HIDE DEF b, x, p
<1>2. header = [there |-> b, csv |-> c, snapshot |-> x, plan |-> p,
                totals |-> t, unrevised |-> u, failures |-> f]
  BY <1>1
<1> QED
  BY <1>1, <1>2, HeaderEdited

LEMMA FittedIsDrawn ==
  ASSUME NEW header, NEW rows, NEW fitted \in FittedTo(header, rows),
         NEW plan, OfPlan(plan, header)
  PROVE  OfPlan(plan, fitted)
<1> DEFINE With(c, t, u, f) == EnvelopeWith(plan, c, t, u, f)
           summed == [header EXCEPT !.csv = rows]
           counts == Totals(Decoded(rows))
           counted == [summed EXCEPT !.totals = counts]
           Refit(n) == [counted EXCEPT !.unrevised = n,
                                       !.failures = GateFailures(counted.totals, n)]
<1>1. \A c, t, u, f : /\ With(c, t, u, f).csv = c /\ With(c, t, u, f).totals = t
                      /\ With(c, t, u, f).unrevised = u /\ With(c, t, u, f).failures = f
  BY DEF EnvelopeWith
<1>2. header = With(header.csv, header.totals, header.unrevised, header.failures)
  BY DEF OfPlan
<1>3. summed = With(rows, header.totals, header.unrevised, header.failures)
  BY <1>2, SumEdited
<1>4. \/ fitted \in {header, summed, counted, [counted EXCEPT !.failures = {}]}
      \/ \E n : fitted = Refit(n)
  BY DEF FittedTo
<1> HIDE DEF summed, counts
<1>5. counted = With(rows, counts, header.unrevised, header.failures)
  BY <1>3, TotalsEdited
<1> HIDE DEF counted
<1>6. [counted EXCEPT !.failures = {}] = With(rows, counts, header.unrevised, {})
  BY <1>5, FailuresEdited
<1>7. \A n : Refit(n) = With(rows, counts, n, GateFailures(counted.totals, n))
  <2> TAKE n
  <2> DEFINE gates == GateFailures(counted.totals, n)
             census == [counted EXCEPT !.unrevised = n]
  <2> HIDE DEF gates
  <2>1. census = With(rows, counts, n, header.failures)
    BY <1>5, CensusEdited
  <2>2. [counted EXCEPT !.unrevised = n, !.failures = gates] = [census EXCEPT !.failures = gates]
    OBVIOUS
  <2> HIDE DEF census
  <2>3. [census EXCEPT !.failures = gates] = With(rows, counts, n, gates)
    BY <2>1, FailuresEdited
  <2> QED
    BY <2>2, <2>3 DEF gates
<1>8. \E c, t, u, f : fitted = With(c, t, u, f)
  <2> HIDE DEF With, Refit
  <2>1. CASE fitted \in {header, summed, counted, [counted EXCEPT !.failures = {}]}
    BY <1>2, <1>3, <1>5, <1>6, <2>1
  <2>2. CASE \E n : fitted = Refit(n)
    BY <1>7, <2>2
  <2> QED
    BY <1>4, <2>1, <2>2
<1> HIDE DEF With
<1>9. fitted = With(fitted.csv, fitted.totals, fitted.unrevised, fitted.failures)
  BY <1>1, <1>8
<1> QED
  BY <1>9 DEF With, OfPlan

LEMMA NoFilesFit ==
  ASSUME NEW rows, NEW fitted \in FittedTo(NoFiles, rows)
  PROVE  fitted = NoFiles
<1> DEFINE summed == [NoFiles EXCEPT !.csv = rows]
           counted == [summed EXCEPT !.totals = Totals(Decoded(rows))]
           Refit(n) == [counted EXCEPT !.unrevised = n,
                                       !.failures = GateFailures(counted.totals, n)]
<1>1. \A v : [NoFiles EXCEPT !.csv = v] = NoFiles
  BY DEF NoFiles
<1>2. \A v : [NoFiles EXCEPT !.totals = v] = NoFiles
  BY DEF NoFiles
<1>3. \A v, n : /\ [NoFiles EXCEPT !.failures = v] = NoFiles
                /\ [NoFiles EXCEPT !.unrevised = n, !.failures = v] = NoFiles
  BY DEF NoFiles
<1>4. \/ fitted \in {NoFiles, summed, counted, [counted EXCEPT !.failures = {}]}
      \/ \E n : fitted = Refit(n)
  BY DEF FittedTo
<1>5. summed = NoFiles
  BY <1>1
<1> HIDE DEF summed
<1>6. counted = NoFiles
  BY <1>2, <1>5
<1> HIDE DEF counted
<1>7. \A v, n : /\ [counted EXCEPT !.failures = v] = NoFiles
                /\ [counted EXCEPT !.unrevised = n, !.failures = v] = NoFiles
  BY <1>3, <1>6
<1> QED
  BY <1>4, <1>5, <1>6, <1>7

LEMMA BackfillSteps ==
  BackfillInv /\ DOMAIN provenance = Columns /\ [BackfillNext]_backfillVars
    => (BackfillInv /\ DOMAIN provenance = Columns)'
<1> SUFFICES ASSUME BackfillInv, DOMAIN provenance = Columns, [BackfillNext]_backfillVars
             PROVE  BackfillInv' /\ DOMAIN provenance' = Columns
  OBVIOUS
<1> DEFINE RowsStay == OneRowEach(provenance') /\ DOMAIN provenance' = Columns
<1>1. RowsStay /\ UNCHANGED <<issued, envelope, csv>> => BackfillInv' /\ DOMAIN provenance' = Columns
  BY DEF BackfillInv
<1>2. ASSUME NEW a \in Owners, Hashes(a) PROVE BackfillInv' /\ DOMAIN provenance' = Columns
  <2> DEFINE g == fileHolds[a]
             new == [archive |-> a, digest |-> g]
  <2>1. /\ provenance'.hashes = OfOthers(provenance.hashes, a) \cup {new}
        /\ provenance'.signatures = provenance.signatures
        /\ DOMAIN provenance' = Columns /\ UNCHANGED <<issued, envelope, csv>>
    BY <1>2 DEF Hashes, Produces, Columns
  <2>2. \A h, k \in provenance'.hashes : h.archive = k.archive => h = k
    BY <2>1, RowsReplaced DEF BackfillInv, OneRowEach
  <2>3. \A h \in provenance'.hashes : h = [archive |-> h.archive, digest |-> h.digest]
    BY <2>1 DEF BackfillInv, OneRowEach, OfOthers
  <2>4. RowsStay
    BY <2>1, <2>2, <2>3 DEF BackfillInv, OneRowEach
  <2> QED
    BY <1>1, <2>1, <2>4
<1>3. ASSUME NEW a \in Owners, Signs(a) PROVE BackfillInv' /\ DOMAIN provenance' = Columns
  <2> DEFINE new == SignatureRow(a, fileHolds[a])
  <2>1. /\ provenance'.hashes = provenance.hashes
        /\ provenance'.signatures = OfOthers(provenance.signatures, a) \cup {new}
        /\ DOMAIN provenance' = Columns /\ UNCHANGED <<issued, envelope, csv>>
    BY <1>3 DEF Signs, Produces, Columns
  <2>2. new.archive = a
    BY DEF SignatureRow
  <2> HIDE DEF new
  <2>3. \A s, t \in provenance'.signatures : s.archive = t.archive => s = t
    BY <2>1, <2>2, RowsReplaced DEF BackfillInv, OneRowEach
  <2>4. RowsStay
    BY <2>1, <2>3 DEF BackfillInv, OneRowEach
  <2> QED
    BY <1>1, <2>1, <2>4
<1>4. ASSUME /\ provenance'.hashes = provenance.hashes
             /\ provenance'.signatures \subseteq provenance.signatures
             /\ DOMAIN provenance' = Columns /\ UNCHANGED <<issued, envelope, csv>>
      PROVE  BackfillInv' /\ DOMAIN provenance' = Columns
  <2>1. RowsStay
    BY <1>4 DEF BackfillInv, OneRowEach
  <2> QED
    BY <1>1, <1>4, <2>1
<1>5. ASSUME NEW a \in Owners, Inspects(a) PROVE BackfillInv' /\ DOMAIN provenance' = Columns
  BY <1>4, <1>5 DEF Inspects, Produces, Columns
<1>6. ASSUME NEW a \in Owners, NEW b \in Owners, Compares(a, b)
      PROVE  BackfillInv' /\ DOMAIN provenance' = Columns
  BY <1>4, <1>6 DEF Compares, Produces, Columns
<1>7. ASSUME NEW a \in Owners, NEW g \in Generations, Replaces(a, g)
      PROVE  BackfillInv' /\ DOMAIN provenance' = Columns
  BY <1>4, <1>7 DEF Replaces, Produces, Columns
<1>8. ASSUME NEW a \in Owners, Meddles(a) PROVE BackfillInv' /\ DOMAIN provenance' = Columns
  <2>1. CASE \E p \in provenance.pages : Produces([provenance EXCEPT !.pages = @ \ {p}])
    BY <1>4, <2>1 DEF Produces, Columns
  <2>2. CASE \E p \in provenance.pages :
               Produces([provenance EXCEPT !.pages = (@ \ {p}) \cup {[p EXCEPT !.at = NoPlace]}])
    <3>1. PICK p \in provenance.pages :
               Produces([provenance EXCEPT !.pages = (@ \ {p}) \cup {[p EXCEPT !.at = NoPlace]}])
      BY <2>2
    <3> DEFINE pages == (provenance.pages \ {p}) \cup {[p EXCEPT !.at = NoPlace]}
    <3>2. /\ provenance' = [provenance EXCEPT !.pages = pages]
          /\ UNCHANGED <<issued, envelope, csv>>
      BY <3>1 DEF Produces
    <3> HIDE DEF pages
    <3> QED
      BY <1>4, <3>2 DEF Columns
  <2>3. CASE Produces([provenance EXCEPT !.signatures = OfOthers(@, a)])
    BY <1>4, <2>3 DEF Produces, Columns, OfOthers
  <2> QED
    BY <1>8, <2>1, <2>2, <2>3 DEF Meddles
<1>9. CASE DrawsPlan
  <2>1. CASE PlannerRefuses(provenance)
    BY <1>9, <2>1 DEF DrawsPlan, BackfillInv
  <2>2. CASE ~PlannerRefuses(provenance)
    <3> DEFINE plan == PlanOf(provenance)
               new == [from |-> provenance, plan |-> plan]
    <3>1. /\ issued' = issued \cup {new} /\ envelope' = EnvelopeOf(plan)
          /\ UNCHANGED provenance
      BY <1>9, <2>2 DEF DrawsPlan
    <3>2. new.from = provenance /\ new.plan = PlanOf(provenance)
      OBVIOUS
    <3> HIDE DEF new, plan
    <3>3. \A i \in issued' : OneRowEach(i.from) /\ ~PlannerRefuses(i.from) /\ i.plan = PlanOf(i.from)
      BY <2>2, <3>1, <3>2 DEF BackfillInv
    <3>4. new.plan = plan
      BY <3>2 DEF plan
    <3>5. OfPlan(plan, envelope')
      BY <3>1 DEF EnvelopeOf, EnvelopeWith, OfPlan
    <3>6. new \in issued'
      BY <3>1
    <3> QED
      BY <3>1, <3>3, <3>4, <3>5, <3>6 DEF BackfillInv
  <2> QED
    BY <2>1, <2>2
<1>10. CASE EditsFiles
  <2>1. /\ envelope' \in FittedTo(envelope, csv') \cup {EnvelopeOf(i.plan) : i \in issued}
        /\ UNCHANGED <<provenance, issued>>
    BY <1>10 DEF EditsFiles
  <2>2. CASE envelope' \in FittedTo(envelope, csv')
    <3>1. CASE envelope = NoFiles
      BY <2>1, <2>2, <3>1, NoFilesFit DEF BackfillInv
    <3>2. CASE envelope # NoFiles
      <4>1. PICK i \in issued : OfPlan(i.plan, envelope)
        BY <3>2 DEF BackfillInv
      <4>2. OfPlan(i.plan, envelope')
        BY <2>2, <4>1, FittedIsDrawn
      <4> QED
        BY <2>1, <4>2 DEF BackfillInv
    <3> QED
      BY <3>1, <3>2
  <2>3. CASE envelope' \in {EnvelopeOf(i.plan) : i \in issued}
    <3>1. PICK i \in issued : envelope' = EnvelopeOf(i.plan)
      BY <2>3
    <3>2. OfPlan(i.plan, envelope')
      BY <3>1 DEF EnvelopeOf, EnvelopeWith, OfPlan
    <3> QED
      BY <2>1, <3>2 DEF BackfillInv
  <2> QED
    BY <2>1, <2>2, <2>3
<1>11. CASE UNCHANGED backfillVars
  BY <1>11 DEF backfillVars, BackfillInv
<1> QED
  BY <1>2, <1>3, <1>5, <1>6, <1>7, <1>8, <1>9, <1>10, <1>11 DEF BackfillNext

\* Whatever was written before and after migration 014, each row of evidence is
\* planned once and bound to nothing that is not known; equal snapshots are given
\* equal plans; and only what was drawn is read back, however files were edited.
THEOREM BackfillSafetyAlways == BackfillSpec => []BackfillSafety
<1>1. BackfillInit => BackfillInv /\ DOMAIN provenance = Columns
  BY BackfillInitially
<1>2. BackfillInv /\ DOMAIN provenance = Columns /\ [BackfillNext]_backfillVars
        => (BackfillInv /\ DOMAIN provenance = Columns)'
  BY BackfillSteps
<1>3. BackfillInv => BackfillSafety
  BY PlannedSafely
<1> QED
  BY <1>1, <1>2, <1>3, PTL DEF BackfillSpec

-----------------------------------------------------------------------------
(* Page-order signatures                                                   *)

(* The least of a set of numbers.                                          *)
LEMMA LeastExists ==
  ASSUME NEW S, S \subseteq Nat, S # {}
  PROVE  \E k \in S : \A l \in S : k <= l
<1>1. PICK k \in S : \A l \in S : <<l, k>> \notin OpToRel(<, Nat)
  BY NatLessThanWellFounded, WFMin
<1>2. k \in Nat /\ \A l \in S : l \in Nat /\ ~(l < k)
  BY <1>1 DEF OpToRel
<1>3. \A l \in S : k <= l
  BY <1>2
<1> QED
  BY <1>3

Named == DOMAIN KeyOf

LEMMA PageOrderIsTotal ==
  ASSUME NEW m \in Named, NEW n \in Named
  PROVE  /\ InPageOrder(m, m)
         /\ InPageOrder(m, n) \/ InPageOrder(n, m)
         /\ InPageOrder(m, n) /\ InPageOrder(n, m) => m = n
<1>1. m \in Nat /\ n \in Nat /\ KeyOf[m] \in Nat /\ KeyOf[n] \in Nat
  BY PagesAssumption DEF Named
<1> QED
  BY <1>1 DEF InPageOrder

LEMMA PageOrderIsTransitive ==
  ASSUME NEW l \in Named, NEW m \in Named, NEW n \in Named, InPageOrder(l, m), InPageOrder(m, n)
  PROVE  InPageOrder(l, n)
<1>1. /\ l \in Nat /\ m \in Nat /\ n \in Nat
      /\ KeyOf[l] \in Nat /\ KeyOf[m] \in Nat /\ KeyOf[n] \in Nat
  BY PagesAssumption DEF Named
<1> QED
  BY <1>1 DEF InPageOrder

(* The first page of several.                                              *)
LEMMA FirstPage ==
  ASSUME NEW S, S \subseteq Named, S # {}
  PROVE  \E m \in S : \A n \in S : InPageOrder(m, n)
<1> DEFINE Keys == {KeyOf[n] : n \in S}
<1>1. \A n \in S : n \in Nat /\ KeyOf[n] \in Nat
  BY PagesAssumption DEF Named
<1>2. Keys \subseteq Nat /\ Keys # {}
  BY <1>1
<1>3. PICK k \in Keys : \A l \in Keys : k <= l
  <2> HIDE DEF Keys
  <2> QED
    BY <1>2, LeastExists
<1> DEFINE T == {n \in S : KeyOf[n] = k}
<1>4. T \subseteq Nat /\ T # {}
  BY <1>1
<1>5. PICK m \in T : \A n \in T : m <= n
  <2> HIDE DEF T
  <2> QED
    BY <1>4, LeastExists
<1>6. m \in S /\ KeyOf[m] = k
  OBVIOUS
<1>7. ASSUME NEW n \in S PROVE InPageOrder(m, n)
  <2>1. KeyOf[n] \in Nat /\ k \in Nat /\ k <= KeyOf[n]
    BY <1>1, <1>2, <1>3
  <2>2. KeyOf[n] = k => m <= n
    BY <1>5
  <2> HIDE DEF T
  <2> QED
    BY <1>6, <2>1, <2>2 DEF InPageOrder
<1> QED
  BY <1>6, <1>7

(* The first m pages are in their places: nothing that follows is before.  *)
InPlace(names, f, m) ==
  \A i, j \in DOMAIN names : i <= m /\ i < j => InPageOrder(names[f[i]], names[f[j]])
Sorting(names, m) ==
  \E f \in [DOMAIN names -> DOMAIN names] : IsInjective(f) /\ InPlace(names, f, m)

LEMMA SortingGoesOn ==
  ASSUME NEW names \in Seq(Named), NEW m \in Nat, m + 1 \in 1..Len(names), Sorting(names, m)
  PROVE  Sorting(names, m + 1)
<1> DEFINE D == DOMAIN names
           n == Len(names)
           c == m + 1
<1>1. D = 1..n /\ n \in Nat /\ c \in D /\ \A i \in D : i \in Nat /\ names[i] \in Named
  OBVIOUS
<1>2. PICK f \in [D -> D] : IsInjective(f) /\ InPlace(names, f, m)
  BY DEF Sorting
<1> DEFINE S == {names[f[i]] : i \in c..n}
<1>3. S \subseteq Named /\ S # {} /\ c..n \subseteq D /\ c \in c..n
  <2>1. c..n \subseteq D /\ c \in c..n
    BY <1>1
  <2> HIDE DEF c, n, D
  <2> QED
    BY <1>1, <1>2, <2>1
<1>4. PICK p \in S : \A q \in S : InPageOrder(p, q)
  <2> HIDE DEF S
  <2> QED
    BY <1>3, FirstPage
<1>5. PICK b \in c..n : p = names[f[b]]
  BY <1>4
<1>6. b \in D /\ \A i \in c..n : InPageOrder(names[f[b]], names[f[i]])
  BY <1>3, <1>4, <1>5
<1> DEFINE At(i) == IF i = c THEN b ELSE IF i = b THEN c ELSE i
           g == [i \in D |-> f[At(i)]]
<1>7. \A i \in D : At(i) \in D
  BY <1>1, <1>6
<1>8. \A i, j \in D : At(i) = At(j) => i = j
  BY <1>1, <1>6
<1>9. \A i \in D : i < c => At(i) = i
  BY <1>1, <1>5
<1>10. \A i, j \in D : i < c /\ i < j => i < At(j)
  BY <1>1, <1>5
<1>11. \A j \in D : c < j => At(j) \in c..n
  <2>1. \A j \in D : c < j => j \in c..n
    BY <1>1
  <2> HIDE DEF c, n, D
  <2> QED
    BY <1>3, <1>5, <2>1
<1>12. At(c) = b
  OBVIOUS
<1> HIDE DEF D, S, At, n
<1>13. g \in [D -> D] /\ \A i \in D : g[i] = f[At(i)]
  BY <1>2, <1>7
<1>14. IsInjective(g)
  BY <1>2, <1>7, <1>8, <1>13 DEF IsInjective
<1>15. ASSUME NEW i \in D, NEW j \in D, i <= c, i < j
       PROVE  InPageOrder(names[g[i]], names[g[j]])
  <2>1. CASE i < c
    <3>1. i <= m
      BY <1>1, <2>1
    <3>2. At(i) = i /\ i < At(j) /\ At(j) \in D
      BY <1>7, <1>9, <1>10, <1>15, <2>1
    <3>3. InPageOrder(names[f[i]], names[f[At(j)]])
      BY <1>2, <3>1, <3>2 DEF InPlace, D
    <3> QED
      BY <1>13, <3>2, <3>3
  <2>2. CASE i = c
    <3>1. At(j) \in c..n
      BY <1>11, <1>15, <2>2
    <3> QED
      BY <1>6, <1>12, <1>13, <2>2, <3>1
  <2> QED
    BY <1>1, <1>15, <2>1, <2>2
<1> HIDE DEF g
<1>16. InPlace(names, g, c)
  BY <1>15 DEF InPlace, D
<1> QED
  BY <1>13, <1>14, <1>16 DEF Sorting, D

LEMMA SortingEnds ==
  ASSUME NEW names \in Seq(Named)
  PROVE  Sorting(names, Len(names))
<1> DEFINE T == {m \in 0..Len(names) : ~Sorting(names, m)}
<1>1. Sorting(names, 0)
  <2> DEFINE f == [i \in DOMAIN names |-> i]
  <2>1. f \in [DOMAIN names -> DOMAIN names] /\ IsInjective(f)
    BY DEF IsInjective
  <2>2. InPlace(names, f, 0)
    BY DEF InPlace
  <2> QED
    BY <2>1, <2>2 DEF Sorting
<1>2. SUFFICES ASSUME T # {} PROVE FALSE
  OBVIOUS
<1>3. PICK m \in T : \A l \in T : m <= l
  <2>1. T \subseteq Nat
    OBVIOUS
  <2> HIDE DEF T
  <2> QED
    BY <1>2, <2>1, LeastExists
<1>4. m \in Nat /\ m <= Len(names) /\ ~Sorting(names, m) /\ m # 0
  BY <1>1
<1>5. m - 1 \in 0..Len(names) /\ (m - 1) + 1 = m /\ m \in 1..Len(names) /\ ~(m <= m - 1)
  BY <1>4
<1>6. Sorting(names, m - 1)
  BY <1>3, <1>5
<1> QED
  BY <1>4, <1>5, <1>6, SortingGoesOn

(* PageOrder is an order of the names it is given.                         *)
Permutes(order, names) ==
  order \in [DOMAIN names -> DOMAIN names] /\ IsInjective(order)
LEMMA PageOrderIs ==
  ASSUME NEW names \in Seq(Named)
  PROVE  \E order : /\ Permutes(order, names)
                    /\ PageOrder(names) = [i \in DOMAIN names |-> names[order[i]]]
                    /\ Ordered([i \in DOMAIN names |-> names[order[i]]])
<1> DEFINE orders == {f \in [DOMAIN names -> DOMAIN names] : IsInjective(f)}
           Good(f) == Ordered([i \in DOMAIN names |-> names[f[i]]])
           order == CHOOSE f \in orders : Good(f)
<1>1. \E f \in orders : Good(f)
  <2>1. PICK f \in [DOMAIN names -> DOMAIN names] : IsInjective(f) /\ InPlace(names, f, Len(names))
    BY SortingEnds DEF Sorting
  <2> DEFINE t == [i \in DOMAIN names |-> names[f[i]]]
  <2>2. DOMAIN t = DOMAIN names /\ \A i \in DOMAIN names : t[i] = names[f[i]] /\ i <= Len(names)
    OBVIOUS
  <2>3. \A i, j \in DOMAIN names : i < j => InPageOrder(t[i], t[j])
    BY <2>1, <2>2 DEF InPlace
  <2> HIDE DEF t
  <2>4. Ordered(t)
    BY <2>2, <2>3 DEF Ordered
  <2> QED
    BY <2>1, <2>4 DEF t
<1>2. order \in orders /\ Good(order)
  <2> HIDE DEF orders, Good
  <2> QED
    BY <1>1
<1>3. PageOrder(names) = [i \in DOMAIN names |-> names[order[i]]]
  BY DEF PageOrder
<1> HIDE DEF order
<1> QED
  BY <1>2, <1>3 DEF Permutes

LEMMA PageOrderTyped ==
  ASSUME NEW names \in Seq(Named)
  PROVE  /\ PageOrder(names) \in Seq(Named) /\ DOMAIN PageOrder(names) = DOMAIN names
         /\ Ordered(PageOrder(names))
         /\ ~Repeats(names) => ~Repeats(PageOrder(names))
<1>1. PICK order : /\ Permutes(order, names)
                   /\ PageOrder(names) = [i \in DOMAIN names |-> names[order[i]]]
                   /\ Ordered([i \in DOMAIN names |-> names[order[i]]])
  BY PageOrderIs
<1>2. \A i \in DOMAIN names : order[i] \in DOMAIN names /\ names[order[i]] \in Named
  BY <1>1 DEF Permutes
<1>3. PageOrder(names) \in [1..Len(names) -> Named] /\ DOMAIN names = 1..Len(names)
  BY <1>1, <1>2
<1>4. PageOrder(names) \in Seq(Named)
  BY <1>3
<1>5. ASSUME ~Repeats(names) PROVE IsInjective(PageOrder(names))
  BY <1>1, <1>2, <1>5 DEF Repeats, IsInjective, Permutes
<1> QED
  BY <1>1, <1>3, <1>4, <1>5 DEF Repeats

(* Numbers that increase from 1 to n are each at their place.              *)
LEMMA IncreasingIsIdentity ==
  ASSUME NEW n \in Nat, NEW g \in [1..n -> 1..n], \A i, j \in 1..n : i < j => g[i] < g[j]
  PROVE  \A i \in 1..n : g[i] = i
<1>1. \A i \in 1..n : g[i] \in Nat /\ g[i] >= 1 /\ g[i] <= n
  OBVIOUS
<1>2. ASSUME NEW i \in 1..n, g[i] < i PROVE FALSE
  <2> DEFINE T == {k \in 1..n : g[k] < k}
  <2>1. T \subseteq Nat /\ T # {}
    BY <1>2
  <2>2. PICK k \in T : \A l \in T : k <= l
    <3> HIDE DEF T
    <3> QED
      BY <2>1, LeastExists
  <2>3. k \in 1..n /\ g[k] < k
    BY <2>2
  <2>4. k # 1
    BY <1>1, <2>3
  <2>5. k - 1 \in 1..n /\ k - 1 < k /\ ~(k <= k - 1)
    BY <2>3, <2>4
  <2>6. ~(g[k - 1] < k - 1)
    BY <2>2, <2>5
  <2>7. g[k - 1] < g[k]
    BY <2>3, <2>5
  <2> QED
    BY <1>1, <2>3, <2>5, <2>6, <2>7
<1>3. ASSUME NEW i \in 1..n, i < g[i] PROVE FALSE
  <2> DEFINE T == {k \in 0..n - 1 : n - k < g[n - k]}
  <2>1. n - i \in T
    <3>1. n - i \in 0..n - 1 /\ n - (n - i) = i
      BY <1>3
    <3> QED
      BY <1>3, <3>1
  <2>2. PICK k \in T : \A l \in T : k <= l
    <3>1. T \subseteq Nat
      OBVIOUS
    <3> HIDE DEF T
    <3> QED
      BY <2>1, <3>1, LeastExists
  <2>3. k \in 0..n - 1 /\ n - k \in 1..n /\ n - k < g[n - k]
    BY <2>2
  <2>4. k # 0
    BY <1>1, <2>3
  <2>5. k - 1 \in 0..n - 1 /\ ~(k <= k - 1) /\ n - (k - 1) \in 1..n /\ n - k < n - (k - 1)
    BY <2>3, <2>4
  <2>6. ~(n - (k - 1) < g[n - (k - 1)])
    BY <2>2, <2>5
  <2>7. g[n - k] < g[n - (k - 1)]
    BY <2>3, <2>5
  <2> DEFINE a == g[n - k]
             b == g[n - (k - 1)]
  <2>8. a \in Nat /\ b \in Nat
    BY <1>1, <2>3, <2>5
  <2> HIDE DEF a, b
  <2>9. a < b /\ n - k < a /\ ~(n - (k - 1) < b)
    BY <2>3, <2>6, <2>7 DEF a, b
  <2> QED
    BY <2>3, <2>5, <2>8, <2>9
<1> QED
  BY <1>1, <1>2, <1>3

(* Names without repeats that are in page order are their own page order.  *)
LEMMA PageOrderSettles ==
  ASSUME NEW names \in Seq(Named), Ordered(names), ~Repeats(names)
  PROVE  PageOrder(names) = names
<1>1. PICK g : /\ Permutes(g, names)
               /\ PageOrder(names) = [i \in DOMAIN names |-> names[g[i]]]
               /\ Ordered([i \in DOMAIN names |-> names[g[i]]])
  BY PageOrderIs
<1> DEFINE n == Len(names)
<1>2. n \in Nat /\ DOMAIN names = 1..n /\ g \in [1..n -> 1..n] /\ \A i \in 1..n : names[i] \in Named
  BY <1>1 DEF Permutes
<1>3. IsInjective(g) /\ IsInjective(names)
  BY <1>1 DEF Permutes, Repeats
<1> HIDE DEF n
<1>4. ASSUME NEW i \in 1..n, NEW j \in 1..n, i < j PROVE g[i] < g[j]
  <2>1. g[i] \in 1..n /\ g[j] \in 1..n /\ g[i] \in Nat /\ g[j] \in Nat /\ i # j
    BY <1>2, <1>4
  <2>2. InPageOrder(names[g[i]], names[g[j]])
    <3> DEFINE t == [k \in DOMAIN names |-> names[g[k]]]
    <3>1. t[i] = names[g[i]] /\ t[j] = names[g[j]] /\ DOMAIN t = 1..n
      BY <1>2
    <3> HIDE DEF t
    <3>2. Ordered(t)
      BY <1>1 DEF t
    <3> QED
      BY <1>4, <3>1, <3>2 DEF Ordered
  <2>3. g[i] # g[j]
    BY <1>2, <1>3, <2>1 DEF IsInjective
  <2>4. names[g[i]] # names[g[j]]
    BY <1>2, <1>3, <2>1, <2>3 DEF IsInjective
  <2>5. ASSUME g[j] < g[i] PROVE FALSE
    <3>1. InPageOrder(names[g[j]], names[g[i]])
      BY <1>2, <2>1, <2>5 DEF Ordered
    <3> QED
      BY <1>2, <2>1, <2>2, <2>4, <3>1, PageOrderIsTotal
  <2> QED
    BY <2>1, <2>3, <2>5
<1>5. \A i \in 1..n : g[i] = i
  BY <1>2, <1>4, IncreasingIsIdentity
<1>6. names = [i \in 1..n |-> names[i]]
  BY <1>2
<1> QED
  BY <1>1, <1>2, <1>5, <1>6

(* A signature table, and the digest of its rows of version 2.             *)
IsRow(row) ==
  /\ row = [version |-> row.version, names |-> row.names, digest |-> row.digest, stamp |-> row.stamp]
  /\ row.digest = [order |-> row.digest.order, edition |-> row.digest.edition]
  /\ row.version \in {1, 2} /\ row.names \in Seq(Named)
  /\ row.version = 2 => row.digest.order = PageOrder(row.names)
IsTable(table) ==
  /\ table = [a \in Signed |-> table[a]]
  /\ \A a \in Signed : IsRow(table[a])

WindowBefore ==
  /\ apply.window.inode \in Nat /\ apply.window.version \in Nat
  /\ apply.window.inode <= artifact.inode
  /\ apply.window.inode = artifact.inode => apply.window.version <= artifact.version
ArtifactHolds ==
  /\ artifact = [inode |-> artifact.inode, stamp |-> artifact.stamp,
                 version |-> artifact.version, rows |-> artifact.rows]
  /\ artifact.inode \in Nat /\ artifact.version \in Nat
  /\ artifact.inode # 0 => /\ artifact.rows = [table |-> artifact.rows.table,
                                               recorded |-> artifact.rows.recorded]
                           /\ IsTable(artifact.rows.table)

(* A window in force is on the backup the plan was made again from, and    *)
(* what is relabelled is, under the lock, still as it was planned.         *)
Reviewed(a) == a \in Planned /\ PlannedOutcome(a) = "legacy_as_planned"
ApplyHolds ==
  \/ apply = Closed
  \/ /\ apply = [at |-> apply.at, window |-> apply.window]
     /\ apply.at \in {"opened", "verified"}
  \/ /\ apply = [at |-> apply.at, window |-> apply.window, left |-> apply.left,
                 relabelled |-> apply.relabelled]
     /\ apply.at \in {"locked", "committing"}
     /\ apply.left \subseteq Planned
     /\ \A a \in apply.relabelled : Reviewed(a)
PreimageHolds ==
  apply.at \in {"verified", "locked"} /\ WindowHolds =>
    Classes(artifact.rows.table, artifact.rows.recorded) = approved.classes
ApplyOpen ==
  apply # Closed => approved.made /\ artifact.inode # 0 /\ WindowBefore
RecertifyInv ==
  /\ IsTable(signatures) /\ ArtifactHolds /\ ApplyHolds /\ ApplyOpen /\ PreimageHolds

LEMMA ApplyAt ==
  ASSUME ApplyHolds
  PROVE  /\ apply.at \in {"idle", "opened", "verified", "locked", "committing"}
         /\ apply.at = "idle" <=> apply = Closed
BY DEF ApplyHolds, Closed

LEMMA OldRow ==
  ASSUME NEW names \in Seq(Named), NEW order
  PROVE  IsRow([version |-> 1, names |-> names,
                digest |-> [order |-> order, edition |-> 0], stamp |-> 0])
BY DEF IsRow

LEMMA NewRow ==
  ASSUME NEW names \in Seq(Named), ~Repeats(names), NEW stamp
  PROVE  IsRow([version |-> 2, names |-> PageOrder(names),
                digest |-> [order |-> PageOrder(names), edition |-> stamp], stamp |-> stamp])
<1> DEFINE t == PageOrder(names)
<1>1. t \in Seq(Named) /\ Ordered(t) /\ ~Repeats(t)
  BY PageOrderTyped
<1> HIDE DEF t
<1>2. PageOrder(t) = t
  BY <1>1, PageOrderSettles
<1>3. IsRow([version |-> 2, names |-> t, digest |-> [order |-> t, edition |-> stamp],
             stamp |-> stamp])
  BY <1>1, <1>2 DEF IsRow
<1> QED
  BY <1>3 DEF t

LEMMA RecertifyInvInit == RecertifyInit => RecertifyInv
<1> SUFFICES ASSUME RecertifyInit PROVE RecertifyInv
  OBVIOUS
<1>1. apply = Closed /\ artifact = NoLabels
  BY DEF RecertifyInit
<1>2. ApplyHolds /\ ApplyOpen /\ PreimageHolds /\ ArtifactHolds
  BY <1>1 DEF ApplyHolds, ApplyOpen, PreimageHolds, ArtifactHolds, Closed, NoLabels
<1>3. \A a \in Signed : Legacy[a].names \in Seq(Named)
  BY PagesAssumption DEF Named
<1>4. signatures = [a \in Signed |->
         [version |-> 1, names |-> Legacy[a].names,
          digest |-> [order |-> Legacy[a].order, edition |-> 0], stamp |-> 0]]
  BY DEF RecertifyInit
<1>5. \A a \in Signed : IsRow(signatures[a])
  <2> TAKE a \in Signed
  <2>1. signatures[a] = [version |-> 1, names |-> Legacy[a].names,
                         digest |-> [order |-> Legacy[a].order, edition |-> 0], stamp |-> 0]
    BY <1>4
  <2> QED
    BY <1>3, <2>1, OldRow
<1>6. signatures = [a \in Signed |-> signatures[a]]
  BY <1>4
<1> QED
  BY <1>2, <1>5, <1>6 DEF RecertifyInv, IsTable

(* While nobody applies, only the tables and the backup need to stay such. *)
LEMMA ClosedKeeps ==
  ASSUME apply' = Closed, IsTable(signatures'), ArtifactHolds'
  PROVE  RecertifyInv'
<1>1. apply'.at = "idle"
  BY DEF Closed
<1>2. ApplyHolds' /\ ApplyOpen' /\ PreimageHolds'
  BY <1>1 DEF ApplyHolds, ApplyOpen, PreimageHolds, Closed
<1> QED
  BY <1>2 DEF RecertifyInv, IsTable, IsRow

LEMMA PlanningKeeps ==
  ASSUME RecertifyInv, MakePlan \/ TakeBackup
  PROVE  RecertifyInv'
<1>1. apply' = Closed /\ signatures' = signatures
  BY DEF MakePlan, TakeBackup
<1>2. IsTable(signatures') /\ ArtifactHolds
  BY <1>1 DEF RecertifyInv
<1>3. CASE MakePlan
  <2>1. artifact' = artifact
    BY <1>3 DEF MakePlan
  <2>2. ArtifactHolds'
    BY <1>2, <2>1 DEF ArtifactHolds, IsTable, IsRow
  <2> QED
    BY <1>1, <1>2, <2>2, ClosedKeeps
<1>4. CASE TakeBackup
  <2>1. artifact' = [inode |-> artifact.inode + 1, stamp |-> clock, version |-> 0,
                     rows |-> [table |-> signatures, recorded |-> onRecord]]
    BY <1>4 DEF TakeBackup
  <2>2. ArtifactHolds'
    BY <1>1, <1>2, <2>1 DEF ArtifactHolds, IsTable, IsRow
  <2> QED
    BY <1>1, <1>2, <2>2, ClosedKeeps
<1> QED
  BY <1>3, <1>4

(* What stays when a step of the apply leaves everything but itself.       *)
LEMMA ApplyKeepsAll ==
  ASSUME ApplyKeeps
  PROVE  /\ artifact' = artifact /\ approved' = approved /\ onRecord' = onRecord
         /\ Planned' = Planned
         /\ ArtifactHolds => ArtifactHolds'
         /\ signatures' = signatures => \A a : Reviewed(a)' = Reviewed(a)
<1>1. artifact' = artifact /\ approved' = approved /\ onRecord' = onRecord
  BY DEF ApplyKeeps
<1>2. ArtifactHolds => ArtifactHolds'
  BY <1>1 DEF ArtifactHolds, IsTable, IsRow
<1>3. Planned' = Planned
  BY <1>1 DEF Planned
<1>4. signatures' = signatures => \A a : Reviewed(a)' = Reviewed(a)
  BY <1>1, <1>3 DEF Reviewed, PlannedOutcome
<1> QED
  BY <1>1, <1>2, <1>3, <1>4

(* The next step of an apply whose window is as it was.                    *)
LEMMA GoesOn ==
  ASSUME RecertifyInv, ApplyKeeps, signatures' = signatures, apply # Closed,
         apply'.window = apply.window, ApplyHolds',
         apply'.at \in {"verified", "locked"} =>
           \/ apply.at \in {"verified", "locked"}
           \/ WindowHolds => Classes(artifact.rows.table, artifact.rows.recorded) = approved.classes
  PROVE  RecertifyInv'
<1>1. artifact' = artifact /\ approved' = approved /\ ArtifactHolds'
  BY ApplyKeepsAll DEF RecertifyInv
<1>2. IsTable(signatures')
  BY DEF RecertifyInv
<1>3. ApplyOpen'
  BY <1>1 DEF RecertifyInv, ApplyOpen, WindowBefore
<1>4. WindowHolds' = WindowHolds
  BY <1>1 DEF WindowHolds
<1>5. PreimageHolds'
  BY <1>1, <1>4 DEF PreimageHolds, RecertifyInv
<1> QED
  BY <1>1, <1>2, <1>3, <1>5 DEF RecertifyInv, IsTable, IsRow

LEMMA RefuseKeeps ==
  ASSUME RecertifyInv, ApplyKeeps, Refuse
  PROVE  RecertifyInv'
<1>1. apply' = Closed /\ IsTable(signatures') /\ ArtifactHolds'
  BY ApplyKeepsAll DEF Refuse, RecertifyInv
<1> QED
  BY <1>1, ClosedKeeps

LEMMA OpenWindowKeeps == RecertifyInv /\ OpenWindow => RecertifyInv'
<1> SUFFICES ASSUME RecertifyInv, OpenWindow PROVE RecertifyInv'
  OBVIOUS
<1>1. ApplyKeeps /\ signatures' = signatures /\ approved.made
  BY DEF OpenWindow
<1>2. CASE apply' = Closed
  BY <1>1, <1>2, RefuseKeeps DEF Refuse
<1>3. CASE /\ artifact.inode # 0
           /\ apply' = [at |-> "opened",
                        window |-> [inode |-> artifact.inode, stamp |-> artifact.stamp,
                                    version |-> artifact.version]]
  <2>1. /\ apply'.at = "opened" /\ apply'.window.inode = artifact.inode
        /\ apply'.window.version = artifact.version
    BY <1>3
  <2>2. artifact' = artifact /\ approved' = approved /\ ArtifactHolds' /\ ArtifactHolds
    BY <1>1, ApplyKeepsAll DEF RecertifyInv
  <2>3. ApplyHolds'
    BY <1>3 DEF ApplyHolds
  <2>4. ApplyOpen'
    BY <1>1, <1>3, <2>1, <2>2 DEF ApplyOpen, WindowBefore, ArtifactHolds
  <2>5. PreimageHolds' /\ IsTable(signatures')
    BY <1>1, <2>1 DEF PreimageHolds, RecertifyInv
  <2> QED
    BY <2>2, <2>3, <2>4, <2>5 DEF RecertifyInv, IsTable, IsRow
<1> QED
  BY <1>2, <1>3 DEF OpenWindow

LEMMA VerifyPreimageKeeps == RecertifyInv /\ VerifyPreimage => RecertifyInv'
<1> SUFFICES ASSUME RecertifyInv, VerifyPreimage PROVE RecertifyInv'
  OBVIOUS
<1>1. ApplyKeeps /\ apply.at = "opened"
  BY DEF VerifyPreimage
<1>2. CASE Refuse
  BY <1>1, <1>2, RefuseKeeps
<1>3. CASE /\ Classes(artifact.rows.table, artifact.rows.recorded) = approved.classes
           /\ apply' = [apply EXCEPT !.at = "verified"] /\ signatures' = signatures
  <2>1. apply = [at |-> apply.at, window |-> apply.window]
    BY <1>1 DEF RecertifyInv, ApplyHolds, Closed
  <2>2. apply' = [at |-> "verified", window |-> apply.window]
    BY <1>3, <2>1
  <2>3. ApplyHolds' /\ apply'.window = apply.window /\ apply # Closed
    BY <1>1, <2>2 DEF ApplyHolds, Closed
  <2> QED
    BY <1>1, <1>3, <2>3, GoesOn
<1> QED
  BY <1>2, <1>3 DEF VerifyPreimage

LEMMA BeginImmediateKeeps == RecertifyInv /\ BeginImmediate => RecertifyInv'
<1> SUFFICES ASSUME RecertifyInv, BeginImmediate PROVE RecertifyInv'
  OBVIOUS
<1>1. ApplyKeeps /\ apply.at = "verified"
  BY DEF BeginImmediate
<1>2. CASE Refuse
  BY <1>1, <1>2, RefuseKeeps
<1>3. CASE /\ apply' = [at |-> "locked", window |-> apply.window,
                        left |-> Planned, relabelled |-> {}]
           /\ signatures' = signatures
  <2>1. Planned' = Planned
    BY <1>1, ApplyKeepsAll DEF RecertifyInv
  <2>2. ApplyHolds' /\ apply'.window = apply.window /\ apply # Closed
    BY <1>1, <1>3, <2>1 DEF ApplyHolds, Closed
  <2> QED
    BY <1>1, <1>3, <2>2, GoesOn
<1> QED
  BY <1>2, <1>3 DEF BeginImmediate

LEMMA RelabelRowKeeps ==
  ASSUME RecertifyInv, NEW a \in Signed, RelabelRow(a)
  PROVE  RecertifyInv'
<1>1. ApplyKeeps /\ apply.at = "locked" /\ a \in apply.left /\ signatures' = signatures
  BY DEF RelabelRow
<1>2. /\ apply = [at |-> apply.at, window |-> apply.window, left |-> apply.left,
                  relabelled |-> apply.relabelled]
      /\ apply.left \subseteq Planned /\ \A b \in apply.relabelled : Reviewed(b)
  BY <1>1 DEF RecertifyInv, ApplyHolds, Closed
<1> DEFINE relabelled == IF PlannedOutcome(a) = "legacy_as_planned"
                         THEN apply.relabelled \union {a} ELSE apply.relabelled
<1>3. apply' = [at |-> "locked", window |-> apply.window, left |-> apply.left \ {a},
                relabelled |-> relabelled]
  BY <1>1, <1>2 DEF RelabelRow
<1>4. \A b \in relabelled : Reviewed(b)
  BY <1>1, <1>2 DEF Reviewed
<1> HIDE DEF relabelled
<1>5. Planned' = Planned /\ \A b : Reviewed(b)' = Reviewed(b)
  BY <1>1, ApplyKeepsAll DEF RecertifyInv
<1>6. ApplyHolds' /\ apply'.window = apply.window /\ apply # Closed
  BY <1>1, <1>2, <1>3, <1>4, <1>5 DEF ApplyHolds, Closed
<1> QED
  BY <1>1, <1>6, GoesOn

LEMMA FinalCheckKeeps == RecertifyInv /\ FinalCheck => RecertifyInv'
<1> SUFFICES ASSUME RecertifyInv, FinalCheck PROVE RecertifyInv'
  OBVIOUS
<1>1. ApplyKeeps /\ apply.at = "locked"
  BY DEF FinalCheck
<1>2. CASE Refuse
  BY <1>1, <1>2, RefuseKeeps
<1>3. CASE apply' = [apply EXCEPT !.at = "committing"] /\ signatures' = signatures
  <2>1. /\ apply = [at |-> apply.at, window |-> apply.window, left |-> apply.left,
                    relabelled |-> apply.relabelled]
        /\ apply.left \subseteq Planned /\ \A b \in apply.relabelled : Reviewed(b)
    BY <1>1 DEF RecertifyInv, ApplyHolds, Closed
  <2>2. apply' = [at |-> "committing", window |-> apply.window, left |-> apply.left,
                  relabelled |-> apply.relabelled]
    BY <1>3, <2>1
  <2>3. Planned' = Planned /\ \A b : Reviewed(b)' = Reviewed(b)
    BY <1>1, <1>3, ApplyKeepsAll DEF RecertifyInv
  <2>4. ApplyHolds' /\ apply'.window = apply.window /\ apply # Closed
    BY <1>1, <2>1, <2>2, <2>3 DEF ApplyHolds, Closed
  <2> QED
    BY <1>1, <1>3, <2>4, GoesOn
<1> QED
  BY <1>2, <1>3 DEF FinalCheck

(* A row reviewed under the lock: of version 1 and in page order.          *)
LEMMA ReviewedRow ==
  ASSUME NEW a, Reviewed(a)
  PROVE  /\ a \in Planned /\ Basis(signatures[a]) = approved.classes[a].basis
         /\ signatures[a].stamp = onRecord[a] /\ signatures[a].version # 2
         /\ signatures[a].digest.order = PageOrder(signatures[a].names)
<1>1. /\ a \in Planned /\ SignatureClass(signatures[a], onRecord[a]) = "order_stable"
      /\ Basis(signatures[a]) = approved.classes[a].basis /\ signatures[a].version # 2
  BY DEF Reviewed, PlannedOutcome
<1>2. ASSUME NEW row, NEW recorded, SignatureClass(row, recorded) = "order_stable"
      PROVE  row.stamp = recorded /\ row.digest.order = PageOrder(row.names)
  BY <1>2 DEF SignatureClass
<1> QED
  BY <1>1, <1>2

LEMMA CommitLabelsKeeps == RecertifyInv /\ CommitLabels => RecertifyInv'
<1> SUFFICES ASSUME RecertifyInv, CommitLabels PROVE RecertifyInv'
  OBVIOUS
<1>1. ApplyKeeps /\ apply.at = "committing" /\ apply' = Closed
  BY DEF CommitLabels
<1>2. \A a \in apply.relabelled : Reviewed(a)
  BY <1>1 DEF RecertifyInv, ApplyHolds, Closed
<1>3. signatures' = [a \in Signed |->
         IF a \in apply.relabelled THEN [signatures[a] EXCEPT !.version = 2] ELSE signatures[a]]
  BY DEF CommitLabels
<1>4. ASSUME NEW a \in Signed PROVE IsRow(signatures'[a])
  <2>1. IsRow(signatures[a])
    BY DEF RecertifyInv, IsTable
  <2>2. CASE a \in apply.relabelled
    <3> DEFINE row == signatures[a]
    <3>1. row.digest.order = PageOrder(row.names)
      BY <1>2, <2>2, ReviewedRow
    <3>2. row = [version |-> row.version, names |-> row.names, digest |-> row.digest,
                 stamp |-> row.stamp]
      BY <2>1 DEF IsRow
    <3> DEFINE new == [version |-> 2, names |-> row.names, digest |-> row.digest,
                       stamp |-> row.stamp]
    <3>3. [row EXCEPT !.version = 2] = new
      <4> HIDE DEF row
      <4> QED
        BY <3>2
    <3>4. signatures'[a] = new
      BY <1>3, <2>2, <3>3
    <3>5. IsRow(row)
      BY <2>1
    <3> HIDE DEF row
    <3>6. IsRow(new)
      BY <3>1, <3>5 DEF IsRow
    <3> QED
      BY <3>4, <3>6
  <2>3. CASE a \notin apply.relabelled
    BY <1>3, <2>1, <2>3
  <2> QED
    BY <2>2, <2>3
<1>5. IsTable(signatures')
  <2>1. signatures' = [a \in Signed |-> signatures'[a]]
    BY <1>3
  <2> QED
    BY <1>4, <2>1 DEF IsTable
<1>6. ArtifactHolds'
  BY <1>1, ApplyKeepsAll DEF RecertifyInv
<1> QED
  BY <1>1, <1>5, <1>6, ClosedKeeps

(* Others leave a running apply alone, but for the lock and the backup.    *)
LEMMA OthersKeep ==
  ASSUME RecertifyInv, Change, IsTable(signatures'), ArtifactHolds',
         \/ Unlocked
         \/ signatures' = signatures /\ onRecord' = onRecord,
         \/ artifact' = artifact
         \/ /\ artifact'.inode = artifact.inode
            /\ artifact'.version = artifact.version + 1
         \/ artifact'.inode = artifact.inode + 1,
         artifact.inode # 0 => artifact'.inode # 0
  PROVE  RecertifyInv'
<1>1. apply' = apply /\ approved' = approved /\ Planned' = Planned
  BY DEF Change, Planned
<1>2. CASE apply = Closed
  BY <1>1, <1>2, ClosedKeeps
<1>3. CASE apply # Closed
  <2>1. approved.made /\ artifact.inode # 0 /\ WindowBefore /\ artifact.inode \in Nat
        /\ artifact.version \in Nat
    BY <1>3 DEF RecertifyInv, ApplyOpen, ArtifactHolds
  <2>2. CASE artifact' = artifact
    <3>1. ApplyOpen' /\ PreimageHolds'
      BY <1>1, <2>1, <2>2 DEF ApplyOpen, WindowBefore, PreimageHolds, WindowHolds, RecertifyInv
    <3>2. ApplyHolds'
      <4>1. CASE Unlocked
        BY <1>1, <1>3, <4>1 DEF RecertifyInv, ApplyHolds, Unlocked
      <4>2. CASE signatures' = signatures /\ onRecord' = onRecord
        <5>1. \A a : Reviewed(a)' = Reviewed(a)
          BY <1>1, <4>2 DEF Reviewed, PlannedOutcome
        <5> QED
          BY <1>1, <5>1 DEF RecertifyInv, ApplyHolds
      <4> QED
        BY <4>1, <4>2
    <3> QED
      BY <3>1, <3>2 DEF RecertifyInv, IsTable, IsRow
  <2>3. CASE \/ /\ artifact'.inode = artifact.inode
                /\ artifact'.version = artifact.version + 1
             \/ artifact'.inode = artifact.inode + 1
    <3>1. WindowBefore' /\ ~WindowHolds'
      BY <1>1, <2>1, <2>3 DEF WindowBefore, WindowHolds
    <3>2. ApplyOpen' /\ PreimageHolds'
      BY <1>1, <2>1, <3>1 DEF ApplyOpen, PreimageHolds
    <3>3. ApplyHolds'
      <4>1. CASE Unlocked
        BY <1>1, <1>3, <4>1 DEF RecertifyInv, ApplyHolds, Unlocked
      <4>2. CASE signatures' = signatures /\ onRecord' = onRecord
        <5>1. \A a : Reviewed(a)' = Reviewed(a)
          BY <1>1, <4>2 DEF Reviewed, PlannedOutcome
        <5> QED
          BY <1>1, <5>1 DEF RecertifyInv, ApplyHolds
      <4> QED
        BY <4>1, <4>2
    <3> QED
      BY <3>2, <3>3 DEF RecertifyInv, IsTable, IsRow
  <2> QED
    BY <2>2, <2>3
<1> QED
  BY <1>2, <1>3

LEMMA LocationMovesKeeps ==
  ASSUME RecertifyInv, NEW a \in Signed, LocationMoves(a)
  PROVE  RecertifyInv'
<1>1. Change /\ Unlocked /\ signatures' = signatures /\ artifact' = artifact
  BY DEF LocationMoves
<1>2. IsTable(signatures') /\ ArtifactHolds'
  BY <1>1 DEF RecertifyInv, ArtifactHolds, IsTable, IsRow
<1> QED
  BY <1>1, <1>2, OthersKeep

LEMMA RehashKeeps ==
  ASSUME RecertifyInv, NEW a \in Signed, Rehash(a)
  PROVE  RecertifyInv'
<1> DEFINE names == PageOrder(signatures[a].names)
           row == [version |-> 2, names |-> names,
                   digest |-> [order |-> names, edition |-> onRecord[a]], stamp |-> onRecord[a]]
<1>1. /\ Change /\ Unlocked /\ artifact' = artifact /\ ~Repeats(signatures[a].names)
      /\ signatures' = [signatures EXCEPT ![a] = row]
  BY DEF Rehash
<1>2. IsRow(row)
  <2>1. signatures[a].names \in Seq(Named)
    BY DEF RecertifyInv, IsTable, IsRow
  <2> QED
    BY <1>1, <2>1, NewRow
<1> HIDE DEF row
<1>3. signatures = [b \in Signed |-> signatures[b]] /\ \A b \in Signed : IsRow(signatures[b])
  BY DEF RecertifyInv, IsTable
<1>4. signatures' = [b \in Signed |-> IF b = a THEN row ELSE signatures[b]]
  BY <1>1, <1>3
<1>5. \A b \in Signed : signatures'[b] = row \/ signatures'[b] = signatures[b]
  BY <1>4
<1>6. IsTable(signatures')
  <2>1. signatures' = [b \in Signed |-> signatures'[b]]
    BY <1>4
  <2>2. \A b \in Signed : IsRow(signatures'[b])
    BY <1>2, <1>3, <1>5
  <2> QED
    BY <2>1, <2>2 DEF IsTable
<1>7. ArtifactHolds'
  BY <1>1 DEF RecertifyInv, ArtifactHolds, IsTable, IsRow
<1> QED
  BY <1>1, <1>6, <1>7, OthersKeep

LEMMA RestoreKeeps == RecertifyInv /\ Restore => RecertifyInv'
<1> SUFFICES ASSUME RecertifyInv, Restore PROVE RecertifyInv'
  OBVIOUS
<1>1. /\ Change /\ Unlocked /\ artifact' = artifact /\ artifact.inode # 0
      /\ signatures' = artifact.rows.table
  BY DEF Restore
<1>2. IsTable(signatures') /\ ArtifactHolds'
  BY <1>1 DEF RecertifyInv, ArtifactHolds, IsTable, IsRow
<1> QED
  BY <1>1, <1>2, OthersKeep

LEMMA BackupReplacedKeeps == RecertifyInv /\ BackupReplaced => RecertifyInv'
<1> SUFFICES ASSUME RecertifyInv, BackupReplaced PROVE RecertifyInv'
  OBVIOUS
<1>1. /\ Change /\ signatures' = signatures /\ onRecord' = onRecord
      /\ artifact' = [inode |-> artifact.inode + 1, stamp |-> clock, version |-> 0,
                      rows |-> [table |-> signatures, recorded |-> onRecord]]
  BY DEF BackupReplaced
<1>2. artifact.inode \in Nat /\ IsTable(signatures)
  BY DEF RecertifyInv, ArtifactHolds
<1>3. /\ artifact'.inode = artifact.inode + 1 /\ artifact'.version = 0
      /\ artifact'.rows = [table |-> signatures, recorded |-> onRecord]
      /\ artifact' = [inode |-> artifact'.inode, stamp |-> artifact'.stamp,
                      version |-> artifact'.version, rows |-> artifact'.rows]
  BY <1>1
<1>4. ArtifactHolds'
  BY <1>2, <1>3 DEF ArtifactHolds, IsTable, IsRow
<1> QED
  BY <1>1, <1>2, <1>3, <1>4, OthersKeep

LEMMA BackupCommittedKeeps ==
  ASSUME RecertifyInv, NEW a \in Signed, BackupCommitted(a)
  PROVE  RecertifyInv'
<1>1. /\ Change /\ signatures' = signatures /\ onRecord' = onRecord /\ artifact.inode # 0
      /\ artifact' = [artifact EXCEPT !.version = @ + 1,
                                      !.rows.table[a].digest.edition = 99]
  BY DEF BackupCommitted
<1> DEFINE rows == artifact.rows
           table == rows.table
           row == table[a]
           new == [version |-> row.version, names |-> row.names,
                   digest |-> [order |-> row.digest.order, edition |-> 99], stamp |-> row.stamp]
<1>2. /\ artifact.inode \in Nat /\ artifact.version \in Nat
      /\ artifact = [inode |-> artifact.inode, stamp |-> artifact.stamp,
                     version |-> artifact.version, rows |-> rows]
      /\ rows = [table |-> table, recorded |-> rows.recorded]
      /\ IsTable(table)
  BY <1>1 DEF RecertifyInv, ArtifactHolds
<1>3. IsRow(row) /\ table = [b \in Signed |-> table[b]] /\ \A b \in Signed : IsRow(table[b])
  BY <1>2 DEF IsTable
<1> DEFINE moved == [table EXCEPT ![a].digest.edition = 99]
<1>4. moved = [b \in Signed |-> IF b = a THEN new ELSE table[b]]
  <2>1. [row EXCEPT !.digest.edition = 99] = new
    <3> DEFINE digest == row.digest
    <3>1. [row EXCEPT !.digest.edition = 99] =
             [version |-> row.version, names |-> row.names,
              digest |-> [digest EXCEPT !.edition = 99], stamp |-> row.stamp]
      <4>1. row = [version |-> row.version, names |-> row.names, digest |-> digest,
                   stamp |-> row.stamp]
        BY <1>3 DEF IsRow
      <4> HIDE DEF row, digest
      <4> QED
        BY <4>1
    <3>2. [digest EXCEPT !.edition = 99] = [order |-> digest.order, edition |-> 99]
      <4>1. digest = [order |-> digest.order, edition |-> digest.edition]
        BY <1>3 DEF IsRow
      <4> HIDE DEF digest
      <4> QED
        BY <4>1
    <3> HIDE DEF row
    <3> QED
      BY <3>1, <3>2
  <2>2. moved = [table EXCEPT ![a] = [row EXCEPT !.digest.edition = 99]]
    OBVIOUS
  <2> HIDE DEF moved, table, new, row
  <2> QED
    BY <1>3, <2>1, <2>2
<1>5. artifact' = [inode |-> artifact.inode, stamp |-> artifact.stamp,
                   version |-> artifact.version + 1,
                   rows |-> [table |-> moved, recorded |-> rows.recorded]]
  <2>1. artifact' = [artifact EXCEPT !.version = artifact.version + 1,
                                     !.rows = [rows EXCEPT !.table = moved]]
    BY <1>1
  <2>2. [rows EXCEPT !.table = moved] = [table |-> moved, recorded |-> rows.recorded]
    <3> HIDE DEF rows, moved
    <3> QED
      BY <1>2
  <2> HIDE DEF moved, rows
  <2> QED
    BY <1>2, <2>1, <2>2
<1>6. IsRow(new)
  <2> HIDE DEF row
  <2> QED
    BY <1>3 DEF IsRow
<1> HIDE DEF new, table, rows
<1>7. IsTable(moved)
  <2> HIDE DEF moved
  <2>1. \A b \in Signed : moved[b] = new \/ moved[b] = table[b]
    BY <1>4
  <2>2. moved = [b \in Signed |-> moved[b]]
    BY <1>4
  <2>3. \A b \in Signed : IsRow(moved[b])
    BY <1>3, <1>6, <2>1
  <2> QED
    BY <2>2, <2>3 DEF IsTable
<1> HIDE DEF moved
<1>8. /\ artifact'.inode = artifact.inode /\ artifact'.version = artifact.version + 1
      /\ artifact'.rows = [table |-> moved, recorded |-> rows.recorded]
      /\ artifact' = [inode |-> artifact'.inode, stamp |-> artifact'.stamp,
                      version |-> artifact'.version, rows |-> artifact'.rows]
  BY <1>5
<1>9. ArtifactHolds'
  BY <1>2, <1>7, <1>8 DEF ArtifactHolds, IsTable, IsRow
<1>10. IsTable(signatures')
  BY <1>1 DEF RecertifyInv
<1> QED
  BY <1>1, <1>2, <1>8, <1>9, <1>10, OthersKeep

LEMMA RecertifyInvNext == RecertifyInv /\ [RecertifyNext]_recertifyVars => RecertifyInv'
<1> SUFFICES ASSUME RecertifyInv, [RecertifyNext]_recertifyVars PROVE RecertifyInv'
  OBVIOUS
<1>1. CASE MakePlan \/ TakeBackup
  BY <1>1, PlanningKeeps
<1>2. CASE ApplyDies
  BY <1>2, RefuseKeeps DEF ApplyDies
<1>3. CASE OpenWindow \/ VerifyPreimage \/ BeginImmediate \/ FinalCheck \/ CommitLabels
  BY <1>3, OpenWindowKeeps, VerifyPreimageKeeps, BeginImmediateKeeps, FinalCheckKeeps,
     CommitLabelsKeeps
<1>4. ASSUME NEW a \in Signed,
             RelabelRow(a) \/ LocationMoves(a) \/ Rehash(a) \/ BackupCommitted(a)
      PROVE  RecertifyInv'
  BY <1>4, RelabelRowKeeps, LocationMovesKeeps, RehashKeeps, BackupCommittedKeeps
<1>5. CASE Restore \/ BackupReplaced
  BY <1>5, RestoreKeeps, BackupReplacedKeeps
<1>6. CASE UNCHANGED recertifyVars
  BY <1>6 DEF recertifyVars, RecertifyInv, IsTable, IsRow, ArtifactHolds, ApplyHolds, ApplyOpen,
              PreimageHolds, WindowBefore, WindowHolds, Reviewed, PlannedOutcome, Planned
<1> QED
  BY <1>1, <1>2, <1>3, <1>4, <1>5, <1>6 DEF RecertifyNext

LEMMA VersionTwo == RecertifyInv => VersionTwoIsPageOrder
BY DEF RecertifyInv, IsTable, IsRow, VersionTwoIsPageOrder

LEMMA ReviewedOnly ==
  ASSUME RecertifyInv, [RecertifyNext]_recertifyVars, apply.at = "committing",
         NEW a \in Signed, signatures'[a].version # signatures[a].version
  PROVE  /\ a \in Planned /\ Basis(signatures[a]) = approved.classes[a].basis
         /\ signatures[a].stamp = onRecord[a]
<1>1. ~Unlocked /\ apply # Closed
  BY DEF Unlocked, Closed
<1>2. CommitLabels
  BY <1>1 DEF RecertifyNext, MakePlan, TakeBackup, OpenWindow, VerifyPreimage, BeginImmediate,
         FinalCheck, ApplyDies, Refuse, RelabelRow, LocationMoves, Rehash, BackupCommitted,
         Restore, BackupReplaced, recertifyVars
<1>3. a \in apply.relabelled
  BY <1>2 DEF CommitLabels
<1>4. Reviewed(a)
  BY <1>1, <1>3 DEF RecertifyInv, ApplyHolds
<1> QED
  BY <1>4, ReviewedRow

LEMMA Recoverable ==
  ASSUME RecertifyInv, [RecertifyNext]_recertifyVars,
         apply.at # "committing", apply'.at = "committing", NEW a \in apply'.relabelled
  PROVE  artifact.rows.table[a] = signatures[a] /\ artifact.rows.recorded[a] = onRecord[a]
<1>1. FinalCheck /\ apply' # Closed
  <2>1. apply' # Closed /\ apply' # apply
    BY DEF Closed
  <2>2. ~ \E b \in Signed : RelabelRow(b)
    <3>1. SUFFICES ASSUME NEW b \in Signed, RelabelRow(b) PROVE apply'.at = "locked"
      BY <3>1
    <3>2. apply = [at |-> apply.at, window |-> apply.window, left |-> apply.left,
                   relabelled |-> apply.relabelled] /\ apply.at = "locked"
      BY <3>1 DEF RecertifyInv, ApplyHolds, Closed, RelabelRow
    <3> QED
      BY <3>1, <3>2 DEF RelabelRow
  <2>3. ~VerifyPreimage
    <3>1. SUFFICES ASSUME VerifyPreimage PROVE apply'.at = "verified" \/ apply' = Closed
      BY <2>1, <3>1
    <3>2. apply = [at |-> apply.at, window |-> apply.window]
      BY <3>1 DEF RecertifyInv, ApplyHolds, Closed, VerifyPreimage
    <3> QED
      BY <3>1, <3>2 DEF VerifyPreimage, Refuse
  <2>4. ~MakePlan /\ ~TakeBackup /\ ~OpenWindow /\ ~BeginImmediate /\ ~CommitLabels /\ ~ApplyDies
    BY <2>1 DEF MakePlan, TakeBackup, OpenWindow, BeginImmediate, CommitLabels, ApplyDies, Refuse
  <2>5. ~Change
    BY <2>1 DEF Change
  <2> QED
    BY <2>1, <2>2, <2>3, <2>4, <2>5
       DEF RecertifyNext, LocationMoves, Rehash, BackupCommitted, Restore, BackupReplaced,
           recertifyVars
<1>2. /\ apply.at = "locked" /\ WindowHolds /\ apply' = [apply EXCEPT !.at = "committing"]
  BY <1>1 DEF FinalCheck, Refuse
<1>3. apply'.relabelled = apply.relabelled /\ artifact.inode # 0
  <2>1. apply = [at |-> apply.at, window |-> apply.window, left |-> apply.left,
                 relabelled |-> apply.relabelled]
    BY <1>2 DEF RecertifyInv, ApplyHolds, Closed
  <2>2. artifact.inode # 0
    BY <1>2 DEF RecertifyInv, ApplyOpen, Closed
  <2> QED
    BY <1>2, <2>1, <2>2
<1>4. Reviewed(a)
  BY <1>2, <1>3 DEF RecertifyInv, ApplyHolds, Closed
<1>5. /\ a \in Planned /\ Basis(signatures[a]) = approved.classes[a].basis
      /\ signatures[a].stamp = onRecord[a] /\ signatures[a].version # 2
  BY <1>4, ReviewedRow
<1> DEFINE table == artifact.rows.table
           recorded == artifact.rows.recorded
<1>6. Classes(table, recorded) = approved.classes /\ IsTable(table)
  BY <1>2, <1>3 DEF RecertifyInv, PreimageHolds, ArtifactHolds
<1> HIDE DEF table, recorded
<1>7. a \in DOMAIN approved.classes /\ approved.classes[a].class = "order_stable"
  BY <1>5 DEF Planned
<1>8. /\ a \in Signed /\ table[a].version = 1 /\ SignatureClass(table[a], recorded[a]) = "order_stable"
      /\ approved.classes[a].basis = Basis(table[a])
  <2> DEFINE legacy == {b \in Signed : table[b].version = 1}
             class == SignatureClass(table[a], recorded[a])
  <2>1. a \in legacy /\ approved.classes[a] = IF class = "order_stable"
                                              THEN [class |-> class, basis |-> Basis(table[a])]
                                              ELSE [class |-> class]
    BY <1>6, <1>7 DEF Classes
  <2> HIDE DEF class
  <2>2. class = "order_stable"
    BY <1>7, <2>1
  <2>3. approved.classes[a] = [class |-> class, basis |-> Basis(table[a])]
    BY <2>1, <2>2
  <2> QED
    BY <2>1, <2>2, <2>3 DEF class
<1>9. recorded[a] = table[a].stamp
  BY <1>8 DEF SignatureClass
<1> DEFINE old == table[a]
           now == signatures[a]
<1>10. /\ IsRow(old) /\ IsRow(now) /\ old.version = 1 /\ now.version # 2
  BY <1>5, <1>6, <1>8 DEF IsTable, RecertifyInv
<1>11. Basis(old) = Basis(now)
  BY <1>5, <1>8
<1>12. now.stamp = onRecord[a] /\ recorded[a] = old.stamp
  BY <1>5, <1>9
<1> HIDE DEF old, now
<1>13. old.names = now.names /\ old.digest = now.digest /\ old.stamp = now.stamp
  BY <1>11 DEF Basis
<1>14. old = now
  BY <1>10, <1>13 DEF IsRow
<1> QED
  BY <1>12, <1>13, <1>14 DEF old, now, table, recorded

\* Version 2 means page order whoever wrote it, an apply relabels only what was
\* reviewed and is still bound to its file, and then the backup holds each such
\* row as it was, for any signatures, disruptions and number of applies.
THEOREM RelabelsAreSafe == RecertifySpec => RecertifySafety
<1>1. RecertifySpec => []RecertifyInv
  BY RecertifyInvInit, RecertifyInvNext, PTL DEF RecertifySpec
<1>2. RecertifyInv /\ [RecertifyNext]_recertifyVars =>
        [apply.at = "committing" => \A a \in Signed :
          signatures'[a].version # signatures[a].version =>
            /\ a \in Planned /\ Basis(signatures[a]) = approved.classes[a].basis
            /\ signatures[a].stamp = onRecord[a]]_recertifyVars
  BY ReviewedOnly
<1>3. RecertifyInv /\ [RecertifyNext]_recertifyVars =>
        [apply.at # "committing" /\ apply'.at = "committing" =>
          \A a \in apply'.relabelled :
            /\ artifact.rows.table[a] = signatures[a]
            /\ artifact.rows.recorded[a] = onRecord[a]]_recertifyVars
  BY Recoverable
<1> QED
  BY <1>1, <1>2, <1>3, VersionTwo, PTL
     DEF RecertifySpec, RecertifySafety, RelabelsAsReviewed, RelabelsAreRecoverable

=============================================================================
