------------------------------ MODULE Backups ------------------------------
(***************************************************************************)
(* database/backup_cli.py: run_backup, the guarded online backup that the  *)
(* protected procedures (re-certification, a migration, a restore) rest    *)
(* on.  The source is a WAL database that other processes go on writing:   *)
(* a commit is visible to a connection at once (data_version moves), but   *)
(* the main file, and so its fingerprint, only moves at a checkpoint.  The *)
(* content of a database is the number of its last commit.  Runs are       *)
(* started by the operator one after another, with any destination, and    *)
(* may die anywhere.                                                       *)
(***************************************************************************)
EXTENDS Integers, FiniteSets

CONSTANTS
  BackupPaths,      \* destinations and report paths the operator types
  MaxWrites,        \* bound: commits to the source
  MaxBackups           \* bound: backup runs

ASSUME BackupsAssumption == MaxWrites \in Nat /\ MaxBackups \in Nat

VARIABLES
  source,           \* commits so far: the content any connection reads
  mainFile,         \* the commit the main file was last checkpointed at
  backups,          \* destination -> content, "partial" or "absent"
  reports,          \* report path -> the report, or "absent"
  backupRun,        \* the run in progress, or "none"
  runsMade

backupVars == <<source, mainFile, backups, reports, backupRun, runsMade>>

(* Row counts are all that is compared of the data: two contents may agree *)
(* on them (here, a commit that only updates rows follows one that adds).  *)
CountsOf(content) == (content + 1) \div 2

BackupsInit ==
  /\ source = 0 /\ mainFile = 0
  /\ backups = [p \in BackupPaths |-> <<"absent">>]
  /\ reports = [p \in BackupPaths |-> <<"absent">>]
  /\ backupRun = <<"none">> /\ runsMade = 0

Writes ==
  /\ source < MaxWrites
  /\ source' = source + 1
  /\ UNCHANGED <<mainFile, backups, reports, backupRun, runsMade>>

CheckpointWal ==
  /\ mainFile' = source
  /\ UNCHANGED <<source, backups, reports, backupRun, runsMade>>

(* Mutant of PathsAreFree: an existing backup is replaced.                 *)
PathsAreFreeToReplace(destination, report) == reports[report] = <<"absent">>

(* validate_backup_paths.                                                  *)
PathsAreFree(destination, report) ==
  backups[destination] = <<"absent">> /\ reports[report] = <<"absent">>

(* Validation and fingerprint_before.                                      *)
StartBackup(destination, report) ==
  /\ backupRun = <<"none">> /\ runsMade < MaxBackups
  /\ PathsAreFree(destination, report)
  /\ backupRun' = <<"fingerprinted",
       [destination |-> destination, report |-> report, fingerprint |-> mainFile]>>
  /\ runsMade' = runsMade + 1
  /\ UNCHANGED <<source, mainFile, backups, reports>>

BackupStep(from, to) == backupRun[1] = from /\ backupRun' = to
Run == backupRun[2]

(* data_version_before, on the connection every later reading uses.        *)
SampleBefore ==
  /\ BackupStep("fingerprinted", <<"sampled", Run, [version |-> source]>>)
  /\ UNCHANGED <<source, mainFile, backups, reports, runsMade>>

(* The read transaction: quick_check, tables, schema, counts.              *)
CountSource ==
  /\ BackupStep("sampled", <<"counted", Run, [version |-> backupRun[3].version, counts |-> CountsOf(source)]>>)
  /\ UNCHANGED <<source, mainFile, backups, reports, runsMade>>

(* The destination is created, then the online backup copies pages until   *)
(* it holds one consistent content.                                        *)
CreateDestination ==
  /\ BackupStep("counted", <<"copying", Run, backupRun[3]>>)
  /\ backups' = [backups EXCEPT ![Run.destination] = <<"partial">>]
  /\ UNCHANGED <<source, mainFile, reports, runsMade>>

CopyPages ==
  /\ BackupStep("copying", <<"copied", Run, backupRun[3]>>)
  /\ backups' = [backups EXCEPT ![Run.destination] = <<"content", source>>]
  /\ UNCHANGED <<source, mainFile, reports, runsMade>>

(* quick_check again, then data_version_after.                             *)
SampleAfter ==
  /\ BackupStep("copied", <<"closed", Run, backupRun[3], [version |-> source]>>)
  /\ UNCHANGED <<source, mainFile, backups, reports, runsMade>>

(* Mutant of Unchanged: only the file's fingerprint is compared.           *)
UnchangedFile(before, after) == Run.fingerprint = mainFile

(* data_version_unchanged and source_fingerprint_unchanged.                *)
Unchanged(before, after) == before.version = after.version /\ Run.fingerprint = mainFile

WriteReport(report) ==
  reports' = IF reports[Run.report] = <<"absent">>
             THEN [reports EXCEPT ![Run.report] = report] ELSE reports

(* The comparison of the copy with what was read from the source, and the  *)
(* verified report.                                                        *)
Verify ==
  /\ BackupStep("closed", <<"none">>)
  /\ Unchanged(backupRun[3], backupRun[4])
  /\ \E c \in 0..MaxWrites :
       backups[Run.destination] = <<"content", c>> /\ CountsOf(c) = backupRun[3].counts
  /\ WriteReport(<<"verified", Run.destination, backupRun[3].version>>)
  /\ UNCHANGED <<source, mainFile, backups, runsMade>>

(* Any check or call fails: the partial report says verified False, and    *)
(* the destination stays as it is.                                         *)
FailBackup ==
  /\ backupRun # <<"none">> /\ backupRun' = <<"none">>
  /\ WriteReport(<<"failed", Run.destination>>)
  /\ UNCHANGED <<source, mainFile, backups, runsMade>>

BackupDies ==
  /\ backupRun # <<"none">> /\ backupRun' = <<"none">>
  /\ UNCHANGED <<source, mainFile, backups, reports, runsMade>>

BackupsNext ==
  \/ Writes \/ CheckpointWal
  \/ \E d, p \in BackupPaths : StartBackup(d, p)
  \/ SampleBefore \/ CountSource \/ CreateDestination \/ CopyPages \/ SampleAfter
  \/ Verify \/ FailBackup \/ BackupDies

BackupsSpec == BackupsInit /\ [][BackupsNext]_backupVars

-----------------------------------------------------------------------------

(* A report that says verified names a file holding exactly what the       *)
(* source held when its run began reading, whatever was committed, when    *)
(* the checkpoints came and whichever runs failed, died or followed.       *)
VerifiedIsACopy ==
  \A p \in BackupPaths :
    reports[p][1] = "verified" => backups[reports[p][2]] = <<"content", reports[p][3]>>
=============================================================================
