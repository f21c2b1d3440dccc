------------------------------ MODULE Recertify ------------------------------
(***************************************************************************)
(* Re-certification of legacy page signatures: a plan is made from one     *)
(* read, a backup is taken and reported, and the apply relabels, under the *)
(* write lock, what is still exactly as planned, while the backup stays    *)
(* open and is checked not to have moved until just before the commit.     *)
(*                                                                         *)
(* A page is named by a number; the digest of a signature is the sequence  *)
(* of names it was taken in, with the edition of the file's bytes.         *)
(***************************************************************************)
EXTENDS Naturals, Sequences, FiniteSets, Functions

CONSTANTS
    Signed,         \* archives with a content signature
    Legacy,         \* archive -> [names, order] of its version 1 row
    KeyOf,          \* name -> natural key; names are in raw order themselves
    MaxDisruptions, \* bound on disruptions by workers, scans and outsiders
    MaxApplies,     \* bound on apply runs
    MaxClock        \* bound on the time of plans and backups

\* Names are natural numbers, and so are their keys.
ASSUME PagesAssumption ==
    /\ DOMAIN KeyOf \subseteq Nat /\ KeyOf \in [DOMAIN KeyOf -> Nat]
    /\ \A a \in Signed : Legacy[a].names \in Seq(DOMAIN KeyOf)

Closed == [at |-> "idle"]
NoLabels == [inode |-> 0, stamp |-> 0, version |-> 0, rows |-> <<>>]

VARIABLES
    signatures,     \* archive_content_signatures with archive_pages
    onRecord,       \* archive -> the stamp its current location records
    inode,          \* file identity of the database
    clock,          \* time of plans and backups
    approved,       \* the plan the operator reviewed
    artifact,       \* the backup: file identity, mtime, commits, rows
    report,         \* the backup report: the identity and mtime it verified
    apply,          \* the running apply
    disruptions, applies

recertifyVars ==
    <<signatures, onRecord, inode, clock, approved, artifact, report, apply, disruptions, applies>>

RecertifyInit ==
    /\ signatures = [a \in Signed |->
                 [version |-> 1, names |-> Legacy[a].names,
                  digest |-> [order |-> Legacy[a].order, edition |-> 0], stamp |-> 0]]
    /\ onRecord = [a \in Signed |-> 0]
    /\ inode = 1 /\ clock = 1
    /\ approved = [made |-> FALSE]
    /\ artifact = NoLabels /\ report = NoLabels
    /\ apply = Closed
    /\ disruptions = 0 /\ applies = 0

-----------------------------------------------------------------------------
(* Classification                                                          *)

\* page_order_key: the natural key, ties broken on the raw name.
InPageOrder(m, n) == KeyOf[m] < KeyOf[n] \/ (KeyOf[m] = KeyOf[n] /\ m <= n)
Ordered(names) == \A i, j \in DOMAIN names : i < j => InPageOrder(names[i], names[j])
PageOrder(names) ==
    LET orders == {f \in [DOMAIN names -> DOMAIN names] : IsInjective(f)}
        order == CHOOSE f \in orders : Ordered([i \in DOMAIN names |-> names[f[i]]])
    IN [i \in DOMAIN names |-> names[order[i]]]

Repeats(names) == ~IsInjective(names)
Ties(names) == \E i, j \in DOMAIN names : i # j /\ KeyOf[names[i]] = KeyOf[names[j]]

\* Mutant of SignatureClass: the digest is not recomputed from the stored pages.
ClassifiedByNames(row, recorded) ==
    IF row.stamp # recorded THEN "stale"
    ELSE IF Repeats(row.names) THEN "unresolved"
    ELSE IF Ties(row.names) THEN "tied"
    ELSE IF ~Ordered(row.names) THEN "inconsistent"
    ELSE "order_stable"

\* classify: the first class that applies.
SignatureClass(row, recorded) ==
    IF row.stamp # recorded THEN "stale"
    ELSE IF Repeats(row.names) THEN "unresolved"
    ELSE IF Ties(row.names) THEN "tied"
    ELSE IF ~Ordered(row.names) \/ row.digest.order # PageOrder(row.names) THEN "inconsistent"
    ELSE "order_stable"

\* classify_legacy, build_plan_body: the class of every legacy row, and the
\* basis of the order-stable ones.
Basis(row) == [names |-> row.names, digest |-> row.digest, stamp |-> row.stamp]
Classes(table, recorded) ==
    LET legacy == {a \in Signed : table[a].version = 1}
    IN [a \in legacy |->
          LET class == SignatureClass(table[a], recorded[a])
          IN IF class = "order_stable" THEN [class |-> class, basis |-> Basis(table[a])]
             ELSE [class |-> class]]
Planned == {a \in DOMAIN approved.classes : approved.classes[a].class = "order_stable"}

\* planned_outcome of a row as it is under the write lock.
PlannedOutcome(a) ==
    IF SignatureClass(signatures[a], onRecord[a]) # "order_stable"
       \/ Basis(signatures[a]) # approved.classes[a].basis
    THEN "drifted"
    ELSE IF signatures[a].version = 2 THEN "recertified" ELSE "legacy_as_planned"

-----------------------------------------------------------------------------
(* Plan and backup                                                         *)

\* make_plan: bound to the database file and the time.
MakePlan ==
    /\ apply = Closed /\ clock < MaxClock
    /\ approved' = [made |-> TRUE, target |-> inode, at |-> clock,
                    classes |-> Classes(signatures, onRecord)]
    /\ clock' = clock + 1
    /\ UNCHANGED <<signatures, onRecord, inode, artifact, report, apply, disruptions, applies>>

\* The operator's backup_cli run, and its report.
TakeBackup ==
    /\ apply = Closed /\ clock < MaxClock
    /\ artifact' = [inode |-> artifact.inode + 1, stamp |-> clock, version |-> 0,
                    rows |-> [table |-> signatures, recorded |-> onRecord]]
    /\ report' = artifact'
    /\ clock' = clock + 1
    /\ UNCHANGED <<signatures, onRecord, inode, approved, apply, disruptions, applies>>

-----------------------------------------------------------------------------
(* apply_plan                                                              *)

Refuse == apply' = Closed /\ UNCHANGED signatures
ApplyKeeps == UNCHANGED <<onRecord, inode, clock, approved, artifact, report, disruptions>>

\* BackupWindow.check: the same file, and no commit since it was opened.
WindowHolds ==
    /\ artifact.inode = apply.window.inode /\ artifact.stamp = apply.window.stamp
    /\ artifact.version = apply.window.version

\* verify_target and the first half of verify_backup: the artifact is the one
\* of the report, not older than the plan; its data_version is sampled.
OpenWindow ==
    /\ apply = Closed /\ approved.made /\ applies < MaxApplies
    /\ applies' = applies + 1
    /\ IF /\ approved.target = inode
          /\ artifact.inode # 0
          /\ artifact.stamp = report.stamp
          /\ artifact.stamp >= approved.at
       THEN apply' = [at |-> "opened",
                      window |-> [inode |-> artifact.inode, stamp |-> artifact.stamp,
                                  version |-> artifact.version]]
       ELSE apply' = Closed
    /\ UNCHANGED signatures /\ ApplyKeeps

\* The rest of verify_backup: classifying the backup's own rows gives the plan
\* again, and nothing was committed to it during that read.
VerifyPreimage ==
    /\ apply.at = "opened"
    /\ IF Classes(artifact.rows.table, artifact.rows.recorded) = approved.classes /\ WindowHolds
       THEN apply' = [apply EXCEPT !.at = "verified"] /\ UNCHANGED signatures
       ELSE Refuse
    /\ UNCHANGED applies /\ ApplyKeeps

\* BEGIN IMMEDIATE, then the target and the window again.
BeginImmediate ==
    /\ apply.at = "verified"
    /\ IF approved.target = inode /\ WindowHolds
       THEN /\ apply' = [at |-> "locked", window |-> apply.window,
                         left |-> Planned, relabelled |-> {}]
            /\ UNCHANGED signatures
       ELSE Refuse
    /\ UNCHANGED applies /\ ApplyKeeps

\* Mutant of RelabelRow: a legacy row of the plan is relabelled as it is.
RelabelUnchecked(a) ==
    /\ apply.at = "locked" /\ a \in apply.left
    /\ apply' = [apply EXCEPT !.left = @ \ {a},
                              !.relabelled = IF signatures[a].version = 1
                                             THEN @ \union {a} ELSE @]
    /\ UNCHANGED <<signatures, applies>> /\ ApplyKeeps

\* Each planned row is classified again; one that moved is skipped.
RelabelRow(a) ==
    /\ apply.at = "locked" /\ a \in apply.left
    /\ apply' = [apply EXCEPT !.left = @ \ {a},
                              !.relabelled = IF PlannedOutcome(a) = "legacy_as_planned"
                                             THEN @ \union {a} ELSE @]
    /\ UNCHANGED <<signatures, applies>> /\ ApplyKeeps

\* Mutant of FinalCheck: the window is not looked at again.
FinalCheckSkipped ==
    /\ apply.at = "locked" /\ apply.left = {}
    /\ apply' = [apply EXCEPT !.at = "committing"] /\ UNCHANGED signatures
    /\ UNCHANGED applies /\ ApplyKeeps

\* The last statement before COMMIT.
FinalCheck ==
    /\ apply.at = "locked" /\ apply.left = {}
    /\ IF WindowHolds
       THEN apply' = [apply EXCEPT !.at = "committing"] /\ UNCHANGED signatures
       ELSE Refuse
    /\ UNCHANGED applies /\ ApplyKeeps

CommitLabels ==
    /\ apply.at = "committing"
    /\ signatures' = [a \in Signed |->
                  IF a \in apply.relabelled THEN [signatures[a] EXCEPT !.version = 2] ELSE signatures[a]]
    /\ apply' = Closed
    /\ UNCHANGED applies /\ ApplyKeeps

\* The process dies: SQLite rolls back.
ApplyDies == apply # Closed /\ Refuse /\ UNCHANGED applies /\ ApplyKeeps

-----------------------------------------------------------------------------
(* Everybody else                                                          *)

Change ==
    /\ disruptions < MaxDisruptions /\ disruptions' = disruptions + 1
    /\ UNCHANGED <<clock, approved, report, apply, applies>>
Unlocked == apply.at \notin {"locked", "committing"}

\* A scan records a file that was written since.
LocationMoves(a) ==
    /\ Change /\ Unlocked
    /\ onRecord' = [onRecord EXCEPT ![a] = @ + 1]
    /\ UNCHANGED <<signatures, inode, artifact>>

\* The page stage writes the signature anew, in page order, as version 2.
Rehash(a) ==
    /\ Change /\ Unlocked
    /\ ~Repeats(signatures[a].names)
    /\ LET names == PageOrder(signatures[a].names)
       IN signatures' = [signatures EXCEPT ![a] =
             [version |-> 2, names |-> names,
              digest |-> [order |-> names, edition |-> onRecord[a]], stamp |-> onRecord[a]]]
    /\ UNCHANGED <<onRecord, inode, artifact>>

\* The backup is put over the database: another file under the same path.
Restore ==
    /\ Change /\ Unlocked /\ artifact.inode # 0
    /\ inode' = inode + 1
    /\ signatures' = artifact.rows.table /\ onRecord' = artifact.rows.recorded
    /\ UNCHANGED artifact

\* Somebody commits to the backup: its size and mtime stay, in its WAL.
BackupCommitted(a) ==
    /\ Change /\ artifact.inode # 0
    /\ artifact' = [artifact EXCEPT !.version = @ + 1,
                                    !.rows.table[a].digest.edition = 99]
    /\ UNCHANGED <<signatures, onRecord, inode>>

\* A copy of the database as it is now is put in the backup's place.
BackupReplaced ==
    /\ Change /\ artifact.inode # 0
    /\ artifact' = [inode |-> artifact.inode + 1, stamp |-> clock, version |-> 0,
                    rows |-> [table |-> signatures, recorded |-> onRecord]]
    /\ UNCHANGED <<signatures, onRecord, inode>>

RecertifyNext ==
    \/ MakePlan \/ TakeBackup
    \/ OpenWindow \/ VerifyPreimage \/ BeginImmediate \/ FinalCheck \/ CommitLabels \/ ApplyDies
    \/ \E a \in Signed : RelabelRow(a) \/ LocationMoves(a) \/ Rehash(a) \/ BackupCommitted(a)
    \/ Restore \/ BackupReplaced

RecertifySpec == RecertifyInit /\ [][RecertifyNext]_recertifyVars

-----------------------------------------------------------------------------
(* Properties                                                              *)

\* Version 2 means one thing, whoever wrote it: the digest was taken in the
\* order version 2 gives the stored names.
VersionTwoIsPageOrder ==
    \A a \in Signed : signatures[a].version = 2 => signatures[a].digest.order = PageOrder(signatures[a].names)

\* The apply relabels only what the operator reviewed, and only while it is
\* still bound to the location on record.
RelabelsAsReviewed ==
    [][apply.at = "committing" => \A a \in Signed :
        signatures'[a].version # signatures[a].version =>
            /\ a \in Planned /\ Basis(signatures[a]) = approved.classes[a].basis
            /\ signatures[a].stamp = onRecord[a]]_recertifyVars

\* When the transaction goes to its COMMIT, the backup still holds every row
\* it is about to relabel as it was.
RelabelsAreRecoverable ==
    [][apply.at # "committing" /\ apply'.at = "committing" =>
        \A a \in apply'.relabelled :
            /\ artifact.rows.table[a] = signatures[a]
            /\ artifact.rows.recorded[a] = onRecord[a]]_recertifyVars

\* A relabelled signature is in page order, was reviewed, and is in a backup.
RecertifySafety == []VersionTwoIsPageOrder /\ RelabelsAsReviewed /\ RelabelsAreRecoverable

=============================================================================
