------------------------------ MODULE Removals ------------------------------
(***************************************************************************)
(* The two tools that take files out of the library: archive_quarantine    *)
(* for archives whose inspection failed, archive_duplicate_resolution for  *)
(* files under the extraneous root that have an organized twin.  Both move *)
(* the file first, commit the database second, and move the file back when *)
(* the commit failed.                                                      *)
(*                                                                         *)
(* A file is its bytes.  The quarantine folder is flat: a file there has a *)
(* name and a number; backups keep the path under the extraneous root.     *)
(***************************************************************************)
EXTENDS Naturals, Sequences, FiniteSets, SequencesExt

CONSTANTS
    ArchivePaths,         \* archive paths; the archive of a path is named by it
    Extraneous,     \* those under the extraneous root
    NameAt,         \* path -> the case-folded quarantine name proposed for it
    Corrupt,        \* archives whose inspect_archive job failed for good
    Stored,         \* archive -> the digest stored in archive_hashes
    Occupied,       \* destinations where an earlier quarantine left a file
    MaxRuns,        \* bound on runs of the duplicate tool
    MaxMeddling,    \* bound on changes others make to the library
    MaxFailures     \* bound on failing commits, failing moves and crashes

NoFile == "none"
ASSUME ExtraneousAssumption == Extraneous \subseteq ArchivePaths /\ Corrupt \subseteq ArchivePaths
ASSUME StoredAssumption ==
    /\ DOMAIN Stored = ArchivePaths /\ DOMAIN NameAt = ArchivePaths
    /\ \A p \in ArchivePaths : Stored[p] # NoFile
ASSUME RemovalsAssumption == IsFiniteSet(ArchivePaths) /\ MaxRuns \in Nat

NewBytes == "new"
Names == {NameAt[p] : p \in ArchivePaths}
Numbers == 1..(Cardinality(ArchivePaths) + 1)     \* number 1 stands for no suffix

VARIABLES
    library,        \* path -> bytes, or NoFile
    quarantine,     \* <<name, number>> -> bytes, or NoFile
    backup,         \* <<run, path>> -> bytes under that run's removed-files
    rowCurrent,     \* archives whose file_locations row is current
    quarantined,    \* archive_quarantine: archive -> <<name, number>>
    removed,        \* archives with a duplicate_removed event
    busy,           \* archives with an active job
    mover,          \* the running execute_quarantine
    runs,           \* number of runs of the duplicate tool
    deduper,        \* the running execute_duplicate_resolution
    meddled,        \* number of changes others made
    failures,       \* number of failures so far
    strayed         \* history: archives a crash or a failed move back left
                    \* out of place, or somebody else touched meanwhile

files == <<library, quarantine, backup>>
records == <<rowCurrent, quarantined, removed>>
removalVars == <<files, records, busy, mover, runs, deduper, meddled, failures, strayed>>

Off == [phase |-> "off"]

RemovalsInit ==
    /\ library = [p \in ArchivePaths |-> Stored[p]]
    /\ quarantine = [d \in Names \X Numbers |-> IF d \in Occupied THEN "old" ELSE NoFile]
    /\ backup = [d \in (1..MaxRuns) \X ArchivePaths |-> NoFile]
    /\ rowCurrent = ArchivePaths
    /\ quarantined = <<>> /\ removed = {}
    /\ busy = {}
    /\ mover = Off /\ runs = 0 /\ deduper = Off
    /\ meddled = 0 /\ failures = 0 /\ strayed = {}

Fails == failures < MaxFailures /\ failures' = failures + 1

-----------------------------------------------------------------------------
(* archive_quarantine --confirm                                            *)

QuarantineCandidates == {a \in Corrupt \cap rowCurrent : a \notin DOMAIN quarantined}

\* Mutant of StartQuarantine: the root's own files are not looked at.
StartQuarantineBlind ==
    /\ mover = Off /\ QuarantineCandidates # {}
    /\ mover' = [phase |-> "next", queue |-> SetToSeq(QuarantineCandidates), names |-> {}]
    /\ UNCHANGED <<files, records, busy, runs, deduper, meddled, failures, strayed>>

\* find_candidates, and the names of the files already in the root.
StartQuarantine ==
    /\ mover = Off /\ QuarantineCandidates # {}
    /\ mover' = [phase |-> "next", queue |-> SetToSeq(QuarantineCandidates),
                 names |-> {d \in Names \X Numbers : quarantine[d] # NoFile}]
    /\ UNCHANGED <<files, records, busy, runs, deduper, meddled, failures, strayed>>

\* resolve_destination_path: the first number not yet taken.
FreeNumbers(a) == {k \in Numbers : <<NameAt[a], k>> \notin mover.names}
Destination(a) == <<NameAt[a], CHOOSE k \in FreeNumbers(a) : \A l \in FreeNumbers(a) : k <= l>>

\* The next candidate, for which a number within Numbers, a bound, is left.
HasNext == mover.phase = "next" /\ mover.queue # <<>> /\ FreeNumbers(Head(mover.queue)) # {}

TakeName == [mover EXCEPT !.names = @ \union {Destination(Head(mover.queue))},
                          !.queue = Tail(@)]

\* The source is gone, or the move raised: reported, and the batch goes on.
QuarantineSkips ==
    /\ HasNext
    /\ IF library[Head(mover.queue)] = NoFile THEN UNCHANGED failures ELSE Fails
    /\ mover' = TakeName
    /\ UNCHANGED <<files, records, busy, runs, deduper, meddled, strayed>>

QuarantineMoves ==
    /\ HasNext
    /\ LET a == Head(mover.queue)
       IN /\ library[a] # NoFile
          /\ quarantine' = [quarantine EXCEPT ![Destination(a)] = library[a]]
          /\ library' = [library EXCEPT ![a] = NoFile]
          /\ mover' = [phase |-> "moved", archive |-> a, to |-> Destination(a),
                       queue |-> TakeName.queue, names |-> TakeName.names]
    /\ UNCHANGED <<backup, records, busy, runs, deduper, meddled, failures, strayed>>

NextCandidate == [phase |-> "next", queue |-> mover.queue, names |-> mover.names]

\* record_quarantine: a second row for the archive violates its key.
RecordQuarantine ==
    /\ mover.phase = "moved" /\ mover.archive \notin DOMAIN quarantined
    /\ rowCurrent' = rowCurrent \ {mover.archive}
    /\ quarantined' = [a \in DOMAIN quarantined \union {mover.archive} |->
                          IF a = mover.archive THEN mover.to ELSE quarantined[a]]
    /\ mover' = NextCandidate
    /\ UNCHANGED <<files, removed, busy, runs, deduper, meddled, failures, strayed>>

\* Mutant of QuarantineRestores: the failed commit is only reported.
QuarantineGivesUp ==
    /\ mover.phase = "moved" /\ Fails
    /\ mover' = NextCandidate
    /\ UNCHANGED <<files, records, busy, runs, deduper, meddled, strayed>>

\* The commit failed, and the file is moved back over whatever is there.
QuarantineRestores ==
    /\ mover.phase = "moved" /\ Fails
    /\ library' = [library EXCEPT ![mover.archive] = quarantine[mover.to]]
    /\ quarantine' = [quarantine EXCEPT ![mover.to] = NoFile]
    /\ mover' = NextCandidate
    /\ UNCHANGED <<backup, records, busy, runs, deduper, meddled, strayed>>

\* The commit failed, and so did the move back: that error is dropped.
QuarantineStrands ==
    /\ mover.phase = "moved" /\ Fails
    /\ strayed' = strayed \union {mover.archive}
    /\ mover' = NextCandidate
    /\ UNCHANGED <<files, records, busy, runs, deduper, meddled>>

QuarantineEnds ==
    /\ \/ mover.phase = "next" /\ mover.queue = <<>> /\ UNCHANGED <<failures, strayed>>
       \/ mover.phase = "next" /\ Fails /\ UNCHANGED strayed
       \/ /\ mover.phase = "moved" /\ Fails                   \* it is killed
          /\ strayed' = strayed \union {mover.archive}
    /\ mover' = Off
    /\ UNCHANGED <<files, records, busy, runs, deduper, meddled>>

-----------------------------------------------------------------------------
(* archive_duplicate_resolution --confirm                                  *)

\* build_plan: exactly one organized row with the digest, and no active job.
Twins(a) == {o \in rowCurrent \ Extraneous : Stored[o] = Stored[a]}
DuplicateCandidates ==
    {a \in rowCurrent \cap Extraneous :
        Cardinality(Twins(a)) = 1 /\ (Twins(a) \union {a}) \cap busy = {}}

StartDeduping ==
    /\ deduper = Off /\ runs < MaxRuns /\ DuplicateCandidates # {}
    /\ runs' = runs + 1                                 \* a folder of its own
    /\ deduper' = [phase |-> "next",
                   queue |-> SetToSeq({<<a, CHOOSE o \in Twins(a) : TRUE>> :
                                          a \in DuplicateCandidates})]
    /\ UNCHANGED <<files, records, busy, mover, meddled, failures, strayed>>

Source == Head(deduper.queue)[1]
Twin == Head(deduper.queue)[2]
Kept == <<runs, Source>>
NextDuplicate == [phase |-> "next", queue |-> Tail(deduper.queue)]

\* validate_candidate and _verify_live_files.
Verified ==
    /\ backup[Kept] = NoFile
    /\ {Source, Twin} \subseteq rowCurrent /\ {Source, Twin} \cap busy = {}
    /\ \A a \in {Source, Twin} : library[a] = Stored[Source]

VerifyDuplicate ==
    /\ deduper.phase = "next" /\ deduper.queue # <<>>
    /\ deduper' = IF Verified THEN [deduper EXCEPT !.phase = "verified"]
                  ELSE NextDuplicate
    /\ UNCHANGED <<files, records, busy, mover, runs, meddled, failures, strayed>>

MoveDuplicate ==
    /\ deduper.phase = "verified" /\ library[Source] # NoFile
    /\ backup' = [backup EXCEPT ![Kept] = library[Source]]
    /\ library' = [library EXCEPT ![Source] = NoFile]
    /\ deduper' = [deduper EXCEPT !.phase = "moved"]
    /\ UNCHANGED <<quarantine, records, busy, mover, runs, meddled, failures, strayed>>

\* The source went away after it was verified, or the move raised.
MoveDuplicateFails ==
    /\ deduper.phase = "verified"
    /\ IF library[Source] = NoFile THEN UNCHANGED failures ELSE Fails
    /\ deduper' = NextDuplicate
    /\ UNCHANGED <<files, records, busy, mover, runs, meddled, strayed>>

\* record_removal: refused unless the source's row is still current.
RecordRemoval ==
    /\ deduper.phase = "moved" /\ Source \in rowCurrent
    /\ rowCurrent' = rowCurrent \ {Source}
    /\ removed' = removed \union {Source}
    /\ deduper' = NextDuplicate
    /\ UNCHANGED <<files, quarantined, busy, mover, runs, meddled, failures, strayed>>

CommitFails == IF Source \in rowCurrent THEN Fails ELSE UNCHANGED failures

DuplicateRestores ==
    /\ deduper.phase = "moved" /\ CommitFails
    /\ library' = [library EXCEPT ![Source] = backup[Kept]]
    /\ backup' = [backup EXCEPT ![Kept] = NoFile]
    /\ deduper' = NextDuplicate
    /\ UNCHANGED <<quarantine, records, busy, mover, runs, meddled, strayed>>

DuplicateStrands ==
    /\ deduper.phase = "moved" /\ Fails
    /\ strayed' = strayed \union {Source}
    /\ deduper' = NextDuplicate
    /\ UNCHANGED <<files, records, busy, mover, runs, meddled>>

DedupingEnds ==
    /\ \/ deduper.phase = "next" /\ deduper.queue = <<>> /\ UNCHANGED <<failures, strayed>>
       \/ deduper.phase \in {"next", "verified"} /\ Fails /\ UNCHANGED strayed
       \/ deduper.phase = "moved" /\ Fails /\ strayed' = strayed \union {Source}
    /\ deduper' = Off
    /\ UNCHANGED <<files, records, busy, mover, runs, meddled>>

-----------------------------------------------------------------------------
(* Everybody else                                                          *)

Underway == (IF mover.phase = "moved" THEN {mover.archive} ELSE {})
            \union (IF deduper.phase = "moved" THEN {Source} ELSE {})

\* Discovery: a current row without its file is retired, a file makes its
\* row current again.
Rediscover(p) ==
    /\ rowCurrent' = IF library[p] = NoFile THEN rowCurrent \ {p} ELSE rowCurrent \union {p}
    /\ rowCurrent' # rowCurrent
    /\ strayed' = strayed \union ({p} \cap Underway)
    /\ UNCHANGED <<files, quarantined, removed, busy, mover, runs, deduper, meddled, failures>>

Meddle(p) ==
    /\ meddled < MaxMeddling /\ meddled' = meddled + 1
    /\ library' = [library EXCEPT ![p] = IF @ = NoFile THEN NewBytes ELSE NoFile]
    /\ strayed' = strayed \union {p}
    /\ UNCHANGED <<quarantine, backup, records, busy, mover, runs, deduper, failures>>

JobChanges(p) ==
    /\ meddled < MaxMeddling /\ meddled' = meddled + 1
    /\ busy' = IF p \in busy THEN busy \ {p} ELSE busy \union {p}
    /\ UNCHANGED <<files, records, mover, runs, deduper, failures, strayed>>

QuarantineStep ==
    \/ StartQuarantine \/ QuarantineSkips \/ QuarantineMoves \/ RecordQuarantine
    \/ QuarantineRestores \/ QuarantineStrands \/ QuarantineEnds
DedupeStep ==
    \/ StartDeduping \/ VerifyDuplicate \/ MoveDuplicate \/ MoveDuplicateFails
    \/ RecordRemoval \/ DuplicateRestores \/ DuplicateStrands \/ DedupingEnds
RemovalsNext ==
    \/ QuarantineStep \/ DedupeStep
    \/ \E p \in ArchivePaths : Rediscover(p) \/ Meddle(p) \/ JobChanges(p)

RemovalsSpec == RemovalsInit /\ [][RemovalsNext]_removalVars

-----------------------------------------------------------------------------
(* Properties                                                              *)

FileCount == Cardinality({p \in ArchivePaths : library[p] # NoFile})
             + Cardinality({d \in DOMAIN quarantine : quarantine[d] # NoFile})
             + Cardinality({d \in DOMAIN backup : backup[d] # NoFile})

\* No file is overwritten: not by a second one of the same name, not by one
\* quarantined earlier, not by the backup of another run.  The exception is a
\* file that arrives where one is about to be moved back to.
NothingOverwritten ==
    [][<<library, quarantine, backup>>' # <<library, quarantine, backup>> /\ meddled' = meddled =>
          \/ FileCount' = FileCount
          \/ \E p \in Underway : library[p] # NoFile]_removalVars

\* execute_quarantine's docstring: "so the filesystem and database never
\* disagree about where an archive lives".
RowsTellWhere ==
    \A a \in ArchivePaths \ (Underway \union strayed) :
        /\ a \in rowCurrent <=> library[a] # NoFile
        /\ a \in rowCurrent \/ a \in removed \/ a \in DOMAIN quarantined
        /\ a \in DOMAIN quarantined => quarantine[quarantined[a]] = Stored[a]
        /\ a \in removed => \E r \in 1..MaxRuns : backup[<<r, a>>] = Stored[a]

\* Through failures and crashes the rows tell where each archive is, and no move
\* of either tool puts a file over another.
RemovalsSafety == []RowsTellWhere /\ NothingOverwritten

=============================================================================
