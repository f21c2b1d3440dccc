----------------------------- MODULE ArchiveStages -----------------------------
(***************************************************************************)
(* The ingest stages of one archive identity: structural inspection, whole *)
(* file hash with its revision, page hashes with the content signature,    *)
(* perceptual hashes; and what else rewrites the same rows: the discovery  *)
(* scan, location repair by content, source-drift recovery and retirement. *)
(*                                                                         *)
(* A file is its bytes and its stamp (size and mtime); every overwrite and *)
(* copy gets a new stamp, a move keeps it.  The stages' jobs are those of  *)
(* JobQueue, reduced to their status.                                      *)
(***************************************************************************)
EXTENDS Naturals, Sequences, FiniteSets

CONSTANTS
    Places,         \* paths the archive's file may be at
    Home,           \* the path it was discovered at
    Bytes,          \* contents of files
    Original,       \* the content it was discovered with
    PageNames,      \* content -> the ordered image names of its pages
    Operators,      \* subset of {"repair", "drift", "retire"}: tools in use
    MaxChanges      \* bound on changes of files, deaths of workers and retirements

ASSUME HomeAssumption == Home \in Places
ASSUME PageNamesAssumption == Original \in Bytes /\ DOMAIN PageNames = Bytes

Stages == {"inspect", "hash", "pages", "perceptual"}
None == [stamp |-> 0]

VARIABLES
    disk,       \* path -> [bytes, stamp] of the file there, None without one
    rows,       \* file_locations: path -> [owner, status, stamp]
    lastSeen,   \* the path of this archive's row with the newest last_seen_at
    inspection, \* archive_inspections: [bytes, stamp], None without a row
    hash,       \* archive_hashes
    signature,  \* archive_content_signatures, with archive_pages
    perceptual, \* contents the dhash and phash rows were computed from, a set
    lineage,    \* archive_revisions: digests in the order of their ordinals
    current,    \* ordinal current_revision_id names; 0 is the provisional one
    job,        \* stage -> status of its newest job for this archive
    worker,     \* stage -> the handler's locals
    repair,     \* the plan of a running location repair
    drift,      \* the analysis an operator reviewed for source-drift recovery
    retired,    \* whether the archive is in archive_retirements
    changes,    \* number of changes of files, deaths and retirements so far
    overtaken   \* history: evidence was saved while a repair was planned

stageEvidence == <<inspection, hash, signature, perceptual, lineage, current>>
tools == <<repair, drift, retired>>
stageVars == <<disk, rows, lastSeen, stageEvidence, job, worker, tools, changes, overtaken>>

Present(p) == disk[p] # None
Mine(p) == rows[p].owner = "this" /\ rows[p].status = "current"
MyPlaces == {p \in Places : Mine(p)}

\* ArchiveInspectionRepository.current_location: the newest last_seen_at wins.
CurrentLocation == IF lastSeen \in MyPlaces THEN lastSeen
                   ELSE CHOOSE p \in MyPlaces : TRUE

Active(s) == job[s] \in {"pending", "running", "drifted"}
Unknown == [owner |-> "none", status |-> "unknown", stamp |-> 0]
Free == [phase |-> "free"]

StagesInit ==
    /\ disk = [p \in Places |-> IF p = Home THEN [bytes |-> Original, stamp |-> 1]
                                ELSE None]
    /\ rows = [p \in Places |->
                  IF p = Home THEN [owner |-> "this", status |-> "current", stamp |-> 1]
                  ELSE Unknown]
    /\ lastSeen = Home
    /\ inspection = None /\ hash = None /\ signature = None /\ perceptual = {}
    /\ lineage = <<>> /\ current = 0
    /\ job = [s \in Stages |-> IF s = "inspect" THEN "pending" ELSE "none"]
    /\ worker = [s \in Stages |-> Free]
    /\ repair = Free /\ drift = Free /\ retired = FALSE
    /\ changes = 1
    /\ overtaken = FALSE

-----------------------------------------------------------------------------
(* Enqueueing                                                              *)

\* enqueue_if_absent("inspect_archive"): nothing is added beside an active job.
InspectIfAbsent(jobs) ==
    IF jobs["inspect"] \in {"pending", "running"} THEN jobs
    ELSE [jobs EXCEPT !["inspect"] = "pending"]

\* The enqueue_missing of the hash, page and perceptual stages: evidence of
\* the stage before matches the current location, its own does not, and no
\* job of it is active (for the last two: nor has failed).
HashMissing ==
    /\ ~Active("hash")
    /\ \E p \in MyPlaces : /\ inspection.stamp = rows[p].stamp
                           /\ hash.stamp # rows[p].stamp

PagesMissing ==
    /\ ~Active("pages") /\ job["pages"] # "failed"
    /\ \E p \in MyPlaces : /\ hash.stamp = rows[p].stamp
                           /\ signature.stamp # rows[p].stamp

\* _eligible_archive_rows, then select_candidates: not retired, one current
\* location, and a file there.
PerceptualMissing ==
    /\ ~Active("perceptual") /\ job["perceptual"] # "failed"
    /\ perceptual = {} /\ ~retired
    /\ Cardinality(MyPlaces) = 1
    /\ \E p \in MyPlaces : signature.stamp = rows[p].stamp /\ Present(p)

EnqueueMissing(s) ==
    /\ CASE s = "hash" -> HashMissing
         [] s = "pages" -> PagesMissing
         [] s = "perceptual" -> PerceptualMissing
         [] OTHER -> FALSE
    /\ job' = [job EXCEPT ![s] = "pending"]
    /\ UNCHANGED <<disk, rows, lastSeen, stageEvidence, worker, tools, changes, overtaken>>

-----------------------------------------------------------------------------
(* The handlers                                                            *)

\* A worker claims the job and its handler reads the current location.
Locate(s) ==
    /\ job[s] \in {"pending", "drifted"} /\ MyPlaces # {}
    /\ job' = [job EXCEPT ![s] = "running"]
    /\ worker' = [worker EXCEPT ![s] =
                     [phase |-> "located", path |-> CurrentLocation,
                      recorded |-> rows[CurrentLocation].stamp]]
    /\ UNCHANGED <<disk, rows, lastSeen, stageEvidence, tools, changes, overtaken>>

\* It reads the file there; stat before and after agree, or the job fails.
Read(s) ==
    /\ worker[s].phase = "located" /\ Present(worker[s].path)
    /\ worker' = [worker EXCEPT ![s] =
                     [phase |-> "read", path |-> @.path, recorded |-> @.recorded,
                      bytes |-> disk[@.path].bytes, stamp |-> disk[@.path].stamp]]
    /\ UNCHANGED <<disk, rows, lastSeen, stageEvidence, job, tools, changes, overtaken>>

Result(s) == [bytes |-> worker[s].bytes, stamp |-> worker[s].stamp]
Done(s) == /\ job' = [job EXCEPT ![s] = "completed"]
           /\ worker' = [worker EXCEPT ![s] = Free]

\* ArchiveInspectionRepository.save: the stamp is the one recorded for the
\* location when the job began, not one observed while reading.
SaveInspection ==
    /\ worker["inspect"].phase = "read"
    /\ inspection' = [bytes |-> worker["inspect"].bytes,
                      stamp |-> worker["inspect"].recorded]
    /\ Done("inspect")
    /\ UNCHANGED <<disk, rows, lastSeen, hash, signature, perceptual, lineage,
                   current, tools, changes, overtaken>>

\* Mutant of Establish: known bytes keep the revision that is current.
EstablishNew(b) ==
    LET known == {i \in DOMAIN lineage : lineage[i] = b}
    IN /\ lineage' = IF known = {} THEN Append(lineage, b) ELSE lineage
       /\ current' = IF known = {} THEN Len(lineage') ELSE current

\* RevisionRepository.record_or_reuse and set_current, for these bytes.
Establish(b) ==
    LET known == {i \in DOMAIN lineage : lineage[i] = b}
    IN /\ lineage' = IF known = {} THEN Append(lineage, b) ELSE lineage
       /\ current' = CHOOSE i \in DOMAIN lineage' : lineage'[i] = b

\* _assert_still_current and _assert_file_matches, inside the transaction.
StillHolds(w) == /\ MyPlaces # {} /\ CurrentLocation = w.path
                 /\ disk[w.path].stamp = w.stamp

\* ArchiveHashRepository.save: hash, location, revision, and an inspection
\* when the location's stamp was another.
SaveHash ==
    LET w == worker["hash"]
        other == rows[w.path].stamp # w.stamp
        jobs == [job EXCEPT !["hash"] = "completed"]
    IN /\ w.phase = "read" /\ StillHolds(w)
       /\ hash' = Result("hash")
       /\ rows' = [rows EXCEPT ![w.path].stamp = w.stamp]
       /\ lastSeen' = w.path
       /\ Establish(w.bytes)
       /\ job' = IF other THEN InspectIfAbsent(jobs) ELSE jobs
       /\ overtaken' = (overtaken \/ repair # Free)
       /\ worker' = [worker EXCEPT !["hash"] = Free]
       /\ UNCHANGED <<disk, inspection, signature, perceptual, tools, changes>>

\* ArchivePageHashRepository.save: the pages are replaced, and deleting them
\* cascades to their perceptual hashes.
SavePages ==
    /\ worker["pages"].phase = "read"
    /\ signature' = Result("pages")
    /\ perceptual' = {}
    /\ Done("pages")
    /\ overtaken' = (overtaken \/ repair # Free)
    /\ UNCHANGED <<disk, rows, lastSeen, inspection, hash, lineage, current,
                   tools, changes>>

NamesMatch(b) == signature # None /\ PageNames[signature.bytes] = PageNames[b]

\* ArchivePerceptualHashRepository.save: only the page names are compared
\* with the stored inventory.
SavePerceptual ==
    /\ worker["perceptual"].phase = "read"
    /\ NamesMatch(worker["perceptual"].bytes)
    /\ perceptual' = {worker["perceptual"].bytes}
    /\ Done("perceptual")
    /\ UNCHANGED <<disk, rows, lastSeen, inspection, hash, signature, lineage,
                   current, tools, changes, overtaken>>

\* The inventory differs: the job is retried with that error until its
\* attempts are used up.
InventoryDiffers ==
    /\ worker["perceptual"].phase = "read"
    /\ ~NamesMatch(worker["perceptual"].bytes)
    /\ \E status \in {"drifted", "failed"} :
          job' = [job EXCEPT !["perceptual"] = status]
    /\ worker' = [worker EXCEPT !["perceptual"] = Free]
    /\ UNCHANGED <<disk, rows, lastSeen, stageEvidence, tools, changes, overtaken>>

\* The file is not there, or moved on before a hash of it was recorded: a
\* category that is retried, until the attempts are used up.
SourceFails(s) ==
    /\ \/ worker[s].phase = "located" /\ ~Present(worker[s].path)
       \/ s = "hash" /\ worker[s].phase = "read" /\ ~StillHolds(worker[s])
    /\ \E status \in {"pending", "failed"} : job' = [job EXCEPT ![s] = status]
    /\ worker' = [worker EXCEPT ![s] = Free]
    /\ UNCHANGED <<disk, rows, lastSeen, stageEvidence, tools, changes, overtaken>>

\* Without a current location every attempt fails.
NoLocation(s) ==
    /\ job[s] \in {"pending", "drifted"} /\ MyPlaces = {}
    /\ job' = [job EXCEPT ![s] = "failed"]
    /\ UNCHANGED <<disk, rows, lastSeen, stageEvidence, worker, tools, changes, overtaken>>

\* The worker dies and its job is recovered (JobQueue.RecoverRows).
WorkerDies(s) ==
    /\ worker[s].phase # "free" /\ changes < MaxChanges
    /\ changes' = changes + 1
    /\ job' = [job EXCEPT ![s] = "pending"]
    /\ worker' = [worker EXCEPT ![s] = Free]
    /\ UNCHANGED <<disk, rows, lastSeen, stageEvidence, tools, overtaken>>

-----------------------------------------------------------------------------
(* Discovery, on this archive's rows (LibraryScan has the scan itself)     *)

\* record_archive of a file found at p.
ScanRecords(p) ==
    /\ Present(p)
    /\ rows[p] # [rows[p] EXCEPT !.status = "current", !.stamp = disk[p].stamp]
    /\ rows' = [rows EXCEPT ![p] =
                   [owner |-> IF @.owner = "none" THEN "other" ELSE @.owner,
                    status |-> "current", stamp |-> disk[p].stamp]]
    /\ IF rows[p].owner = "this"
       THEN /\ job' = InspectIfAbsent(job)
            /\ lastSeen' = p
       ELSE UNCHANGED <<job, lastSeen>>
    /\ UNCHANGED <<disk, stageEvidence, worker, tools, changes, overtaken>>

\* mark_missing.
ScanRetires(p) ==
    /\ ~Present(p) /\ rows[p].status = "current"
    /\ rows' = [rows EXCEPT ![p].status = "retired"]
    /\ lastSeen' = IF rows[p].owner = "this" THEN p ELSE lastSeen
    /\ UNCHANGED <<disk, stageEvidence, job, worker, tools, changes, overtaken>>

-----------------------------------------------------------------------------
(* Location repair by content                                              *)

\* Mutant of Coherent: a hash and a signature are enough.
CoherentIfPresent == hash # None /\ signature # None
Coherent == hash # None /\ signature # None /\ hash.stamp = signature.stamp

\* ownership_refusal: no other archive's row, current or retired, is there.
Claimable(p) == rows[p].owner # "other"

\* find_broken_locations and plan_repairs, for the current location at p: the
\* stored digest must be found at p itself, or at exactly one other place.
PlanRepair(p) ==
    LET plan(to) == repair' = [phase |-> "planned", from |-> p, to |-> to,
                               bytes |-> hash.bytes]
        matches == {q \in Places : Present(q) /\ disk[q].bytes = hash.bytes}
        claimable == {q \in matches : Claimable(q)}
    IN /\ "repair" \in Operators /\ repair = Free
       /\ Mine(p) /\ disk[p].stamp # rows[p].stamp
       /\ Coherent
       /\ IF Present(p) THEN p \in matches /\ plan(p)
          ELSE Cardinality(claimable) = 1 /\ \E q \in claimable : plan(q)
       /\ UNCHANGED <<disk, rows, lastSeen, stageEvidence, job, worker, drift, retired,
                      changes, overtaken>>

\* _apply_within_transaction: ownership, the planned location and the digest
\* of the target are checked again, the coherence of the evidence is not.
ApplyRepair ==
    LET from == repair.from
        to == repair.to
    IN /\ repair # Free
       /\ repair' = Free
       /\ IF Claimable(to) /\ rows[from].status = "current"
             /\ Present(to) /\ disk[to].bytes = repair.bytes
          THEN /\ rows' = [p \in Places |->
                      IF p = to THEN [owner |-> "this", status |-> "current",
                                      stamp |-> disk[to].stamp]
                      ELSE IF p = from THEN [rows[p] EXCEPT !.status = "retired"]
                      ELSE rows[p]]
               /\ lastSeen' = to
               /\ signature' = IF signature = None THEN None
                               ELSE [signature EXCEPT !.stamp = disk[to].stamp]
          ELSE UNCHANGED <<rows, lastSeen, signature>>
       /\ UNCHANGED <<disk, inspection, hash, perceptual, lineage, current, job,
                      worker, drift, retired, changes, overtaken>>

-----------------------------------------------------------------------------
(* Source-drift recovery of a pending perceptual job                       *)

NoOtherJob == \A s \in Stages \ {"perceptual"} : job[s] \notin {"pending", "running"}

\* analyze_source_drift finds the job recoverable.
AnalyzeDrift ==
    /\ "drift" \in Operators /\ drift = Free
    /\ job["perceptual"] = "drifted" /\ NoOtherJob /\ MyPlaces # {}
    /\ LET p == CurrentLocation
       IN /\ Present(p)
          /\ rows[p].stamp # disk[p].stamp \/ ~NamesMatch(disk[p].bytes)
          /\ drift' = [phase |-> "reviewed", path |-> p, recorded |-> rows[p].stamp,
                       stamp |-> disk[p].stamp]
    /\ UNCHANGED <<disk, rows, lastSeen, stageEvidence, job, worker, repair, retired,
                   changes, overtaken>>

\* apply_source_drift_recovery: everything reviewed must still hold before
\* and after the three saves, or nothing is written.
ApplyDrift ==
    LET p == drift.path
        file == disk[p]
    IN /\ drift # Free
       /\ drift' = Free
       /\ IF /\ job["perceptual"] = "drifted" /\ NoOtherJob
             /\ Mine(p) /\ CurrentLocation = p /\ rows[p].stamp = drift.recorded
             /\ Present(p) /\ file.stamp = drift.stamp
          THEN /\ hash' = file /\ inspection' = file /\ signature' = file
               /\ perceptual' = {}
               /\ Establish(file.bytes)
               /\ rows' = [rows EXCEPT ![p].stamp = file.stamp]
               /\ lastSeen' = p
               /\ job' = [job EXCEPT !["perceptual"] = "pending"]
               /\ overtaken' = (overtaken \/ repair # Free)
          ELSE UNCHANGED <<rows, lastSeen, stageEvidence, job, overtaken>>
       /\ UNCHANGED <<disk, worker, repair, retired, changes>>

\* retire and reverse_retirement.
Retire ==
    /\ "retire" \in Operators
    /\ changes < MaxChanges
    /\ changes' = changes + 1
    /\ retired' = ~retired
    /\ UNCHANGED <<disk, rows, lastSeen, stageEvidence, job, worker, repair, drift, overtaken>>

-----------------------------------------------------------------------------
(* The library's other users                                               *)

FileChanges ==
    /\ changes < MaxChanges
    /\ changes' = changes + 1
    /\ \/ \E p \in Places, b \in Bytes :            \* written anew, or restored
             disk' = [disk EXCEPT ![p] = [bytes |-> b, stamp |-> changes + 1]]
       \/ \E p, q \in Places :                      \* moved
             /\ Present(p) /\ ~Present(q)
             /\ disk' = [disk EXCEPT ![p] = None, ![q] = disk[p]]
       \/ \E p \in Places :                         \* removed
             Present(p) /\ disk' = [disk EXCEPT ![p] = None]
    /\ UNCHANGED <<rows, lastSeen, stageEvidence, job, worker, tools, overtaken>>

Handler(s) ==
    \/ Locate(s) \/ Read(s) \/ SourceFails(s) \/ NoLocation(s)
    \/ s = "inspect" /\ SaveInspection
    \/ s = "hash" /\ SaveHash
    \/ s = "pages" /\ SavePages
    \/ s = "perceptual" /\ (SavePerceptual \/ InventoryDiffers)
Scan == \E p \in Places : ScanRecords(p) \/ ScanRetires(p)

StagesNext ==
    \/ \E s \in Stages : EnqueueMissing(s) \/ Handler(s) \/ WorkerDies(s)
    \/ Scan
    \/ \E p \in Places : PlanRepair(p)
    \/ ApplyRepair \/ AnalyzeDrift \/ ApplyDrift \/ Retire
    \/ FileChanges

StagesSpec == StagesInit /\ [][StagesNext]_stageVars

-----------------------------------------------------------------------------
(* Properties                                                              *)

\* What location repair relies on: a hash and a signature of the same stamp
\* were computed from the same bytes.
EvidenceAgrees == ~overtaken /\ Coherent => hash.bytes = signature.bytes

\* archive_hashes and current_revision_id name the same bytes, and no bytes
\* have two revisions.
HashNamesRevision ==
    /\ hash # None => current > 0 /\ lineage[current] = hash.bytes
    /\ \A i, j \in DOMAIN lineage : lineage[i] = lineage[j] => i = j

\* Whatever the stages, the repairs and the file did: the digests name the
\* revision, and evidence of one revision agrees.
StagesSafety == HashNamesRevision /\ EvidenceAgrees

=============================================================================
