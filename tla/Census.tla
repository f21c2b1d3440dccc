-------------------------------- MODULE Census --------------------------------
(***************************************************************************)
(* The selection path of the perceptual stage and the census that reports  *)
(* on it, for one archive: the eligibility predicate, its explanation, the *)
(* shared candidate selection, enqueue_missing, and classify's axes.       *)
(*                                                                         *)
(* What other components do to the archive's rows is one action each.      *)
(***************************************************************************)
EXTENDS Naturals, Sequences, FiniteSets, TLC

CONSTANTS
    Commands,       \* processes that run enqueue_missing
    MaxJobs,        \* bound on perceptual jobs of the archive
    MaxFacts        \* bound on changes made by other components

VARIABLES
    currentStamps,    \* file_locations rows of the archive that are current: stamps
    onDisk,     \* what a stat of the current path would say
    inventory,  \* archive_content_signatures: [pages, stamp], or NoSignature
    unhashed,   \* archive_pages rows without a hash or dimensions
    jobs,       \* its perceptual jobs by id: [status, ended]
    endings,      \* number of jobs that ended, their completed_at
    decided,    \* its disposition
    command,    \* command -> the phase its enqueue_missing is in
    facts,      \* number of changes by other components
    newest      \* history: how the job that ended last ended

censusVars == <<currentStamps, onDisk, inventory, unhashed, jobs, endings, decided,
                command, facts, newest>>

NoSignature == [pages |-> 0, stamp |-> 0]
Regular(stamp) == [kind |-> "file", stamp |-> stamp]
ActiveStatuses == {"pending", "running"}
Ends == {"completed", "failed", "cancelled"}

CensusInit ==
    /\ currentStamps = {1} /\ onDisk = Regular(1)
    /\ inventory = NoSignature /\ unhashed = 0
    /\ jobs = <<>> /\ endings = 0 /\ decided = "active"
    /\ command = [c \in Commands |-> "idle"] /\ facts = 1 /\ newest = "never_enqueued"

-----------------------------------------------------------------------------
(* The predicate and its explanation                                       *)

HasJob(statuses) == \E i \in DOMAIN jobs : jobs[i].status \in statuses

\* Mutant of Eligible: a matching current row is enough, whatever the others.
EligibleByAnyRow ==
    /\ inventory.pages > 0
    /\ \E stamp \in currentStamps : stamp = inventory.stamp
    /\ unhashed > 0
    /\ ~HasJob(ActiveStatuses \union {"failed"})

\* _eligible_archive_rows
Eligible ==
    /\ inventory.pages > 0
    /\ Cardinality(currentStamps) = 1
    /\ \E stamp \in currentStamps : stamp = inventory.stamp
    /\ unhashed > 0
    /\ ~HasJob(ActiveStatuses \union {"failed"})

\* _archive_exclusion_reasons.  Of several current rows it reads any one.
Because(reason, condition) == IF condition THEN {reason} ELSE {}
ExclusionReasons ==
    Because("no_content_signature", inventory = NoSignature)
    \union Because("signature_page_count_zero",
                   inventory # NoSignature /\ inventory.pages = 0)
    \union Because("no_current_location", currentStamps = {})
    \union Because("multiple_current_locations", Cardinality(currentStamps) > 1)
    \union Because("signature_mismatch",
                   /\ inventory # NoSignature /\ Cardinality(currentStamps) = 1
                   /\ inventory.stamp \notin currentStamps)
    \union Because("no_outstanding_pages", unhashed = 0)
    \union Because("blocking_job", HasJob(ActiveStatuses \union {"failed"}))

\* select_candidates, for an archive that satisfies its caller's predicate.
Refusals(checkFilesystem) ==
    CASE decided # "active" -> {decided}
      [] decided = "active" /\ currentStamps = {} -> {"no_current_location"}
      [] decided = "active" /\ Cardinality(currentStamps) > 1 -> {"multiple_current_locations"}
      [] OTHER -> IF checkFilesystem /\ onDisk.kind # "file" THEN {onDisk.kind} ELSE {}

-----------------------------------------------------------------------------
(* enqueue_missing: select, then for each candidate revalidate and enqueue *)

SelectCandidates(c) ==
    /\ command[c] = "idle" /\ Eligible
    /\ Refusals(TRUE) = {}
    /\ command' = [command EXCEPT ![c] = "selected"]
    /\ UNCHANGED <<currentStamps, onDisk, inventory, unhashed, jobs, endings, decided, facts, newest>>

\* revalidate_for_enqueue reads the dispositions and the locations again.
Revalidate(c) ==
    /\ command[c] = "selected"
    /\ command' = [command EXCEPT ![c] = IF Refusals(FALSE) = {} THEN "revalidated" ELSE "idle"]
    /\ UNCHANGED <<currentStamps, onDisk, inventory, unhashed, jobs, endings, decided, facts, newest>>

\* enqueue_if_absent, with the unique index on active jobs.
EnqueueCandidate(c) ==
    /\ command[c] = "revalidated"
    /\ IF HasJob(ActiveStatuses) THEN UNCHANGED jobs
       ELSE /\ Len(jobs) < MaxJobs
            /\ jobs' = Append(jobs, [status |-> "pending", ended |-> 0])
    /\ command' = [command EXCEPT ![c] = "idle"]
    /\ UNCHANGED <<currentStamps, onDisk, inventory, unhashed, endings, decided, facts, newest>>

-----------------------------------------------------------------------------
(* Other components                                                        *)

Fact == facts < MaxFacts /\ facts' = facts + 1

\* Discovery and repair: a stamp recorded, a second row, a row retired.
LocationsChange ==
    /\ Fact
    /\ \/ currentStamps' = (IF onDisk.kind = "file" THEN {onDisk.stamp} ELSE {})
       \/ currentStamps' = currentStamps \union {facts'}
    /\ UNCHANGED <<onDisk, inventory, unhashed, jobs, endings, decided, command, newest>>

DiskChanges ==
    /\ Fact
    /\ onDisk' \in {Regular(facts')}
          \union {[kind |-> k, stamp |-> 0] : k \in {"missing", "unreadable", "directory"}}
    /\ UNCHANGED <<currentStamps, inventory, unhashed, jobs, endings, decided, command, newest>>

\* ArchivePageHashRepository.save: new pages, none of them hashed.
PagesSaved ==
    /\ onDisk.kind = "file"
    /\ \E n \in 0..1 : inventory' = [pages |-> n, stamp |-> onDisk.stamp] /\ unhashed' = n
    /\ inventory' # inventory
    /\ UNCHANGED <<currentStamps, onDisk, jobs, endings, decided, command, facts, newest>>

DecideArchive ==
    /\ Fact
    /\ decided' \in {"active", "archive_retired", "archive_superseded"} \ {decided}
    /\ UNCHANGED <<currentStamps, onDisk, inventory, unhashed, jobs, endings, command, newest>>

ClaimJob(i) ==
    /\ jobs[i].status = "pending"
    /\ jobs' = [jobs EXCEPT ![i].status = "running"]
    /\ UNCHANGED <<currentStamps, onDisk, inventory, unhashed, endings, decided, command, facts, newest>>

\* A pending job can only be cancelled.
EndJob(i, status) ==
    /\ jobs[i].status \in {"running"} \union IF status = "cancelled" THEN {"pending"} ELSE {}
    /\ endings' = endings + 1
    /\ jobs' = [jobs EXCEPT ![i] = [status |-> status, ended |-> endings']]
    /\ unhashed' = IF status = "completed" THEN 0 ELSE unhashed
    /\ newest' = status
    /\ UNCHANGED <<currentStamps, onDisk, inventory, decided, command, facts>>

CensusNext ==
    \/ \E c \in Commands : SelectCandidates(c) \/ Revalidate(c) \/ EnqueueCandidate(c)
    \/ LocationsChange \/ DiskChanges \/ PagesSaved \/ DecideArchive
    \/ \E i \in DOMAIN jobs :
          ClaimJob(i) \/ \E status \in Ends : EndJob(i, status)

CensusSpec == CensusInit /\ [][CensusNext]_censusVars

-----------------------------------------------------------------------------
(* classify                                                                *)

Scopes == {"none", "undeclared", "unreachable", "reachable"}

\* What is said of a path under a root of that scope that nobody may stat.
NotLookedAt == ("none" :> "not_observed") @@ ("undeclared" :> "undeclared_scope")
                   @@ ("unreachable" :> "unavailable_declared_scope")

\* _availability, for the state of the declared root that holds the path.
Availability(scope) ==
    CASE currentStamps = {} -> "no_current_location"
      [] Cardinality(currentStamps) > 1 -> "multiple_current_locations"
      [] Cardinality(currentStamps) = 1 /\ scope # "reachable" -> NotLookedAt[scope]
      [] OTHER -> IF onDisk.kind # "file" THEN onDisk.kind
                  ELSE IF onDisk.stamp \in currentStamps THEN "present_matching"
                  ELSE "present_drifted"
Unobservable(scope) ==
    scope # "reachable" /\ Availability(scope) = NotLookedAt[scope]

\* JobHistory.current, of the rows of _job_histories.
Ended == {i \in DOMAIN jobs : jobs[i].status \in Ends}
\* Mutant of LatestTerminal: by completed_at alone, which a cancelled job lacks.
LatestTerminalByCompletion ==
    LET CompletedAt(i) == IF jobs[i].status = "cancelled" THEN 0 ELSE jobs[i].ended
    IN  CHOOSE i \in Ended : \A j \in Ended : CompletedAt(j) <= CompletedAt(i)
LatestTerminal == CHOOSE i \in Ended : \A j \in Ended : jobs[j].ended <= jobs[i].ended
PerceptualWork ==
    IF HasJob(ActiveStatuses) THEN "active"
    ELSE IF Ended # {} THEN jobs[LatestTerminal].status ELSE "never_enqueued"

\* The selection axis: refusals of what is eligible, else the exclusions.
RefusedFor(scope) ==
    IF ~Unobservable(scope) THEN Refusals(TRUE)
    ELSE IF Refusals(FALSE) # {} THEN Refusals(FALSE) ELSE {Availability(scope)}
SelectionAxis(scope) ==
    IF Eligible THEN IF RefusedFor(scope) = {} THEN "eligible" ELSE "refused"
    ELSE IF ExclusionReasons # {} THEN "excluded" ELSE "unexplained"

-----------------------------------------------------------------------------
(* Properties                                                              *)

\* classify's module docstring: the eligible and the excluded partition the
\* library, so it never raises PartitionError and nothing is unexplained.
Partition == Eligible <=> ExclusionReasons = {}

\* What the selection axis offers has been seen on disk: no archive of a root
\* that nobody looked at, and none whose path is gone, is called eligible.
EligibleIsPresent ==
    \A scope \in Scopes :
        SelectionAxis(scope) = "eligible"
            => Availability(scope) \in {"present_matching", "present_drifted"}

\* The work axis tells how the job that ended last ended, the cancelled too.
WorkIsChronological == PerceptualWork \in {"active", newest}

\* The census counts each archive once, where it was seen, by its last work.
CensusSafety == Partition /\ EligibleIsPresent /\ WorkIsChronological

=============================================================================
