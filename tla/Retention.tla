------------------------------ MODULE Retention ------------------------------
(***************************************************************************)
(* The retention planner: a read-only classification of every revision     *)
(* from one guarded snapshot, bound to a digest of its inputs.  Around it  *)
(* archives gain revisions, pointers are rolled back, evidence comes and   *)
(* goes, and a database restored from elsewhere may break the lineage.     *)
(***************************************************************************)
EXTENDS Naturals, FiniteSets

CONSTANTS
    Catalogued,     \* archives, numbered from 1
    Evidence,       \* evidence in use, a subset of EvidenceKinds
    Keeps,          \* values of keep_previous_generations
    MaxOrdinal,     \* bound on revisions of an archive
    MaxCommits      \* bound on commits of other connections

NoRevision == [archive |-> 0, ordinal |-> 0]
NoPlan == [status |-> "none"]
EvidenceKinds == {"running", "failed", "completed", "pending_review", "rejected",
                  "quarantined", "decided", "unheard"}

ASSUME EvidenceAssumption == Evidence \subseteq EvidenceKinds

ASSUME RetentionAssumption ==
    Catalogued \subseteq Nat /\ Keeps \subseteq Nat /\ MaxOrdinal \in Nat \ {0}

VARIABLES
    previous,       \* archive_revisions: revision -> previous_revision_id
    pointer,        \* archive_files.current_revision_id, NoRevision is NULL
    observed,       \* revisions with archive_revision_observations
    evidence,       \* archive -> evidence rows of jobs, reviews, quarantine
    commits,        \* number of commits of other connections
    planner,        \* the running guarded read
    plan            \* the plan an operator holds

tables == <<previous, pointer, observed, evidence>>
retentionVars == <<tables, commits, planner, plan>>

RetentionRevisions == DOMAIN previous
First(a) == [archive |-> a, ordinal |-> 1]

RetentionInit ==
    /\ previous = [r \in {First(a) : a \in Catalogued} |-> NoRevision]
    /\ pointer = [a \in Catalogued |-> First(a)]
    /\ observed = {}
    /\ evidence = [a \in Catalogued |-> {}]
    /\ commits = 0
    /\ planner = [at |-> "idle"]
    /\ plan = NoPlan

-----------------------------------------------------------------------------
(* Evidence: everything is computed from what one read returned            *)

\* _Inputs, read_inputs
Inputs == [previous |-> previous, pointer |-> pointer, observed |-> observed,
           evidence |-> evidence]
RevisionsOf(inputs) == DOMAIN inputs.previous

\* _archive_evidence: what protects every noncurrent revision of the archive.
ProxyReasons(inputs, a) ==
    inputs.evidence[a] \intersect {"running", "failed", "pending_review", "quarantined", "decided"}

\* _structural_problems, with the vocabulary checks: what the planner could
\* not interpret about a revision.
OwnPointer(inputs, a) ==
    inputs.pointer[a] \in RevisionsOf(inputs) /\ inputs.pointer[a].archive = a
LineageBroken(inputs, r) ==
    LET before == inputs.previous[r]
    IN IF r.ordinal = 1 THEN before # NoRevision
       ELSE \/ before \notin RevisionsOf(inputs)
            \/ before.archive # r.archive
            \/ before.ordinal # r.ordinal - 1
Uninterpreted(inputs, r) ==
    \/ ~OwnPointer(inputs, r.archive) \/ LineageBroken(inputs, r)
    \/ "unheard" \in inputs.evidence[r.archive]

-----------------------------------------------------------------------------
(* Policy                                                                  *)

\* _retention_window_ids: back from the pointer along the lineage, inside the
\* archive, for as many generations as the policy keeps.
Start(inputs, a) == IF OwnPointer(inputs, a) THEN inputs.pointer[a] ELSE NoRevision
Before(links, a, r) ==
    IF r # NoRevision /\ links[r] \in DOMAIN links /\ links[r].archive = a
    THEN links[r] ELSE NoRevision
GenerationsBack(links, start, a, keep) ==
    LET back[n \in 0..keep] == IF n = 0 THEN start ELSE Before(links, a, back[n - 1])
    IN back
Window(inputs, a, keep) ==
    {GenerationsBack(inputs.previous, Start(inputs, a), a, keep)[n] : n \in 1..keep} \ {NoRevision}

NewerThanCurrent(inputs, r) ==
    OwnPointer(inputs, r.archive) /\ r.ordinal > inputs.pointer[r.archive].ordinal

\* _classify_policy
Classify(inputs, r, policy) ==
    IF inputs.pointer[r.archive] = r THEN "protected"
    ELSE IF Uninterpreted(inputs, r) THEN "unexplained"
    ELSE IF \/ r \in Window(inputs, r.archive, policy.keep)
            \/ NewerThanCurrent(inputs, r)
            \/ r \in inputs.observed
            \/ r \in policy.pins
            \/ ProxyReasons(inputs, r.archive) # {}
    THEN "protected" ELSE "candidate"

Candidates(inputs, policy) ==
    {r \in RevisionsOf(inputs) : Classify(inputs, r, policy) = "candidate"}

\* Mutant of GatePasses: residue is the whole gate.
GateOnResidue(inputs, policy) ==
    \A r \in RevisionsOf(inputs) : Classify(inputs, r, policy) # "unexplained"

\* RetentionPlan.gate_failures: residue, or any row with unknown evidence,
\* rows of current revisions included.
GatePasses(inputs, policy) ==
    \A r \in RevisionsOf(inputs) :
        Classify(inputs, r, policy) # "unexplained" /\ ~Uninterpreted(inputs, r)

\* Mutant of Digest: the observation counts are not hashed.
DigestWithoutObservations(inputs, policy) ==
    [policy |-> policy.keep, pins |-> policy.pins,
     revisions |-> {[id |-> r, previous |-> inputs.previous[r],
                     observations |-> FALSE] : r \in RevisionsOf(inputs)},
     current |-> inputs.pointer, statuses |-> inputs.evidence]

\* canonical_snapshot_lines: every input, and nothing of the outcome.
Digest(inputs, policy) ==
    [policy |-> policy.keep, pins |-> policy.pins,
     revisions |-> {[id |-> r, previous |-> inputs.previous[r],
                     observations |-> r \in inputs.observed] : r \in RevisionsOf(inputs)},
     current |-> inputs.pointer, statuses |-> inputs.evidence]

\* build_plan
PlanFor(inputs, policy) ==
    [status |-> "planned", policy |-> policy, digest |-> Digest(inputs, policy),
     candidates |-> Candidates(inputs, policy), clean |-> GatePasses(inputs, policy)]

-----------------------------------------------------------------------------
(* The guarded read: plan_from_database, read_consistent_snapshot          *)

\* _validate_pins: a pin that names no revision refuses the whole plan.
PinsValid(policy) == policy.pins \subseteq RetentionRevisions

\* data_version is sampled before the read transaction begins.
StartPlan(policy) ==
    /\ planner.at = "idle"
    /\ planner' = [at |-> "sampled", version |-> commits, policy |-> policy]
    /\ UNCHANGED <<tables, commits, plan>>

\* One deferred transaction: every input comes from one state.
ReadInputs ==
    /\ planner.at = "sampled"
    /\ LET policy == planner.policy
       IN IF PinsValid(policy)
          THEN planner' = [at |-> "read", version |-> planner.version,
                           result |-> PlanFor(Inputs, policy)]
          ELSE planner' = [at |-> "idle"]
    /\ UNCHANGED <<tables, commits, plan>>

\* Mutant of FinishPlan: nothing is sampled after the transaction.
FinishPlanUnsampled ==
    /\ planner.at = "read"
    /\ planner' = [at |-> "idle"]
    /\ plan' = planner.result
    /\ UNCHANGED <<tables, commits>>

\* DatabaseChangedError when another connection committed meanwhile.
FinishPlan ==
    /\ planner.at = "read"
    /\ planner' = [at |-> "idle"]
    /\ plan' = IF planner.version = commits THEN planner.result ELSE plan
    /\ UNCHANGED <<tables, commits>>

-----------------------------------------------------------------------------
(* Other connections                                                       *)

Commit == commits < MaxCommits /\ commits' = commits + 1 /\ UNCHANGED <<planner, plan>>

\* record_or_reuse appends a revision and moves the pointer to it.
AppendRevision(a) ==
    /\ Commit
    /\ LET ordinals == {r.ordinal : r \in {s \in RetentionRevisions : s.archive = a}}
           last == CHOOSE n \in ordinals : \A m \in ordinals : m <= n
           new == [archive |-> a, ordinal |-> last + 1]
       IN /\ last < MaxOrdinal
          /\ previous' = [r \in RetentionRevisions \union {new} |->
                             IF r = new THEN [archive |-> a, ordinal |-> last] ELSE previous[r]]
          /\ pointer' = [pointer EXCEPT ![a] = new]
    /\ UNCHANGED <<observed, evidence>>

\* set_current: rolling back or forward is legitimate.
SetCurrent(r) ==
    /\ Commit
    /\ pointer[r.archive] # r
    /\ pointer' = [pointer EXCEPT ![r.archive] = r]
    /\ UNCHANGED <<previous, observed, evidence>>

Observe(r) ==
    /\ Commit
    /\ r \notin observed
    /\ observed' = observed \union {r}
    /\ UNCHANGED <<previous, pointer, evidence>>

EvidenceChanges(a, e) ==
    /\ Commit
    /\ e \in Evidence
    /\ evidence' = [evidence EXCEPT ![a] =
                       IF e \in @ THEN @ \ {e} ELSE @ \union {e}]
    /\ UNCHANGED <<previous, pointer, observed>>

\* A state no guard of migration 014 lets through, found in a restored file.
Damage(r) ==
    /\ Commit
    /\ \/ /\ r.ordinal > 1
          /\ previous' = [previous EXCEPT ![r] = NoRevision]
          /\ UNCHANGED pointer
       \/ /\ \E a \in Catalogued \ {r.archive} : pointer' = [pointer EXCEPT ![a] = r]
          /\ UNCHANGED previous
    /\ UNCHANGED <<observed, evidence>>

Policies == [keep : Keeps, pins : {{}, {First(1)}}]

RetentionNext ==
    \/ \E policy \in Policies : StartPlan(policy)
    \/ ReadInputs
    \/ FinishPlan
    \/ \E a \in Catalogued : AppendRevision(a)
    \/ \E r \in RetentionRevisions : SetCurrent(r) \/ Observe(r) \/ Damage(r)
    \/ \E a \in Catalogued, e \in Evidence : EvidenceChanges(a, e)

RetentionSpec == RetentionInit /\ [][RetentionNext]_retentionVars

-----------------------------------------------------------------------------
(* Properties                                                              *)

\* A plan that passes the gate never offers what a roll-back or a roll-forward
\* needs, by ordinals and without the lineage: candidates are older than the
\* current revision by more generations than the policy keeps, and neither
\* observed, pinned nor owned by an archive somebody still works on.
RollbackIsKept ==
    plan.status = "planned" /\ plan.clean =>
        \A r \in plan.candidates :
            LET current == plan.digest.current[r.archive]
            IN /\ current.archive = r.archive
               /\ r.ordinal + plan.policy.keep < current.ordinal
               /\ r \notin plan.policy.pins
               /\ \A row \in plan.digest.revisions : row.id = r => ~row.observations
               /\ plan.digest.statuses[r.archive] \subseteq {"completed", "rejected"}

\* The digest identifies the decision: whenever the database reads the same
\* under it, planning again gives the reviewed candidates and the same gate.
DigestBindsPlan ==
    plan.status = "planned" /\ Digest(Inputs, plan.policy) = plan.digest =>
        /\ Candidates(Inputs, plan.policy) = plan.candidates
        /\ GatePasses(Inputs, plan.policy) = plan.clean

\* A plan is only handed out for a state that was still the state when the
\* guarded read ended.
PlansAreCurrent ==
    [][plan' # plan => Digest(Inputs, plan'.policy) = plan'.digest]_retentionVars

\* A retention plan keeps what a rollback needs, is bound by its digest, and is
\* of one moment of the catalogue.
RetentionSafety == []RollbackIsKept /\ []DigestBindsPlan /\ PlansAreCurrent

=============================================================================
