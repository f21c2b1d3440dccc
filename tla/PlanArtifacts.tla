---------------------------- MODULE PlanArtifacts ----------------------------
(***************************************************************************)
(* Writing the artifacts of a backfill plan, the bindings (csv) and the    *)
(* envelope that attests to them (json), and reading the pair back.  Each  *)
(* artifact is staged under a `.partial` name, held open, then linked to   *)
(* its final name, the envelope last.  Any call may fail or be             *)
(* interrupted, and other writers use the same names.                      *)
(*                                                                         *)
(* A file is the call that wrote it (0: someone else), whether it is whole *)
(* and whether it attests to bindings written with it.                     *)
(***************************************************************************)
EXTENDS Naturals

CONSTANTS
    Requests,         \* sets of labels a call may be asked to write
    MaxPlans,         \* bound on calls of write_plan_artifacts
    MaxWriterTrouble, \* bound on failing system calls, interrupts and crashes
    MaxStrangers      \* bound on what other writers do

Labels == {"csv", "json"}
ASSUME RequestsAssumption == Requests \subseteq SUBSET Labels

ArtifactNames == Labels \X {"final", "staging"}
Final(l) == <<l, "final">>
Staging(l) == <<l, "staging">>
NoArtifact == [from |-> 0, whole |-> FALSE, pair |-> FALSE, there |-> FALSE]
Stranger == [from |-> 0, whole |-> TRUE, pair |-> TRUE, there |-> TRUE]
NoOutcome == [kind |-> "none"]

VARIABLES
    artifacts,      \* name -> the file there
    writing,        \* the running call: [phase, wants, records, linked, blind]
    plans,          \* number of calls so far
    outcome,        \* how the last call ended, and which names it reported
    writerTrouble,  \* number of failures so far
    strangers       \* number of foreign steps so far

writerVars == <<artifacts, writing, plans, outcome, writerTrouble, strangers>>

NotWriting == [phase |-> "idle"]
Is(name) == artifacts[name].there
Owns(name) == artifacts[name].from = plans
WriterTrouble == writerTrouble < MaxWriterTrouble /\ writerTrouble' = writerTrouble + 1

WriterInit ==
    /\ artifacts = [n \in ArtifactNames |-> NoArtifact]
    /\ writing = NotWriting /\ outcome = NoOutcome
    /\ plans = 0 /\ writerTrouble = 0 /\ strangers = 0

-----------------------------------------------------------------------------
(* A call                                                                  *)

\* preflight_output_paths: every name the call may create must be free.
OutputsAreFree(req) == \A l \in req : ~Is(Final(l)) /\ ~Is(Staging(l))

StartWrite(req) ==
    /\ writing = NotWriting /\ plans < MaxPlans
    /\ OutputsAreFree(req)
    /\ plans' = plans + 1
    /\ writing' = [phase |-> "staging", wants |-> req, linked |-> {}, blind |-> FALSE,
                   records |-> [l \in Labels |-> "none"]]
    /\ outcome' = NoOutcome
    /\ UNCHANGED <<artifacts, writerTrouble, strangers>>

\* The bindings come first, in staging and in promotion.
Turn(l) == l \in writing.wants /\ (l = "json" /\ "csv" \in writing.wants
                                     => writing.records["csv"] \in {"anchored", "cleared"})
Marks(l, record, phase) ==
    writing' = [writing EXCEPT !.records[l] = record, !.phase = phase]
Written(l, whole) ==
    artifacts' = [artifacts EXCEPT ![Staging(l)] =
        [from |-> plans, whole |-> whole, there |-> TRUE,
         pair |-> l = "json" /\ "csv" \in writing.wants]]

CreateStaging(l) ==
    /\ writing.phase = "staging" /\ Turn(l) /\ writing.records[l] = "none"
    /\ ~Is(Staging(l))
    /\ Written(l, TRUE) /\ Marks(l, "anchored", "staging")
    /\ UNCHANGED <<plans, outcome, writerTrouble, strangers>>

\* The name is taken; or opening, fstat or a write fails.
CreateFails(l) ==
    /\ writing.phase = "staging" /\ Turn(l) /\ writing.records[l] = "none"
    /\ \/ /\ Is(Staging(l)) /\ UNCHANGED <<artifacts, writerTrouble>>
          /\ Marks(l, "none", "refusing")
       \/ /\ WriterTrouble /\ UNCHANGED artifacts
          /\ Marks(l, "none", "refusing")
       \/ /\ ~Is(Staging(l)) /\ WriterTrouble /\ Written(l, FALSE)
          /\ \E record \in {"unverified", "anchored"} : Marks(l, record, "refusing")
    /\ UNCHANGED <<plans, outcome, strangers>>

ReleaseAnchor(l) ==
    /\ writing.phase = "staging" /\ Turn(l)
    /\ \A k \in writing.wants : writing.records[k] \in {"anchored", "cleared"}
    /\ writing.records[l] = "anchored"
    /\ Marks(l, "released", "staging")
    /\ UNCHANGED <<artifacts, plans, outcome, writerTrouble, strangers>>

\* os.link does not clobber; without links, Windows renames.
LinkFinal(l) ==
    /\ writing.phase = "staging" /\ writing.records[l] = "released"
    /\ Is(Staging(l)) /\ ~Is(Final(l))
    /\ \/ /\ artifacts' = [artifacts EXCEPT ![Final(l)] = artifacts[Staging(l)]]
          /\ writing' = [writing EXCEPT !.records[l] = "promoted", !.linked = @ \union {l}]
       \/ /\ artifacts' = [artifacts EXCEPT ![Final(l)] = artifacts[Staging(l)],
                                            ![Staging(l)] = NoArtifact]
          /\ writing' = [writing EXCEPT !.records[l] = "cleared", !.linked = @ \union {l}]
    /\ UNCHANGED <<plans, outcome, writerTrouble, strangers>>

LinkFails(l) ==
    /\ writing.phase = "staging" /\ writing.records[l] = "released"
    /\ \/ (Is(Final(l)) \/ ~Is(Staging(l))) /\ UNCHANGED writerTrouble
       \/ WriterTrouble
    /\ Marks(l, "released", "refusing")
    /\ UNCHANGED <<artifacts, plans, outcome, strangers>>

\* It fails, too, where someone else has removed the name already.
UnlinkStaging(l) ==
    /\ writing.phase = "staging" /\ writing.records[l] = "promoted"
    /\ \/ /\ Is(Staging(l))
          /\ artifacts' = [artifacts EXCEPT ![Staging(l)] = NoArtifact]
          /\ Marks(l, "cleared", "staging")
          /\ UNCHANGED writerTrouble
       \/ /\ (~Is(Staging(l)) /\ UNCHANGED writerTrouble) \/ WriterTrouble
          /\ UNCHANGED artifacts
          /\ Marks(l, "promoted", "refusing")
    /\ UNCHANGED <<plans, outcome, strangers>>

FinishWrite ==
    /\ writing.phase = "staging"
    /\ \A l \in writing.wants : writing.records[l] = "cleared"
    /\ outcome' = [kind |-> "returned", names |-> {}, call |-> writing]
    /\ writing' = NotWriting
    /\ UNCHANGED <<artifacts, plans, writerTrouble, strangers>>

-----------------------------------------------------------------------------
(* Failure                                                                 *)

\* A KeyboardInterrupt between two steps, or blindly: after os.open and
\* before the record is registered, after the link and before it is marked.
InterruptWrite ==
    /\ writing.phase = "staging" /\ WriterTrouble
    /\ writing' = [writing EXCEPT !.phase = "interrupted"]
    /\ UNCHANGED <<artifacts, plans, outcome, strangers>>

InterruptBlindly(l) ==
    /\ writing.phase = "staging" /\ WriterTrouble
    /\ \/ /\ Turn(l) /\ writing.records[l] = "none" /\ ~Is(Staging(l))
          /\ Written(l, FALSE)
          /\ writing' = [writing EXCEPT !.phase = "interrupted", !.blind = TRUE]
       \/ /\ writing.records[l] = "released" /\ Is(Staging(l)) /\ ~Is(Final(l))
          /\ artifacts' = [artifacts EXCEPT ![Final(l)] = artifacts[Staging(l)]]
          /\ writing' = [writing EXCEPT !.phase = "interrupted", !.blind = TRUE,
                                        !.linked = @ \union {l}]
    /\ UNCHANGED <<plans, outcome, strangers>>

RecordsIn(states) == {l \in writing.wants : writing.records[l] \in states}
Promoted == RecordsIn({"promoted", "cleared"})

\* _discard: staging files are removed when they are this call's.
Removable(stuck) ==
    {l \in RecordsIn({"anchored", "released"}) \ stuck : Owns(Staging(l))}

\* What the error names: residue, survivors, foreign and unverified files,
\* and the promoted part of an incomplete plan.
Reported(stuck) ==
    LET unremoved == {l \in RecordsIn({"anchored", "released"}) :
                         Is(Staging(l)) /\ l \notin Removable(stuck)}
        residue == RecordsIn({"promoted", "unverified"})
    IN {Staging(l) : l \in unremoved \union residue} \union
       IF Promoted = writing.wants THEN {} ELSE {Final(l) : l \in Promoted}

\* Mutant of ErrorKind: residue of the envelope is one failure like another.
ErrorKindUntyped(stuck) ==
    IF Reported(stuck) # {} \/ writing.phase = "refusing" THEN "refused" ELSE "unchanged"

\* StagingResidueError, OutputPathError, or the interrupt as it came.
ErrorKind(stuck) ==
    IF Promoted = writing.wants /\ RecordsIn({"promoted"}) # {} THEN "residue"
    ELSE IF Reported(stuck) # {} \/ writing.phase = "refusing" THEN "refused"
    ELSE "unchanged"

\* Mutant of DiscardStaged: a promoted artifact is rolled back unnamed.
DiscardForgetsPromoted ==
    /\ writing.phase \in {"refusing", "interrupted"}
    /\ artifacts' = [n \in ArtifactNames |->
           IF \E l \in Removable({}) : n = Staging(l) THEN NoArtifact ELSE artifacts[n]]
    /\ outcome' = [kind |-> IF writing.phase = "refusing" THEN "refused" ELSE "unchanged",
                   names |-> {}, call |-> writing]
    /\ writing' = NotWriting
    /\ UNCHANGED <<plans, writerTrouble, strangers>>

DiscardStaged ==
    /\ writing.phase \in {"refusing", "interrupted"}
    /\ \E stuck \in SUBSET writing.wants :
          /\ IF stuck = {} THEN UNCHANGED writerTrouble ELSE WriterTrouble
          /\ artifacts' = [n \in ArtifactNames |->
                 IF \E l \in Removable(stuck) : n = Staging(l) THEN NoArtifact
                 ELSE artifacts[n]]
          /\ outcome' = [kind |-> ErrorKind(stuck), names |-> Reported(stuck),
                         call |-> writing]
    /\ writing' = NotWriting
    /\ UNCHANGED <<plans, strangers>>

WriterDies ==
    /\ writing # NotWriting /\ WriterTrouble
    /\ writing' = NotWriting /\ outcome' = NoOutcome
    /\ UNCHANGED <<artifacts, plans, strangers>>

\* Another writer takes a name, or clears one.
StrangerActs(name) ==
    /\ strangers < MaxStrangers /\ strangers' = strangers + 1
    /\ \E file \in {Stranger, NoArtifact} :
          /\ file # artifacts[name]
          /\ artifacts' = [artifacts EXCEPT ![name] = file]
    /\ UNCHANGED <<writing, plans, outcome, writerTrouble>>

WriterNext ==
    \/ \E req \in Requests : StartWrite(req)
    \/ \E l \in Labels :
          \/ CreateStaging(l) \/ CreateFails(l) \/ ReleaseAnchor(l)
          \/ LinkFinal(l) \/ LinkFails(l) \/ UnlinkStaging(l)
          \/ InterruptBlindly(l)
    \/ FinishWrite \/ InterruptWrite \/ DiscardStaged \/ WriterDies
    \/ \E name \in ArtifactNames : StrangerActs(name)

WriterSpec == WriterInit /\ [][WriterNext]_writerVars

-----------------------------------------------------------------------------
(* Reading, and properties                                                 *)

\* read_plan_artifacts: a whole envelope that records the digest of the
\* bindings, and the bindings it records.
Attests(envelope) == envelope.there /\ envelope.whole /\ envelope.pair
Accepts ==
    LET envelope == artifacts[Final("json")]
        bindings == artifacts[Final("csv")]
    IN Attests(envelope) /\ bindings.there /\ bindings.whole /\ bindings.from = envelope.from

Owned(kind) == {l \in Labels : Owns(<<l, kind>>)}
Complete(call) == call.linked = call.wants

\* The dispositions tabled in write_plan_artifacts: a return leaves nothing
\* staged; an OutputPathError means the plan did not commit, a
\* StagingResidueError that it did; an unchanged error that nothing is left
\* to name; and every file of an incomplete plan is named.
TellsTheTruth(v) ==
    /\ v.kind \in {"returned", "residue"} => Complete(v.call)
    /\ v.kind = "refused" => ~Complete(v.call)
    /\ v.kind = "unchanged" => Complete(v.call) \/ v.call.linked = {}
    /\ {Staging(l) : l \in Owned("staging")} \subseteq v.names
    /\ ~Complete(v.call) => {Final(l) : l \in v.call.linked} \subseteq v.names

\* However a call ends, its outcome says what is on disk, unless it was
\* interrupted blindly: then a linked or created file may go unnamed.
OutcomeIsTrue ==
    [][outcome' \in {outcome, NoOutcome} \/ outcome'.call.blind
         \/ TellsTheTruth(outcome)']_writerVars

\* The writer and the reader of a pair cannot disagree about one directory:
\* what a call reports as committed the reader accepts, unless a stranger's
\* file is in it, and what it reports as not committed the reader refuses:
\* unless it was interrupted blindly.
ReaderAgrees ==
    [][outcome' \in {outcome, NoOutcome} \/ outcome'.call.wants # Labels
         \/ outcome'.call.blind
         \/ /\ outcome'.kind \in {"returned", "residue"} /\ (Owned("final") = Labels)' => Accepts'
            /\ outcome'.kind = "refused" => ~(Accepts /\ Owned("final") = Labels)']_writerVars

\* What a writer of plans reports is what is on disk, and what a reader accepts.
WriterSafety == OutcomeIsTrue /\ ReaderAgrees

=============================================================================
