----------------------------- MODULE Dispositions -----------------------------
(***************************************************************************)
(* Archive dispositions: retirement and supersession, recorded and         *)
(* reversed by disposition.py or by an operator's raw SQL, under the       *)
(* constraints and triggers of migration 013.  A reversal needs a row of   *)
(* disposition_reversal_context naming what it reverses; triggers append   *)
(* to archive_disposition_events.                                          *)
(*                                                                         *)
(* A reason is the number of the decision it was given for.                *)
(***************************************************************************)
EXTENDS Naturals, Sequences, FiniteSets, Functions

CONSTANTS
    ArchiveIds,       \* archive identities
    MaxReasons      \* bound on decisions taken

Dispositions == {"retired", "superseded"}
NoContext == [archive |-> "none"]

VARIABLES
    retirements,    \* archive_retirements: a set of archives
    successor,      \* archive_supersessions: predecessor -> successor
    context,        \* the one row of disposition_reversal_context
    events,         \* archive_disposition_events
    reasons         \* number of reasons given so far

dispositionVars == <<retirements, successor, context, events, reasons>>

DispositionEvent(a, other, disposition, action, reason) ==
    [archive |-> a, counterpart |-> other, disposition |-> disposition,
     action |-> action, reason |-> reason]

\* Migration 013 backfills an event for every retirement of migration 012.
DispositionsInit ==
    /\ \E a \in ArchiveIds : retirements \in {{}, {a}}
    /\ successor = <<>>
    /\ context = NoContext
    /\ events = IF retirements = {} THEN <<>>
                ELSE <<DispositionEvent(CHOOSE a \in retirements : TRUE, "none", "retired", "recorded", 0)>>
    /\ reasons = 0

Superseded == DOMAIN successor
Without(a) == [b \in Superseded \ {a} |-> successor[b]]

\* The recursive query of trg_supersession_no_cycle: the nodes from a on, the
\* least set that holds a and the successor of each.
Follows(S, to) == \A b \in S \cap DOMAIN to : to[b] \in S
ChainIn(to, a) ==
    {b \in ArchiveIds : \A S \in SUBSET ArchiveIds : a \in S /\ Follows(S, to) => b \in S}
Chain(a) == ChainIn(successor, a)

GiveReason == reasons < MaxReasons /\ reasons' = reasons + 1

-----------------------------------------------------------------------------
(* Recording                                                               *)

\* The keys, checks and triggers of the two inserts; a refused one changes
\* nothing.
\* Mutant of RefusesRetirement: the successor of a supersession may be retired.
RefusesRetirementUnlinked(a) == a \in retirements \union Superseded
RefusesRetirement(a) == a \in retirements \union Superseded \union Range(successor)
RefusesSupersession(a, b) ==
    a = b \/ a \in Superseded \/ a \in Chain(b) \/ {a, b} \cap retirements # {}

RetireArchive(a) ==
    /\ ~RefusesRetirement(a)
    /\ GiveReason
    /\ retirements' = retirements \union {a}
    /\ events' = Append(events, DispositionEvent(a, "none", "retired", "recorded", reasons'))
    /\ UNCHANGED <<successor, context>>

Supersede(a, b) ==
    /\ ~RefusesSupersession(a, b)
    /\ GiveReason
    /\ successor' = [c \in Superseded \union {a} |-> IF c = a THEN b ELSE successor[c]]
    /\ events' = Append(events, DispositionEvent(a, b, "superseded", "recorded", reasons'))
    /\ UNCHANGED <<retirements, context>>

-----------------------------------------------------------------------------
(* Reversing                                                               *)

HasDisposition(a, disposition) == a \in IF disposition = "retired" THEN retirements ELSE Superseded

\* Mutant of DeleteDisposition: the context outlives the reversal it was for.
DeleteKeepsContext(a, disposition, c) ==
    /\ HasDisposition(a, disposition)
    /\ c # NoContext /\ c.archive = a /\ c.disposition = disposition
    /\ IF disposition = "retired"
       THEN retirements' = retirements \ {a} /\ UNCHANGED successor
       ELSE successor' = Without(a) /\ UNCHANGED retirements
    /\ events' = Append(events, DispositionEvent(a,
                     IF disposition = "retired" THEN "none" ELSE successor[a],
                     disposition, "reversed", c.reason))
    /\ context' = c

\* Mutant of DeleteDisposition: the trigger writes no event.
DeleteWithoutHistory(a, disposition, c) ==
    /\ HasDisposition(a, disposition)
    /\ c # NoContext /\ c.archive = a /\ c.disposition = disposition
    /\ IF disposition = "retired"
       THEN retirements' = retirements \ {a} /\ UNCHANGED successor
       ELSE successor' = Without(a) /\ UNCHANGED retirements
    /\ context' = NoContext /\ UNCHANGED events

\* The delete with its triggers, under the reversal context c: the event takes
\* the reason of c, and c is consumed.
DeleteDisposition(a, disposition, c) ==
    /\ HasDisposition(a, disposition)
    /\ c # NoContext /\ c.archive = a /\ c.disposition = disposition
    /\ IF disposition = "retired"
       THEN retirements' = retirements \ {a} /\ UNCHANGED successor
       ELSE successor' = Without(a) /\ UNCHANGED retirements
    /\ events' = Append(events, DispositionEvent(a,
                     IF disposition = "retired" THEN "none" ELSE successor[a],
                     disposition, "reversed", c.reason))
    /\ context' = NoContext

\* reverse_retirement and reverse_supersession: context and delete in one
\* savepoint; with nothing to reverse it is rolled back.
ReverseDisposition(a, disposition) ==
    /\ GiveReason
    /\ DeleteDisposition(a, disposition,
              [archive |-> a, disposition |-> disposition, reason |-> reasons'])

\* Raw SQL, a statement at a time.
PublishReason(a, disposition) ==
    /\ context = NoContext /\ GiveReason
    /\ context' = [archive |-> a, disposition |-> disposition, reason |-> reasons']
    /\ UNCHANGED <<retirements, successor, events>>

DeleteRow(a, disposition) ==
    /\ DeleteDisposition(a, disposition, context)
    /\ UNCHANGED reasons

DispositionsNext ==
    \E a \in ArchiveIds :
        \/ RetireArchive(a)
        \/ \E b \in ArchiveIds : Supersede(a, b)
        \/ \E d \in Dispositions : ReverseDisposition(a, d) \/ PublishReason(a, d) \/ DeleteRow(a, d)

DispositionsSpec == DispositionsInit /\ [][DispositionsNext]_dispositionVars

-----------------------------------------------------------------------------
(* Reading                                                                 *)

\* resolve_successor: the end of the chain, or an error when it is a cycle.
Resolves(a) == \E b \in Chain(a) : b \notin Superseded
ResolveSuccessor(a) == CHOOSE b \in Chain(a) : b \notin Superseded

ConflictingRows == retirements \cap Superseded

-----------------------------------------------------------------------------
(* Properties                                                              *)

\* Every chain ends, at an archive that is still in scope: work is never
\* pointed at a retired identity.  No archive has two dispositions.
ChainsEndInScope ==
    /\ ConflictingRows = {}
    /\ \A a \in Superseded : Resolves(a) /\ ResolveSuccessor(a) \notin retirements

\* The events, replayed, are the tables: each action has exactly one event.
LastRecorded(a, disposition) ==
    LET mine == {i \in DOMAIN events : events[i].archive = a
                                       /\ events[i].disposition = disposition}
    IN mine # {} /\ \E i \in mine : /\ events[i].action = "recorded"
                                    /\ \A j \in mine : j <= i
                                    /\ disposition = "superseded"
                                           => events[i].counterpart = successor[a]
HistoryIsTheTables ==
    \A a \in ArchiveIds, d \in Dispositions : HasDisposition(a, d) <=> LastRecorded(a, d)

\* A reversal carries a reason of its own: one given for that archive, never
\* that of another decision, recorded or reversed.
OwnReasons ==
    \A i, j \in DOMAIN events :
        events[i].action = "reversed" /\ i # j => events[i].reason # events[j].reason

\* The tables of dispositions stay a history: chains that end, a reason for each
\* step, and the tables they replay to.
DispositionsSafety == ChainsEndInScope /\ OwnReasons /\ HistoryIsTheTables

=============================================================================
