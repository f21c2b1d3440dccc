---------------------------- MODULE CameliaBatch ----------------------------
(* The resumable batch that runs the AI decensor over copies                 *)
(* (scripts/camelia_decensor.py): it plans every book against the outputs    *)
(* that are already there, runs an external child per book, and never writes *)
(* a source.  Batches share the output tree and take no lock; a book may be  *)
(* rewritten in its place by another program meanwhile.                      *)
(*                                                                           *)
(* An output is the base copy of a book, or a copy under                     *)
(* _additional_methods/<methods> of the ones its base lacked.  Of an archive *)
(* the model keeps whether it bears the "uncensored" marker, the methods its *)
(* tags record, and the version of the book its other members come from.     *)
EXTENDS Naturals, FiniteSets

CONSTANTS
    Comics,
    Methods,          \* the decensor's model types
    Requested,        \* sets of methods a batch may be asked for
    Sources,          \* the [methods, marked] of each book's own tags at first
    BatchRuns,        \* batches
    MaxCameliaTrouble \* children that fail, and books another program rewrites

TagMarks == {m \in [methods : SUBSET Methods, marked : BOOLEAN] : m.methods # {} => m.marked}

ASSUME CameliaAssumption ==
    /\ Sources \in [Comics -> TagMarks]
    /\ Requested \subseteq SUBSET Methods
    /\ MaxCameliaTrouble \in Nat

VARIABLES
    book,       \* comic -> [methods, marked, version]
    output,     \* slot -> NoOutput, Partial or [methods, marked, version]
    batch,      \* batch -> [at, want, again, left, jobs, child]
    mishaps

cvars == <<book, output, batch, mishaps>>

NoMethods == {}
Slots == (SUBSET Methods) \X Comics    \* <<{}, c>> is the base copy of c
Base(c) == <<NoMethods, c>>
NoOutput == [methods |-> NoMethods, marked |-> FALSE, version |-> 0]
Partial == [methods |-> NoMethods, marked |-> FALSE, version |-> 99]
Taken(slot) == output[slot] # NoOutput

\* A job reads the book itself or its base copy.
Reads(job) == IF job.base THEN output[Base(job.to[2])] ELSE book[job.to[2]]

\* A marker without tags: which methods the archive has had is not recorded.
UnknownHistory(archive) == archive.marked /\ archive.methods = {}

\* Mutant of MethodsToRun: whatever is marked is done.
NothingForMarked(archive, want, again) ==
    IF again \/ ~archive.marked THEN want ELSE {}

\* methods_to_run: a reprocessing batch repeats all; else what the tags do not record,
\* and nothing of an archive whose history is unknown.
MethodsToRun(archive, want, again) ==
    IF again THEN want ELSE IF UnknownHistory(archive) THEN {} ELSE want \ archive.methods

\* Mutant of VerifiedCopy: the method tags are not looked at.
VerifiedWithoutTags(slot, archive, methods) ==
    Taken(slot) /\ output[slot].marked /\ output[slot].version = archive.version

\* verify_completed_output: a whole copy of this very archive that is marked and
\* records the methods.
VerifiedCopy(slot, archive, methods) ==
    /\ Taken(slot) /\ output[slot].marked
    /\ output[slot].version = archive.version
    /\ methods \subseteq output[slot].methods

NoChild == [to |-> <<{}, "none">>, base |-> FALSE, methods |-> {}]

CameliaInit ==
    /\ book = [c \in Comics |-> [methods |-> Sources[c].methods,
                                 marked |-> Sources[c].marked, version |-> 1]]
    /\ output = [s \in Slots |-> NoOutput]
    /\ batch = [b \in BatchRuns |-> [at |-> "new", want |-> {}, again |-> FALSE, left |-> {},
                                     jobs |-> {}, child |-> NoChild]]
    /\ mishaps = 0

\* The operator asks for methods, again is --reprocess.
StartCamelia(b, want, again) ==
    /\ batch[b].at = "new"
    /\ batch' = [batch EXCEPT ![b].at = "planning", ![b].want = want, ![b].again = again,
                              ![b].left = Comics]
    /\ UNCHANGED <<book, output, mishaps>>

BookPlanned(b, c, jobs) ==
    batch' = [batch EXCEPT ![b].left = @ \ {c}, ![b].jobs = @ \cup jobs,
                           ![b].at = IF batch[b].left = {c} THEN "running" ELSE @]

CameliaFails(b) ==
    batch' = [batch EXCEPT ![b] = [at |-> "failed", want |-> {}, again |-> FALSE, left |-> {},
                                   jobs |-> {}, child |-> NoChild]]

\* An archive that cannot be inspected, a member that cannot be read, Stop.
CameliaStops(b) ==
    /\ batch[b].at \in {"planning", "running"}
    /\ CameliaFails(b)
    /\ UNCHANGED <<book, output, mishaps>>

\* A slot that is there is verified and left alone, or the whole batch refuses.
SlotOrRefuse(b, c, slot, fromBase, archive, methods) ==
    IF ~Taken(slot) THEN BookPlanned(b, c, {[to |-> slot, base |-> fromBase]})
    ELSE IF VerifiedCopy(slot, archive, methods) THEN BookPlanned(b, c, {})
    ELSE CameliaFails(b)

\* plan_batch, one book: skipped, resumed, continued from its base copy, or planned.
PlanBook(b, c) ==
    LET pending == MethodsToRun(book[c], batch[b].want, batch[b].again)
        missing == pending \ output[Base(c)].methods
    IN /\ batch[b].at = "planning" /\ c \in batch[b].left
       /\ CASE pending = {} -> BookPlanned(b, c, {})
            [] pending # {} /\ ~Taken(Base(c)) ->
                 BookPlanned(b, c, {[to |-> Base(c), base |-> FALSE]})
            [] pending # {} /\ Taken(Base(c)) /\ book[c].marked ->
                 SlotOrRefuse(b, c, <<pending, c>>, FALSE, book[c], pending)
            [] pending # {} /\ Taken(Base(c)) /\ ~book[c].marked ->
                 IF ~VerifiedCopy(Base(c), book[c], {}) THEN CameliaFails(b)
                 ELSE IF missing = {} THEN BookPlanned(b, c, {})
                 ELSE SlotOrRefuse(b, c, <<missing, c>>, TRUE, output[Base(c)], missing)
       /\ UNCHANGED <<book, output, mishaps>>

\* run_batch looks again before each book: nothing left to do, an output made meanwhile,
\* or a child is started.
RunBook(b, job) ==
    LET todo == MethodsToRun(Reads(job), batch[b].want, batch[b].again)
        dropped == [batch EXCEPT ![b].jobs = @ \ {job}]
    IN /\ batch[b].at = "running" /\ batch[b].child = NoChild /\ job \in batch[b].jobs
       /\ IF todo = {} \/ VerifiedCopy(job.to, Reads(job), todo) THEN batch' = dropped
          ELSE IF Taken(job.to) THEN CameliaFails(b)
          ELSE batch' = [dropped EXCEPT ![b].child =
                           [to |-> job.to, base |-> job.base, methods |-> todo]]
       /\ UNCHANGED <<book, output, mishaps>>

\* What a child makes of its archive: the marker, and tags of the methods.
CopyWith(child, methods) ==
    [Reads(child) EXCEPT !.methods = @ \cup methods, !.marked = TRUE]

\* External: the child copies the archive with its methods' tags, unless the target is taken.
ChildEnds(b) ==
    LET child == batch[b].child
    IN /\ child # NoChild /\ ~Taken(child.to)
       /\ output' = [output EXCEPT ![child.to] = CopyWith(child, child.methods)]
       /\ batch' = [batch EXCEPT ![b].child = NoChild]
       /\ UNCHANGED <<book, mishaps>>

\* External: it fails, and leaves nothing, a partial file, or a marked copy that may
\* lack tags; run_camelia_book raises.
ChildFails(b) ==
    LET child == batch[b].child
    IN /\ child # NoChild
       /\ \/ Taken(child.to) /\ UNCHANGED <<output, mishaps>>
          \/ /\ ~Taken(child.to) /\ mishaps < MaxCameliaTrouble
             /\ \E left \in {NoOutput, Partial}
                             \cup {CopyWith(child, ms) : ms \in SUBSET child.methods} :
                    output' = [output EXCEPT ![child.to] = left]
             /\ mishaps' = mishaps + 1
       /\ CameliaFails(b)
       /\ UNCHANGED book

CameliaDone(b) ==
    /\ batch[b].at = "running" /\ batch[b].jobs = {} /\ batch[b].child = NoChild
    /\ batch' = [batch EXCEPT ![b].at = "completed"]
    /\ UNCHANGED <<book, output, mishaps>>

\* Another program rewrites a book in its place.
BookRewritten(c, mark) ==
    /\ mishaps < MaxCameliaTrouble
    /\ book' = [book EXCEPT ![c] = [methods |-> mark.methods, marked |-> mark.marked,
                                    version |-> @.version + 1]]
    /\ mishaps' = mishaps + 1
    /\ UNCHANGED <<output, batch>>

CameliaNext ==
    \/ \E b \in BatchRuns :
         \/ \E want \in Requested, again \in BOOLEAN : StartCamelia(b, want, again)
         \/ CameliaStops(b)
         \/ \E c \in Comics : PlanBook(b, c)
         \/ \E job \in batch[b].jobs : RunBook(b, job)
         \/ ChildEnds(b) \/ ChildFails(b) \/ CameliaDone(b)
    \/ \E c \in Comics, mark \in TagMarks : BookRewritten(c, mark)

CameliaSpec == CameliaInit /\ [][CameliaNext]_cvars

\* "Completed ..." (run_batch, camelia_decensor.py:375): when a batch says it completed,
\* every book it was given has every method it was asked for, in its own tags or in those
\* of one output, however the outputs were found, continued or made by another batch in
\* between - asked of books no other program has rewritten.  Where the book or its base
\* copy has no tags but the marker, what it lacks is unknown, and only a batch that
\* reprocesses has to make it up.
CompletedIsComplete ==
    \A b \in BatchRuns, c \in Comics :
        batch[b].at = "completed" /\ book[c].version = 1
          => \/ batch[b].want \subseteq book[c].methods
             \/ \E s \in Slots : s[2] = c /\ output[s].version = 1
                                  /\ batch[b].want \subseteq output[s].methods
             \/ /\ ~batch[b].again
                /\ UnknownHistory(book[c]) \/ UnknownHistory(output[Base(c)])
=============================================================================
