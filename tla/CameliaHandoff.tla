--------------------------- MODULE CameliaHandoff ---------------------------
(***************************************************************************)
(* comic_automation/library/camelia_handoff.py.  Camelia's backlog         *)
(* replaces books in place and records a job_complete event of each, with  *)
(* the fingerprint (size, mtime) of the file it left.  reconcile_completed *)
(* hashes the books of the events after its cursor, in order, and commits  *)
(* what it measured with the cursor, one event at a time; prepare_source   *)
(* registers a book before Camelia works on it.  Both race with Camelia,   *)
(* with tools that change files, with the library scan and the hash stage, *)
(* and with each other, and may die between two steps.                     *)
(*                                                                         *)
(* A version of a book is a number that grows whenever its bytes change, a *)
(* stamp its fingerprint, which a change may leave as it was.  Camelia,    *)
(* the scan and the stage are external.  The jobs a change enqueues are    *)
(* those of JobQueue; the previews change nothing.                         *)
(***************************************************************************)
EXTENDS Integers, Sequences, FiniteSets

CONSTANTS
    Decensored,     \* books
    FirstRecorded,  \* what may be on record of the books at first
    HandoffRuns,    \* processes that reconcile
    EventLimit,     \* --limit
    MaxEvents,      \* bound: job_complete events
    MaxVersions,    \* bound: versions of all books
    MaxElsewhere    \* bound: what other tools do to the books and their records

VARIABLES
    onShelf,       \* book -> the version and the stamp of its file
    backlog,       \* book -> its row in Camelia's backlog
    completions,   \* how many events there were; an event is its number
    catalogued,    \* book -> stamp of its location and digest in archive_hashes
    cursor,        \* the consumer's cursor in application_settings
    reconciling,   \* run -> a reconcile_completed
    preparing,     \* book -> a prepare_source
    versions,      \* how many versions there were
    elsewhere      \* how often other tools came to a book

fileVars == <<onShelf, backlog, completions, versions>>
handoffVars == <<fileVars, catalogued, cursor, reconciling, preparing, elsewhere>>

NoVersion == 0
Untracked == [stamp |-> 0, digest |-> NoVersion]
NotMeasured == [version |-> NoVersion, stamp |-> 0]
NotReconciling == [at |-> "off", todo |-> <<>>, measured |-> NotMeasured]

\* A book is untracked, located but not hashed, or hashed as it is.
ASSUME CameliaHandoffAssumption ==
    /\ EventLimit \in Nat \ {0} /\ MaxEvents \in Nat /\ MaxVersions \in Nat
    /\ MaxElsewhere \in Nat
    /\ FirstRecorded \subseteq
          [Decensored -> {Untracked} \union [stamp : {1}, digest : {NoVersion, 1}]]

HandoffInit ==
    /\ onShelf = [b \in Decensored |-> [version |-> 1, stamp |-> 1]]
    /\ backlog = [b \in Decensored |->
                     [state |-> "queued", event |-> 0, stamp |-> 0, version |-> 0]]
    /\ catalogued \in FirstRecorded
    /\ completions = 0 /\ cursor = 0 /\ versions = 1 /\ elsewhere = 0
    /\ reconciling = [r \in HandoffRuns |-> NotReconciling]
    /\ preparing = [b \in Decensored |-> NotMeasured]

-----------------------------------------------------------------------------
(* Camelia, and whoever else changes files or the catalogue                *)

\* New bytes, under a new fingerprint or the one there was.
BytesReplaced(b) ==
    /\ versions < MaxVersions /\ versions' = versions + 1
    /\ \E stamp \in {onShelf[b].stamp, versions + 1} :
         onShelf' = [onShelf EXCEPT ![b] = [version |-> versions + 1, stamp |-> stamp]]

CameliaGoes(b, state) ==
    /\ backlog' = [backlog EXCEPT ![b].state = state]
    /\ UNCHANGED <<completions, catalogued, cursor, reconciling, preparing, elsewhere>>

\* A book, completed or not, is queued again, its bytes as they are by then.
CameliaRequeues(b) ==
    /\ backlog[b].state \in {"replaced", "completed"}
    /\ CameliaGoes(b, "queued") /\ UNCHANGED <<onShelf, versions>>
CameliaReplaces(b) ==
    backlog[b].state = "queued" /\ BytesReplaced(b) /\ CameliaGoes(b, "replaced")

\* The row and its event, in one transaction of the backlog.
CameliaCompletes(b) ==
    /\ backlog[b].state = "replaced" /\ completions < MaxEvents
    /\ completions' = completions + 1
    /\ backlog' = [backlog EXCEPT ![b] =
                      [state |-> "completed", event |-> completions + 1,
                       stamp |-> onShelf[b].stamp, version |-> onShelf[b].version]]
    /\ UNCHANGED <<onShelf, catalogued, cursor, reconciling, preparing, versions, elsewhere>>

AnotherTool == elsewhere < MaxElsewhere /\ elsewhere' = elsewhere + 1

OtherToolChanges(b) ==
    /\ AnotherTool /\ BytesReplaced(b)
    /\ UNCHANGED <<backlog, completions, catalogued, cursor, reconciling, preparing>>

\* record_archive() of the scan notes the stamp; the stage's save() both.
ScanSees(b) ==
    /\ AnotherTool
    /\ catalogued' = [catalogued EXCEPT ![b].stamp = onShelf[b].stamp]
    /\ UNCHANGED <<fileVars, cursor, reconciling, preparing>>
StageHashes(b) ==
    /\ AnotherTool /\ catalogued[b] # Untracked
    /\ catalogued' = [catalogued EXCEPT ![b] =
                         [stamp |-> onShelf[b].stamp, digest |-> onShelf[b].version]]
    /\ UNCHANGED <<fileVars, cursor, reconciling, preparing>>

-----------------------------------------------------------------------------
(* reconcile_completed                                                     *)

\* _events: the last event of each book that is completed, after the cursor.
Due == {b \in Decensored : backlog[b].state = "completed" /\ backlog[b].event > cursor}

\* The first EventLimit of them in order, with the fingerprints of now.
NextEvents(todo) ==
    LET row(b) == [book |-> b, event |-> backlog[b].event, stamp |-> backlog[b].stamp]
        taken == {b \in Due : \E i \in DOMAIN todo : todo[i] = row(b)} IN
    /\ Len(todo) = Cardinality(taken)
    /\ \A i, j \in DOMAIN todo : i < j => todo[i].event < todo[j].event
    /\ \A b \in Due \ taken :
         Len(todo) = EventLimit /\ todo[EventLimit].event < backlog[b].event

EventRows == {[book |-> b, event |-> backlog[b].event, stamp |-> backlog[b].stamp] : b \in Due}

BeginReconcile(r) ==
    /\ reconciling[r].at = "off" /\ Due # {}
    /\ \E n \in 1..EventLimit : \E todo \in [1..n -> EventRows] :
         /\ NextEvents(todo)
         /\ reconciling' = [reconciling EXCEPT ![r] =
                               [at |-> "measuring", todo |-> todo, measured |-> NotMeasured]]
    /\ UNCHANGED <<fileVars, catalogued, cursor, preparing, elsewhere>>

\* A refusal ends the run: no later event is tried, and the cursor stays.
ReconcileEnds(r) == reconciling' = [reconciling EXCEPT ![r] = NotReconciling]

\* _candidate: the file is hashed, and must be as Camelia left it.
MeasureCandidate(r) ==
    LET book == Head(reconciling[r].todo).book IN
    /\ reconciling[r].at = "measuring"
    /\ IF onShelf[book].stamp = Head(reconciling[r].todo).stamp
       THEN reconciling' = [reconciling EXCEPT ![r].at = "recording", ![r].measured = onShelf[book]]
       ELSE ReconcileEnds(r)
    /\ UNCHANGED <<fileVars, catalogued, cursor, preparing, elsewhere>>

\* Mutant of StoredHashMatches: an unchanged fingerprint is an unchanged book.
StoredHashNotAsked(book, measured) == TRUE

StoredHashMatches(book, measured) == catalogued[book].digest = measured.version

\* Mutant of Acceptable: the hash that was just taken is taken for the file's.
AcceptableUnlooked(book, measured) ==
    /\ catalogued[book] # Untracked
    /\ catalogued[book].stamp = measured.stamp => StoredHashMatches(book, measured)

\* What _reconcile_one refuses: an untracked book, bytes that may have changed
\* under an old fingerprint, and a file that changed since it was measured.
Acceptable(book, measured) ==
    /\ catalogued[book] # Untracked
    /\ catalogued[book].stamp = measured.stamp => StoredHashMatches(book, measured)
    /\ onShelf[book].stamp = measured.stamp

\* One transaction: location, digest, current revision, and the cursor, which
\* another run may have set further already.
ReconcileOne(r) ==
    LET event == Head(reconciling[r].todo)
        measured == reconciling[r].measured IN
    /\ reconciling[r].at = "recording"
    /\ IF Acceptable(event.book, measured)
       THEN /\ catalogued' = [catalogued EXCEPT ![event.book] =
                                 [stamp |-> measured.stamp, digest |-> measured.version]]
            /\ cursor' = event.event
            /\ IF Len(reconciling[r].todo) = 1 THEN ReconcileEnds(r)
               ELSE reconciling' = [reconciling EXCEPT ![r] =
                       [at |-> "measuring", todo |-> Tail(@.todo), measured |-> NotMeasured]]
       ELSE ReconcileEnds(r) /\ UNCHANGED <<catalogued, cursor>>
    /\ UNCHANGED <<fileVars, preparing, elsewhere>>

ReconcileDies(r) ==
    /\ reconciling[r].at # "off" /\ ReconcileEnds(r)
    /\ UNCHANGED <<fileVars, catalogued, cursor, preparing, elsewhere>>

-----------------------------------------------------------------------------
(* prepare_source                                                          *)

MeasureSource(b) ==
    /\ AnotherTool /\ preparing[b] = NotMeasured
    /\ preparing' = [preparing EXCEPT ![b] = onShelf[b]]
    /\ UNCHANGED <<fileVars, catalogued, cursor, reconciling>>

\* Bytes of an old fingerprint that are not the recorded ones are refused, as is
\* a file that changed since it was measured; a book may be new, or not hashed.
Registrable(b) ==
    /\ catalogued[b].stamp = preparing[b].stamp /\ catalogued[b].digest # NoVersion
          => StoredHashMatches(b, preparing[b])
    /\ onShelf[b].stamp = preparing[b].stamp

\* _prepare_one, one transaction.  A refusal and a death leave nothing.
PrepareOne(b) ==
    /\ preparing[b] # NotMeasured /\ Registrable(b)
    /\ catalogued' = [catalogued EXCEPT ![b] =
                         [stamp |-> preparing[b].stamp, digest |-> preparing[b].version]]
    /\ preparing' = [preparing EXCEPT ![b] = NotMeasured]
    /\ UNCHANGED <<fileVars, cursor, reconciling, elsewhere>>

PrepareEnds(b) ==
    /\ preparing[b] # NotMeasured
    /\ preparing' = [preparing EXCEPT ![b] = NotMeasured]
    /\ UNCHANGED <<fileVars, catalogued, cursor, reconciling, elsewhere>>

HandoffNext ==
    \/ \E b \in Decensored :
         \/ CameliaRequeues(b) \/ CameliaReplaces(b) \/ CameliaCompletes(b)
         \/ OtherToolChanges(b) \/ ScanSees(b) \/ StageHashes(b)
         \/ MeasureSource(b) \/ PrepareOne(b) \/ PrepareEnds(b)
    \/ \E r \in HandoffRuns :
         BeginReconcile(r) \/ MeasureCandidate(r) \/ ReconcileOne(r) \/ ReconcileDies(r)

HandoffSpec == HandoffInit /\ [][HandoffNext]_handoffVars

-----------------------------------------------------------------------------
(* Properties                                                              *)

\* A book's digest on record is never put back to that of older bytes, by a run
\* that was slow, a preparation, or two runs that set the cursor back and forth.
RecordsGoForward ==
    [][\A b \in Decensored : catalogued'[b].digest >= catalogued[b].digest]_handoffVars

\* "Each accepted event is atomic with a consumer cursor" (camelia_decensor.md:106):
\* what the cursor has passed is in the catalogue.  A book whose last completion is
\* at or before it is on record with the digest of that completion's bytes, or of
\* later ones, whatever raced, died, kept a fingerprint, or put the cursor back.
PassedIsOnRecord ==
    \A b \in Decensored :
        backlog[b].state = "completed" /\ backlog[b].event <= cursor
            => catalogued[b].digest >= backlog[b].version

\* What is on record is as new as what the cursor passed, and never grows older.
HandoffSafety == RecordsGoForward /\ []PassedIsOnRecord

=============================================================================
