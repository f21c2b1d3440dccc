--------------------------- MODULE CanonicalApply ---------------------------
(***************************************************************************)
(* The executor that renames and quarantines library files from an         *)
(* approved plan (library/canonical_apply): apply, apply --resume, recover *)
(* and undo of ONE plan, over three stores that cannot share a             *)
(* transaction - the filesystem, the attempts' append-only journals, and   *)
(* the catalogue (file_locations rows and step markers).                   *)
(*                                                                         *)
(* Every action is one durable effect (a rename, an fsynced record, a      *)
(* SQLite transaction) or one decision taken from reads, so a crash and an *)
(* outsider touching the files may come between any two.  The scope lock   *)
(* admits one run at a time, so there is one run state; `pc` = "off" means *)
(* nobody holds the lock.                                                  *)
(*                                                                         *)
(* A receipt counter holds the step number of an action's last record of   *)
(* that kind in an attempt's journal (0: none); `marker` does the same for *)
(* the rows of rename_attempt_steps.                                       *)
(***************************************************************************)
EXTENDS Naturals, FiniteSets, Sequences

CONSTANTS
    Archives,    \* the plan's archives, keepers that stay put included
    Paths,       \* exact file names
    Fold,        \* a path in the letter case the filesystem compares
    Chain,       \* the paths an archive takes forward, its source first
    Keeper,      \* the keeper of an archive's family; itself in a rename unit
    Place,       \* position in the plan
    Conflicted,  \* keepers of units that plan.conflicts blocks
    Forward,     \* the apply attempt: a plan digest is applied by one attempt
    Undos,       \* ids of undo attempts
    NoAttempt,
    NoArchive,
    NoFile,
    Alien,       \* bytes that no archive of the plan has
    MaxTrouble,  \* bound on crashes, early stops and the outsider's changes
    MaxMeddling  \* bound on the outsider's changes

Attempts == {Forward} \cup Undos
Steps(a) == 1 .. Len(Chain[a]) - 1
Unit(a) == {b \in Archives : Keeper[b] = Keeper[a]}
PathsOf(a) == {Chain[a][i] : i \in DOMAIN Chain[a]}

\* _check_paths(): no path belongs to two archives.  Action.steps(): a chain has
\* no name twice, and no step ends at the directory entry it starts from, because
\* a change of letter case alone goes through a temporary name.
ASSUME PlanAssumption ==
    /\ Fold \in [Paths -> Paths]
    /\ IsFiniteSet(Archives)
    /\ \A a \in Archives : Chain[a] \in Seq(Paths) /\ Len(Chain[a]) >= 1
    /\ \A a \in Archives : \A i, j \in 1 .. Len(Chain[a]) :
        /\ Chain[a][i] = Chain[a][j] => i = j
        /\ j = i + 1 => Fold[Chain[a][i]] # Fold[Chain[a][j]]
    /\ Keeper \in [Archives -> Archives]
    /\ \A a \in Archives : Keeper[Keeper[a]] = Keeper[a]
    /\ Place \in [Archives -> Nat]
    /\ \A a, b \in Archives :
        /\ Place[a] = Place[b] => a = b
        /\ a # b => \A p \in PathsOf(a), q \in PathsOf(b) : Fold[p] # Fold[q]
        /\ b \in Unit(a) => Place[Keeper[a]] <= Place[b]
    /\ Forward \notin Undos
    /\ NoAttempt \notin Attempts
    /\ {NoArchive, NoFile, Alien} \cap Archives = {} /\ NoFile # Alien
    /\ MaxTrouble \in Nat /\ MaxMeddling \in Nat

VARIABLES
    fs,       \* the bytes at each exact name
    row,      \* file_locations.path of each archive
    marker,   \* rename_attempt_steps
    journal,  \* attempt -> "absent", "ok", or "torn" (JournalCorruptError)
    intent, done, confirmed,
    began,    \* rank of an archive's first record in the forward journal
    asked,    \* action_ids in an undo attempt's header
    \* the run that holds the scope lock
    pc, mode, attempt,
    left,     \* what its loop has not reached
    item,     \* the archive whose step is under way
    refused,  \* recovery refused an action
    \* bounds
    interruptions, meddled

disk == <<fs, row, marker, journal, intent, done, confirmed, began, asked>>
run == <<pc, mode, attempt, left, item, refused>>
bounds == <<interruptions, meddled>>
vars == <<disk, run, bounds>>

Contents == Archives \cup {Alien, NoFile}

Init ==
    /\ fs = [p \in Paths |-> IF \E a \in Archives : Chain[a][1] = p
                             THEN CHOOSE a \in Archives : Chain[a][1] = p ELSE NoFile]
    /\ row = [a \in Archives |-> Chain[a][1]]
    /\ marker = [t \in Attempts |-> [a \in Archives |-> 0]]
    /\ journal = [t \in Attempts |-> "absent"]
    /\ intent = marker /\ done = marker /\ confirmed = marker
    /\ began = [a \in Archives |-> 0]
    /\ asked = [t \in Attempts |-> {}]
    /\ pc = "off" /\ mode = "none" /\ attempt = NoAttempt /\ left = {}
    /\ item = NoArchive /\ refused = FALSE
    /\ interruptions = 0 /\ meddled = 0

-----------------------------------------------------------------------------
(* Filesystem facts.                                                       *)

\* Directory entries whose name equals p up to letter case.
Entries(p) == {q \in Paths : Fold[q] = Fold[p] /\ fs[q] # NoFile}

Occupied(p) == Entries(p) # {}

\* _identity_problem() is None: the exact name is there with the approved bytes.
Holds(p, a) == fs[p] = a

-----------------------------------------------------------------------------
(* Chains.  Action.steps() forward, Action.reverse_steps() in an undo.     *)

\* Where an archive is after n steps of attempt t.
Waypoint(t, a, n) ==
    IF t = Forward THEN Chain[a][n + 1] ELSE Chain[a][Len(Chain[a]) - n]

Source(t, a, n) == Waypoint(t, a, n - 1)
Destination(t, a, n) == Waypoint(t, a, n)

Complete(t, a) == confirmed[t][a] = Len(Chain[a]) - 1
Started(t, a) == intent[t][a] > 0
InFlight(t, a) == intent[t][a] > confirmed[t][a]
Frontier(t, a) == confirmed[t][a] + 1

\* chain_state() raises ChainRefused on anything else.
ChainValid(t, a) ==
    /\ confirmed[t][a] <= marker[t][a] /\ marker[t][a] <= done[t][a]
    /\ done[t][a] <= intent[t][a] /\ intent[t][a] <= confirmed[t][a] + 1
    /\ intent[t][a] < Len(Chain[a])

\* ChainState.location, the latest proven location.
Location(t, a) == Waypoint(t, a, done[t][a])

\* Mutant of Unfinished: the action in flight counts, the one part-way does not.
UnfinishedInFlight(t) ==
    /\ journal[t] # "absent"
    /\ \/ journal[t] = "torn"
       \/ \E a \in Archives : InFlight(t, a)

\* _unfinished_attempts(), for one attempt.
Unfinished(t) ==
    /\ journal[t] # "absent"
    /\ \/ journal[t] = "torn"
       \/ \E a \in Archives : Started(t, a) /\ ~Complete(t, a)

-----------------------------------------------------------------------------
(* Runs start under the scope lock.                                        *)

\* The archives an attempt's run works on, and the order it takes them in.
Selected(t) == IF t = Forward THEN {a \in Archives : Steps(a) # {}} ELSE asked[t]

\* Mutant of Before: undo in plan order.
BeforeByPlan(t, a, b) == Place[a] <= Place[b]

Before(t, a, b) == IF t = Forward THEN Place[a] <= Place[b] ELSE began[a] >= began[b]

IsNext(a) == a \in left /\ \A b \in left : Before(attempt, a, b)

Begin(m, t, p, S) ==
    /\ pc = "off"
    /\ pc' = p /\ mode' = m /\ attempt' = t /\ left' = S /\ refused' = FALSE
    /\ item' = NoArchive
    /\ UNCHANGED bounds

EndRun ==
    /\ pc' = "off" /\ mode' = "none" /\ attempt' = NoAttempt /\ left' = {}
    /\ item' = NoArchive /\ refused' = FALSE

\* apply() of a new attempt, up to the exclusively created, still empty journal.
StartApply ==
    /\ journal[Forward] = "absent"
    /\ \A t \in Attempts : ~Unfinished(t)
    /\ Begin("apply", Forward, "header", Archives)
    /\ journal' = [journal EXCEPT ![Forward] = "torn"]
    /\ UNCHANGED <<fs, row, marker, intent, done, confirmed, began, asked>>

ResumeApply ==
    /\ journal[Forward] = "ok"
    /\ \A t \in Attempts \ {Forward} : ~Unfinished(t)
    /\ Begin("apply", Forward, "recover", Selected(Forward))
    /\ UNCHANGED disk

\* recover() of any readable attempt, whatever the others are doing.
StartRecover(t) ==
    /\ journal[t] = "ok"
    /\ Begin("recover", t, "recover", Selected(t))
    /\ UNCHANGED disk

\* Mutant of Undoable: any member of the plan, keepers without an action too.
UndoableMember(a) ==
    /\ Complete(Forward, a)
    /\ Holds(Location(Forward, a), a)
    /\ row[a] = Location(Forward, a)

Undoable(a) ==
    /\ a \in Selected(Forward) /\ Complete(Forward, a)
    /\ Holds(Location(Forward, a), a)
    /\ row[a] = Location(Forward, a)

\* undo() of a new attempt: the requested actions S are all of the complete
\* ones, or those named by action_ids.
StartUndo(t, S) ==
    /\ journal[t] = "absent" /\ journal[Forward] = "ok"
    /\ \A u \in Attempts : ~Unfinished(u)
    /\ \A a \in Selected(Forward) : ChainValid(Forward, a)
    /\ \A a \in S : Undoable(a)
    /\ Begin("undo", t, "header", S)
    /\ journal' = [journal EXCEPT ![t] = "torn"]
    /\ asked' = [asked EXCEPT ![t] = S]
    /\ UNCHANGED <<fs, row, marker, intent, done, confirmed, began>>

ResumeUndo(t) ==
    /\ journal[t] = "ok" /\ journal[Forward] = "ok"
    /\ \A u \in Attempts \ {t} : ~Unfinished(u)
    /\ Begin("undo", t, "recover", Selected(t))
    /\ UNCHANGED disk

WriteHeader ==
    /\ pc = "header"
    /\ journal' = [journal EXCEPT ![attempt] = "ok"]
    /\ pc' = "unit"
    /\ UNCHANGED <<fs, row, marker, intent, done, confirmed, began, asked,
                   mode, attempt, left, item, refused, bounds>>

-----------------------------------------------------------------------------
(* Recovery: _resolve_once() for each action.                              *)

\* commit_step(): revalidation under the write lock, then the conditional
\* update (file_locations.path is UNIQUE) and the marker in one transaction.
CanCommit(t, a, n) ==
    /\ Holds(Destination(t, a, n), a)
    /\ ~Occupied(Source(t, a, n))
    /\ marker[t][a] < n
    /\ row[a] = Source(t, a, n)
    /\ \A b \in Archives \ {a} : row[b] # Destination(t, a, n)

\* Mutants of CommitStep: the marker, or the path update, is left out; the row
\* gets the action's destination instead of the step's.
CommitUnmarked(t, a, n) ==
    row' = [row EXCEPT ![a] = Destination(t, a, n)] /\ UNCHANGED marker
CommitMarkerOnly(t, a, n) ==
    marker' = [marker EXCEPT ![t][a] = n] /\ UNCHANGED row
CommitActionDestination(t, a, n) ==
    /\ row' = [row EXCEPT ![a] = Waypoint(t, a, Len(Chain[a]) - 1)]
    /\ marker' = [marker EXCEPT ![t][a] = n]

CommitStep(t, a, n) ==
    /\ row' = [row EXCEPT ![a] = Destination(t, a, n)]
    /\ marker' = [marker EXCEPT ![t][a] = n]

\* Mutant of NotDone: the row is compared with the action's source.
NotDoneAtActionSource(t, a, n) ==
    /\ Holds(Source(t, a, n), a)
    /\ ~Occupied(Destination(t, a, n))
    /\ row[a] = Source(t, a, 1)

\* Intent only: nothing moved, provided the source is intact.
NotDone(t, a, n) ==
    /\ Holds(Source(t, a, n), a)
    /\ ~Occupied(Destination(t, a, n))
    /\ row[a] = Source(t, a, n)

\* Done: the destination is owned and nothing came back to the source.
Owned(t, a, n) ==
    Holds(Destination(t, a, n), a) /\ ~Occupied(Source(t, a, n))

\* The recovery matrix for the action's frontier.
Verdict(t, a) ==
    LET n == Frontier(t, a)
        ok(good, answer) == IF good THEN answer ELSE "refused"
    IN  IF ~ChainValid(t, a) THEN "refused"
        ELSE IF ~Started(t, a) THEN "settled"
        ELSE IF ~InFlight(t, a)
             THEN ok(Holds(Location(t, a), a) /\ row[a] = Location(t, a), "settled")
        ELSE IF done[t][a] < n THEN ok(NotDone(t, a, n), "settled")
        ELSE IF marker[t][a] < n THEN ok(Owned(t, a, n) /\ CanCommit(t, a, n), "commit")
        ELSE ok(Owned(t, a, n) /\ row[a] = Destination(t, a, n), "confirm")

\* A resolution that wrote something is followed by another one of the same
\* action, except under recover(single_round=True).
Advance(a) ==
    \/ left' = left
    \/ mode = "recover" /\ left' = left \ {a}

Resolve(a) ==
    /\ pc = "recover" /\ IsNext(a)
    /\ \/ /\ Verdict(attempt, a) = "settled"
          /\ left' = left \ {a}
          /\ UNCHANGED <<disk, refused>>
       \/ /\ Verdict(attempt, a) = "refused"
          /\ left' = left \ {a} /\ refused' = TRUE
          /\ UNCHANGED disk
       \/ /\ Verdict(attempt, a) = "commit"
          /\ CommitStep(attempt, a, Frontier(attempt, a))
          /\ Advance(a)
          /\ UNCHANGED <<fs, journal, intent, done, confirmed, began, asked, refused>>
       \/ /\ Verdict(attempt, a) = "confirm"
          /\ confirmed' = [confirmed EXCEPT ![attempt][a] = Frontier(attempt, a)]
          /\ Advance(a)
          /\ UNCHANGED <<fs, row, marker, journal, intent, done, began, asked, refused>>
    /\ UNCHANGED <<pc, mode, attempt, item, bounds>>

\* recover() reports; a resumed apply or undo goes on unless an action was refused.
RecoveryEnds ==
    /\ pc = "recover" /\ left = {}
    /\ IF mode = "recover" \/ refused
       THEN EndRun
       ELSE /\ pc' = "unit"
            /\ left' = IF mode = "apply" THEN Archives ELSE asked[attempt]
            /\ UNCHANGED <<mode, attempt, item, refused>>
    /\ UNCHANGED <<disk, bounds>>

-----------------------------------------------------------------------------
(* Units of an apply, actions of an undo.                                  *)

\* Mutant of NeedsRecovery: an intent alone stops the run too.
InFlightStops(a) == ~ChainValid(attempt, a) \/ InFlight(attempt, a)

\* _states(), and its counterpart in undo(): recovery was not run to its end.
NeedsRecovery(a) ==
    ~ChainValid(attempt, a) \/ done[attempt][a] > confirmed[attempt][a]

\* _derive_member() and _validate_rows(); equal bytes stand for an unchanged
\* relation to the keeper.
InPlace(a) == Holds(Location(attempt, a), a) /\ row[a] = Location(attempt, a)

\* Phase 1 of a family; all there is for a rename unit.
UnitInPlace(k) ==
    \A a \in Unit(k) :
        /\ InPlace(a)
        /\ Steps(a) # {} /\ ~Started(attempt, a) => ~Occupied(Destination(attempt, a, 1))

UnitComplete(k) == \A a \in Unit(k) : Complete(attempt, a)

\* The loop goes on with what is in S; the step protocol starts, or goes on.
Continue(S) ==
    pc' = "unit" /\ left' = S /\ item' = NoArchive /\ UNCHANGED <<mode, attempt, refused>>
Take(a) == pc' = "intent" /\ item' = a /\ UNCHANGED <<mode, attempt, left, refused>>
Step(p) == pc' = p /\ UNCHANGED <<mode, attempt, left, item, refused>>

\* Mutants of Block: only the action is left out; the unit is tried again.
BlockAction(a) == IF mode = "apply" THEN Continue(left \ {a}) ELSE EndRun
BlockAgain(a) == IF mode = "apply" THEN Continue(left) ELSE EndRun

\* A blocked unit is reported and the run goes on; a blocked undo stops.
Block(a) == IF mode = "apply" THEN Continue(left \ Unit(a)) ELSE EndRun

\* _run_units() reaches the unit of keeper k; _run_family() up to phase 2.
BeginUnit(k) ==
    /\ pc = "unit" /\ mode = "apply" /\ IsNext(k) /\ k = Keeper[k]
    /\ \/ k \in Conflicted /\ Block(k)
       \/ k \notin Conflicted /\ (\E a \in Unit(k) : NeedsRecovery(a)) /\ EndRun
       \/ /\ k \notin Conflicted /\ \A a \in Unit(k) : ~NeedsRecovery(a)
          /\ \/ UnitComplete(k) /\ Continue(left \ Unit(k))
             \/ ~UnitComplete(k) /\ ~UnitInPlace(k) /\ Block(k)
             \/ ~UnitComplete(k) /\ UnitInPlace(k) /\ Complete(attempt, k) /\ Continue(left \ {k})
             \/ ~UnitComplete(k) /\ UnitInPlace(k) /\ ~Complete(attempt, k) /\ Take(k)
    /\ UNCHANGED <<disk, bounds>>

\* Phase 2's fresh validation of the keeper and phase 3's before each dependant.
DependantReady(a) ==
    /\ InPlace(Keeper[a])
    /\ Holds(Location(attempt, a), a)

BeginDependant(a) ==
    /\ pc = "unit" /\ mode = "apply" /\ IsNext(a) /\ a # Keeper[a]
    /\ \/ Complete(attempt, a) /\ Continue(left \ {a})
       \/ ~Complete(attempt, a) /\ ~DependantReady(a) /\ Block(a)
       \/ ~Complete(attempt, a) /\ DependantReady(a) /\ Take(a)
    /\ UNCHANGED <<disk, bounds>>

BeginUndo(a) ==
    /\ pc = "unit" /\ mode = "undo" /\ IsNext(a)
    /\ \/ NeedsRecovery(a) /\ EndRun
       \/ ~NeedsRecovery(a) /\ Complete(attempt, a) /\ Continue(left \ {a})
       \/ ~NeedsRecovery(a) /\ ~Complete(attempt, a)
          /\ IF Holds(Location(attempt, a), a) THEN Take(a) ELSE Block(a)
    /\ UNCHANGED <<disk, bounds>>

\* Batch boundary: quiescence was lost, or too many units were blocked.
StopAtBoundary ==
    /\ pc = "unit" /\ mode = "apply" /\ left # Archives
    /\ \E k \in left : IsNext(k) /\ k = Keeper[k]
    /\ interruptions + meddled < MaxTrouble /\ interruptions' = interruptions + 1
    /\ EndRun
    /\ UNCHANGED <<disk, meddled>>

RunFinishes ==
    /\ pc = "unit" /\ left = {}
    /\ EndRun
    /\ UNCHANGED <<disk, bounds>>

-----------------------------------------------------------------------------
(* run_step(), for the frontier step of the archive in `item`.             *)

CurrentStep == Frontier(attempt, item)

\* Checks before the intent record; the intent of a step that recovery found
\* not done stands, and then a changed source stops the run.
Intent ==
    LET n == CurrentStep IN
    /\ pc = "intent"
    /\ \/ /\ InFlight(attempt, item)
          /\ IF Holds(Source(attempt, item, n), item) THEN Step("verify") ELSE EndRun
          /\ UNCHANGED disk
       \/ /\ ~InFlight(attempt, item)
          /\ ~Holds(Source(attempt, item, n), item) \/ Occupied(Destination(attempt, item, n))
          /\ Block(item)
          /\ UNCHANGED disk
       \/ /\ ~InFlight(attempt, item)
          /\ Holds(Source(attempt, item, n), item) /\ ~Occupied(Destination(attempt, item, n))
          /\ intent' = [intent EXCEPT ![attempt][item] = n]
          /\ began' = IF attempt = Forward /\ began[item] = 0
                      THEN [began EXCEPT ![item] = Cardinality({b \in Archives : began[b] > 0}) + 1]
                      ELSE began
          /\ Step("verify")
          /\ UNCHANGED <<fs, row, marker, journal, done, confirmed, asked>>
    /\ UNCHANGED bounds

Verify ==
    /\ pc = "verify"
    /\ IF Holds(Source(attempt, item, CurrentStep), item) THEN Step("rename") ELSE EndRun
    /\ UNCHANGED <<disk, bounds>>

\* Mutant of CanRename: a rename that replaces its destination.
CanReplace(p, q) == Occupied(p)

\* os.rename() on Windows finds p in any letter case and refuses an existing q.
CanRename(p, q) == Occupied(p) /\ ~Occupied(q)

Rename ==
    LET p == Source(attempt, item, CurrentStep)
        q == Destination(attempt, item, CurrentStep)
    IN
    /\ pc = "rename"
    /\ \/ /\ ~CanRename(p, q) /\ EndRun
          /\ UNCHANGED disk
       \/ /\ CanRename(p, q)
          /\ \E e \in Entries(p) : fs' = [fs EXCEPT ![e] = NoFile, ![q] = fs[e]]
          /\ Step("done")
          /\ UNCHANGED <<row, marker, journal, intent, done, confirmed, began, asked>>
    /\ UNCHANGED bounds

WriteDone ==
    /\ pc = "done"
    /\ done' = [done EXCEPT ![attempt][item] = CurrentStep]
    /\ Step("commit")
    /\ UNCHANGED <<fs, row, marker, journal, intent, confirmed, began, asked, bounds>>

Commit ==
    /\ pc = "commit"
    /\ \/ /\ ~CanCommit(attempt, item, CurrentStep) /\ EndRun
          /\ UNCHANGED disk
       \/ /\ CanCommit(attempt, item, CurrentStep)
          /\ CommitStep(attempt, item, CurrentStep)
          /\ Step("confirm")
          /\ UNCHANGED <<fs, journal, intent, done, confirmed, began, asked>>
    /\ UNCHANGED bounds

\* The last step's record ends the action, another one's leads to the next step.
Confirm ==
    /\ pc = "confirm"
    /\ confirmed' = [confirmed EXCEPT ![attempt][item] = CurrentStep]
    /\ IF CurrentStep = Len(Chain[item]) - 1 THEN Continue(left \ {item}) ELSE Step("intent")
    /\ UNCHANGED <<fs, row, marker, journal, intent, done, began, asked, bounds>>

-----------------------------------------------------------------------------
(* The environment.                                                        *)

\* A record may be under way: a receipt, or the note on a unit or on the run.
Appending ==
    \/ pc \in {"unit", "done", "confirm"}
    \/ pc = "intent" /\ ~InFlight(attempt, item)
    \/ pc = "recover" /\ \E a \in left : IsNext(a) /\ Verdict(attempt, a) = "confirm"

\* The process dies, the OS drops the scope lock, the last record may be torn.
Crash ==
    /\ pc # "off"
    /\ interruptions + meddled < MaxTrouble /\ interruptions' = interruptions + 1
    /\ EndRun
    /\ \/ UNCHANGED journal
       \/ Appending /\ journal' = [journal EXCEPT ![attempt] = "torn"]
    /\ UNCHANGED <<fs, row, marker, intent, done, confirmed, began, asked, meddled>>

\* Somebody else creates, overwrites or deletes a file under a planned name.
Outsider(p, c) ==
    /\ meddled < MaxMeddling /\ interruptions + meddled < MaxTrouble
    /\ fs[p] # c /\ Entries(p) \subseteq {p}
    /\ c \in Archives => p \in PathsOf(c)
    /\ fs' = [fs EXCEPT ![p] = c]
    /\ meddled' = meddled + 1
    /\ UNCHANGED <<row, marker, journal, intent, done, confirmed, began, asked, run, interruptions>>

Operator ==
    \/ StartApply \/ ResumeApply
    \/ \E t \in Attempts : StartRecover(t)
    \/ \E t \in Undos, S \in SUBSET Archives : StartUndo(t, S)
    \/ \E t \in Undos : ResumeUndo(t)

RunStep ==
    \/ WriteHeader \/ RecoveryEnds \/ RunFinishes
    \/ \E a \in Archives :
        Resolve(a) \/ BeginUnit(a) \/ BeginDependant(a) \/ BeginUndo(a)
    \/ Intent \/ Verify \/ Rename \/ WriteDone \/ Commit \/ Confirm

Next ==
    \/ Operator
    \/ RunStep
    \/ StopAtBoundary
    \/ Crash
    \/ \E p \in Paths, c \in Contents : Outsider(p, c)

Spec == Init /\ [][Next]_vars

\* A run that holds the lock goes on; in FairSpec the operator, too, keeps
\* resuming what is unfinished.
RunFairness == WF_vars(RunStep)
OperatorFairness == SF_vars(ResumeApply) /\ \A t \in Undos : SF_vars(ResumeUndo(t))
FairSpec == Spec /\ RunFairness /\ OperatorFairness

-----------------------------------------------------------------------------
Receipts == [Attempts -> [Archives -> Nat]]

TypeOK ==
    /\ fs \in [Paths -> Contents]
    /\ row \in [Archives -> Paths]
    /\ journal \in [Attempts -> {"absent", "ok", "torn"}]
    /\ intent \in Receipts /\ done \in Receipts
    /\ marker \in Receipts /\ confirmed \in Receipts
    /\ began \in [Archives -> Nat]
    /\ asked \in [Attempts -> SUBSET Selected(Forward)]
    /\ pc \in {"off", "header", "recover", "unit", "intent", "verify", "rename",
               "done", "commit", "confirm"}
    /\ mode \in {"none", "apply", "recover", "undo"}
    /\ attempt \in Attempts \cup {NoAttempt}
    /\ left \subseteq Archives
    /\ item \in Archives \cup {NoArchive}
    /\ refused \in BOOLEAN
    /\ interruptions \in Nat /\ meddled \in Nat

\* ChainRefused is never raised: whatever the crashes, torn records and foreign
\* changes, receipts and markers of every action stay prefix-closed.
ChainsValid == \A t \in Attempts, a \in Archives : ChainValid(t, a)

\* Two attempts are never in the middle of something at the same time, although
\* recover() does not look at the other attempts.
Partway(t) == \E a \in Archives : Started(t, a) /\ ~Complete(t, a)
OneUnfinished == \A t, u \in Attempts : Partway(t) /\ Partway(u) => t = u

\* Paragraph 5.3: nothing of a family is quarantined before its keeper's rename is
\* confirmed, in whichever run and whatever was blocked before.
KeeperFirst ==
    \A a \in Archives : Started(Forward, a) => Keeper[a] = a \/ Complete(Forward, Keeper[a])

\* Undo takes the latest action first, also when it is resumed.
LatestUndoneFirst ==
    \A t \in Undos : \A a, b \in asked[t] :
        Started(t, a) /\ began[a] < began[b] => Complete(t, b)

\* Attempts follow each other, and so do the steps an undo takes back.
AttemptsInOrder == OneUnfinished /\ LatestUndoneFirst

\* The attempt an archive's whereabouts follow from.
Mover(a) ==
    IF \E u \in Undos : Started(u, a) THEN CHOOSE u \in Undos : Started(u, a) ELSE Forward

\* If only this program touches the files, an archive is at its journal-proven
\* location and nowhere else (between intent and done, at one end of the step),
\* and its row at the end of its last marked step: an undo brings both home.
FilesWhereProven ==
    meddled = 0 => \A a \in Archives :
        LET t == Mover(a)
            n == Frontier(t, a)
            here == {p \in Paths : fs[p] = a}
        IN  /\ row[a] = Waypoint(t, a, marker[t][a])
            /\ IF InFlight(t, a) /\ done[t][a] < n
               THEN here = {Source(t, a, n)} \/ here = {Destination(t, a, n)}
               ELSE here = {Location(t, a)}

\* The file moved and its done receipt did not make it to the journal.
Ambiguous(t, a) ==
    /\ InFlight(t, a) /\ done[t][a] < Frontier(t, a)
    /\ fs[Source(t, a, Frontier(t, a))] = NoFile

\* If only this program touches the files, recovery asks for an operator for one
\* reason alone, a crash between a rename and its receipt.
RefusedOnlyIfAmbiguous ==
    \A t \in Attempts, a \in Archives :
        (pc = "off" /\ meddled = 0 /\ journal[t] = "ok" /\ Unfinished(t)
            /\ Verdict(t, a) = "refused") => Ambiguous(t, a)

\* What is on record after a crash is what recovery needs: where each file is,
\* and that only the one ambiguity stops it.
RecoveryIsSound == FilesWhereProven /\ RefusedOnlyIfAmbiguous

\* The journal orders what was done, and tells recovery what there is to do.
JournalIsSound == AttemptsInOrder /\ RecoveryIsSound

\* The executor loses no file: a name it clears, its own or one an outsider
\* took, has its bytes under a name that was free in every letter case.
NothingClobbered ==
    [][\A p \in Paths :
        (fs[p] # NoFile /\ fs'[p] # fs[p] /\ meddled' = meddled) =>
            /\ fs'[p] = NoFile
            /\ \E q \in Paths : ~Occupied(q) /\ fs'[q] = fs[p]]_vars

\* Whatever crashes and outsiders do: chains stay valid, keepers come first, and
\* no file is lost.
Safety == []TypeOK /\ []ChainsValid /\ []KeeperFirst /\ NothingClobbered

\* No run holds the scope lock for ever: blocked units are not tried again and
\* the resolutions of recovery come to an end.
RunEnds == pc # "off" ~> pc = "off"

\* What was begun is brought to an end by resuming it, unless a record was torn,
\* a rename lost its receipt, or an outsider touched the files.
ResumeConverges ==
    \A t \in Attempts :
        Unfinished(t) ~> \/ ~Unfinished(t) \/ journal[t] = "torn" \/ meddled > 0
                         \/ \E a \in Archives : Ambiguous(t, a)

\* Runs end, and what they left is brought to an end.
Progress == RunEnds /\ ResumeConverges

-----------------------------------------------------------------------------
\* What the catalogue sees of it.
Catalogue == INSTANCE CatalogueMoves WITH
    at <- row,
    back <- [a \in Archives |-> \E u \in Undos : marker[u][a] > 0]

ImplementsCatalogueMoves == Catalogue!Spec
=============================================================================
