----------------------------- MODULE CanonicalPlan -----------------------------
(***************************************************************************)
(* Planning canonical names of a live library.  The planner walks the      *)
(* library, reads the catalogue, derives a name for each book or a verdict *)
(* for each family, holds what collides, walks again and compares.  The    *)
(* watcher moves books meanwhile.  A strict plan refuses any change; a     *)
(* scoped plan drops the series folders that changed.  The executor parses *)
(* what was written before it applies anything.                            *)
(*                                                                         *)
(* A path is <<folder, name>>; the root level is the folder Root.  What    *)
(* resolution concludes from a book's evidence is any name of its folder.  *)
(***************************************************************************)
EXTENDS Naturals, FiniteSets

CONSTANTS
    Folders,        \* series folders
    BookNames,      \* file names
    NameFold,            \* name -> the planner's comparison form (NFC, casefold)
    Norm,           \* name -> the executor's comparison form (normcase)
    FirstBooks,     \* books of the library at the start
    Catalogues,     \* catalogues to plan with, sets of [id, archive, path]
    PlanModes,      \* <<scoped, folders asked for>> to plan with
    MaxBookMoves    \* bound on changes of the library while planning

Root == "root"
Itself == "."    \* the entry of a directory

ASSUME KeyIsCoarser == \A m, n \in BookNames : Norm[m] = Norm[n] => NameFold[m] = NameFold[n]

\* Folders are not called as the root and the quarantine are, nor books as
\* a directory or a verdict; a row of the catalogue has an id of its own.
ASSUME PlanningAssumption ==
    /\ IsFiniteSet(Folders) /\ Folders \intersect {Root, "quarantine"} = {}
    /\ IsFiniteSet(BookNames) /\ BookNames \intersect {Itself, "held", "older"} = {}
    /\ FirstBooks \subseteq (Folders \union {Root}) \X BookNames
    /\ \A rows \in Catalogues : \A r, s \in rows : r.id = s.id => r = s

BookPaths == (Folders \union {Root}) \X BookNames

VARIABLES
    books,      \* the books there are
    stamp,      \* folder -> times its directory changed
    catalogue,  \* current file locations
    planning,   \* the planning run
    document,   \* the sealed plan
    bookMoves,  \* number of changes
    disturbed     \* history: folders changed between their two observations

planVars == <<books, stamp, catalogue, planning, document, bookMoves, disturbed>>

Unplanned == [phase |-> "none"]
FoldersThere == {p[1] : p \in books} \ {Root}
In(f, paths) == {p \in paths : p[1] = f}

PlanInit ==
    /\ books = FirstBooks
    /\ stamp = [f \in Folders |-> 0]
    /\ catalogue \in Catalogues
    /\ planning = Unplanned /\ document = Unplanned
    /\ bookMoves = 0 /\ disturbed = {}

LibraryStays == UNCHANGED <<books, stamp, catalogue, bookMoves, disturbed>>
RefusePlan == planning' = [phase |-> "refused"] /\ UNCHANGED document

-----------------------------------------------------------------------------
(* One walk.  A row is a book, a directory with its time, or something     *)
(* that vanished before it was examined.                                   *)

Row(kind, p) ==
    [path |-> p, kind |-> kind, time |-> IF kind = "directory" THEN stamp[p[1]] ELSE 0]
Vanished(p) == Row("vanished", p)
PresentBooks(p) == Row(IF p[2] = Itself THEN "directory" ELSE "book", p)

Asked(f) == planning.mode[2] = {} \/ f \in planning.mode[2]
Observing == planning.phase \in {"first", "second"}

StartPlanning(mode) ==
    /\ planning = Unplanned /\ mode[2] \subseteq FoldersThere
    /\ planning' = [phase |-> "first", mode |-> mode, todo |-> {Root},
                    listed |-> <<>>, seen |-> {}, committed |-> FALSE,
                    before |-> {}, units |-> {}]
    /\ LibraryStays /\ UNCHANGED document

EntriesOf(f) ==
    In(f, books) \union (IF f = Root THEN {<<g, Itself>> : g \in FoldersThere} ELSE {})

\* A folder that is gone before it is listed aborts a strict plan.
ListFolder(f) ==
    /\ Observing /\ planning.listed = <<>> /\ f \in planning.todo
    /\ IF f # Root /\ f \notin FoldersThere
       THEN IF planning.mode[1]
            THEN /\ planning' = [planning EXCEPT !.todo = @ \ {f},
                                     !.seen = @ \union {Vanished(<<f, Itself>>)}]
                 /\ UNCHANGED document
            ELSE RefusePlan
       ELSE /\ planning' = [planning EXCEPT !.todo = @ \ {f},
                                            !.listed = <<f, EntriesOf(f)>>]
            /\ UNCHANGED document
    /\ LibraryStays

\* lstat of each entry: one that left since the listing aborts a strict plan,
\* and any plan when it was not in a series folder.
ExamineFolder ==
    /\ Observing /\ planning.listed # <<>>
    /\ LET f == planning.listed[1]
           kept == {p \in planning.listed[2] : p[2] # Itself \/ Asked(p[1])}
           gone == kept \ EntriesOf(f)
           rows == {PresentBooks(p) : p \in kept \ gone} \union {Vanished(p) : p \in gone}
           dirs == {p[1] : p \in {q \in kept \ gone : q[2] = Itself}} IN
       IF gone # {} /\ (~planning.mode[1] \/ \E p \in gone : p[1] = Root)
       THEN RefusePlan
       ELSE /\ planning' = [planning EXCEPT !.listed = <<>>,
                                !.seen = @ \union rows, !.todo = @ \union dirs]
            /\ UNCHANGED document
    /\ LibraryStays

-----------------------------------------------------------------------------
(* What is planned                                                         *)

Seen == planning.seen
BooksSeen ==
    {r.path : r \in {s \in Seen : /\ s.kind = "book"
                                  /\ s.path[1] = Root => planning.mode[2] = {}}}
SameNorm(p, q) == p[1] = q[1] /\ Norm[p[2]] = Norm[q[2]]
SameKey(p, q) == p[1] = q[1] /\ NameFold[p[2]] = NameFold[q[2]]

\* Mutant of Mapped: whichever row's path compares equal will do.
MappedAnyhow(p) == {r \in catalogue : SameNorm(r.path, p)}

\* The one catalogue row of a book: one row compares equal, its archive has
\* no other location, and the spelling is the observed one.
Mapped(p) ==
    {r \in catalogue :
        /\ {s \in catalogue : SameNorm(s.path, p)} = {r}
        /\ {s \in catalogue : s.archive = r.archive} = {r}
        /\ r.path = p}

\* A book that is gone, or not mapped to one row, is held with its family.
Plannable == {p \in BooksSeen \intersect books : Mapped(p) # {}}
RowOf(p) == CHOOSE r \in Mapped(p) : TRUE

\* A unit: the books it names, their rows, and its moves <<from, to>>.
NamedUnit(paths, moves) ==
    [paths |-> paths, rows |-> {RowOf(p) : p \in paths}, moves |-> moves]
Renaming(p, n) == IF n = p[2] THEN {} ELSE {<<p, <<p[1], n>>>>}
Quarantining(older) == {<<p, <<"quarantine", RowOf(p).archive>>>> : p \in older}

\* What resolution says of a book: a name, held, or older than the keeper.
Sayings == BookNames \union {"held", "older"}

\* A family has the older books of its folder and one keeper.
Units(say, keepers) ==
    {NamedUnit({p}, Renaming(p, say[p])) :
        p \in {q \in DOMAIN say \ keepers : say[q] \in BookNames \ {q[2]}}}
    \union {LET older == {p \in DOMAIN say : say[p] = "older" /\ p[1] = k[1]} IN
            NamedUnit(older \union {k}, Quarantining(older) \union Renaming(k, say[k])) :
               k \in keepers}

OneKeeperEach(say, keepers) ==
    /\ \A k \in keepers : say[k] \in BookNames
    /\ \A f \in Folders \union {Root} :
          Cardinality(In(f, keepers)) =
             (IF \E p \in DOMAIN say : p[1] = f /\ say[p] = "older" THEN 1 ELSE 0)

MovesOf(units) == UNION {u.moves : u \in units}
Quarantined(d) == d[1] = "quarantine"
Occupants(d) ==
    IF Quarantined(d) THEN {}
    ELSE {r.path : r \in {s \in Seen : s.path[2] # Itself /\ SameKey(s.path, d)}}
Collide(d, e) ==
    IF Quarantined(d) \/ Quarantined(e) THEN d = e ELSE SameKey(d, e)
OwnCaseOnly(m) == Occupants(m[2]) = {m[1]} /\ SameNorm(m[1], m[2])

\* Mutant of Blocked: only what another move wants is a collision.
BlockedByMoves(u, units) ==
    \E m \in u.moves : \E k \in MovesOf(units) \ {m} : Collide(m[2], k[2])

\* _remove_collisions: a destination is occupied by anything but the source
\* itself under another case, or is there now, or another move has it too.
Blocked(u, units) ==
    \E m \in u.moves :
        \/ Occupants(m[2]) # {} /\ ~OwnCaseOnly(m)
        \/ Occupants(m[2]) = {} /\ m[2] \in books
        \/ \E k \in MovesOf(units) \ {m} : Collide(m[2], k[2])

\* Mapping, derivation and collisions, on the first observation.
DerivePlan ==
    /\ planning.phase = "first" /\ planning.todo = {} /\ planning.listed = <<>>
    /\ \E say \in [Plannable -> Sayings], keepers \in SUBSET Plannable :
          /\ OneKeeperEach(say, keepers)
          /\ LET units == Units(say, keepers) IN
             planning' = [planning EXCEPT !.phase = "second", !.todo = {Root},
                                          !.seen = {}, !.before = Seen,
                                          !.units = {u \in units : ~Blocked(u, units)}]
    /\ LibraryStays /\ UNCHANGED document

-----------------------------------------------------------------------------
(* Comparing and sealing                                                   *)

RowsOf(f, rows) == {r \in rows : r.path[1] = f}

\* Mutant of Skipped: the directories' own times are not compared.
SkippedByBooks(before, after) ==
    {f \in Folders : {r \in RowsOf(f, before) : r.path[2] # Itself}
                        # {r \in RowsOf(f, after) : r.path[2] # Itself}}

\* _skipped_scopes: folders that differ, or lost an entry while listed.
Skipped(before, after) ==
    {f \in Folders : \/ RowsOf(f, before) # RowsOf(f, after)
                     \/ \E r \in RowsOf(f, before \union after) : r.kind = "vanished"}

\* A commit to the catalogue or a change at the root level refuses any plan.
SealPlan ==
    /\ planning.phase = "second" /\ planning.todo = {} /\ planning.listed = <<>>
    /\ LET before == planning.before
           skipped == Skipped(before, Seen) IN
       IF \/ planning.committed
          \/ IF planning.mode[1] THEN RowsOf(Root, before) # RowsOf(Root, Seen)
             ELSE before # Seen
       THEN RefusePlan
       ELSE /\ document' = [units |-> {u \in planning.units :
                                          \A p \in u.paths : p[1] \notin skipped},
                            skipped |-> skipped]
            /\ planning' = [phase |-> "sealed"]
    /\ LibraryStays

CatalogueCommits ==
    /\ Observing /\ ~planning.committed
    /\ planning' = [planning EXCEPT !.committed = TRUE]
    /\ LibraryStays /\ UNCHANGED document

\* The watcher or the user adds, removes or renames a book.
Observed(f) ==
    IF f = Root THEN Root \notin planning.todo
    ELSE \E r \in Seen : r.path = <<f, Itself>>
BetweenObservations(f) ==
    Observing /\ (planning.phase = "first") = Observed(f)

LibraryChanges ==
    /\ bookMoves < MaxBookMoves /\ bookMoves' = bookMoves + 1
    /\ \E p \in BookPaths :
          /\ books' = IF p \in books THEN books \ {p} ELSE books \union {p}
          /\ stamp' = [f \in Folders |-> stamp[f] + (IF f = p[1] THEN 1 ELSE 0)]
          /\ disturbed' = IF Observing /\ BetweenObservations(p[1])
                        THEN disturbed \union {p[1]} ELSE disturbed
    /\ UNCHANGED <<catalogue, planning, document>>

PlanNext ==
    \/ \E mode \in PlanModes : StartPlanning(mode)
    \/ \E f \in Folders \union {Root} : ListFolder(f)
    \/ ExamineFolder \/ DerivePlan \/ SealPlan
    \/ CatalogueCommits \/ LibraryChanges

PlanSpec == PlanInit /\ [][PlanNext]_planVars

-----------------------------------------------------------------------------
(* The executor's parse of the sealed plan                                 *)

SameDestination(d, e) ==
    IF Quarantined(d) \/ Quarantined(e) THEN d = e ELSE SameNorm(d, e)

\* parse_plan: a rename stays in its folder; a family quarantines somebody.
ShapeIsSound(u) ==
    /\ \A m \in u.moves : m[1] # m[2] /\ (Quarantined(m[2]) \/ m[2][1] = m[1][1])
    /\ Cardinality(u.paths) > 1 => \E m \in u.moves : Quarantined(m[2])

\* _check_paths
PathsAreSound(units) ==
    /\ \A u \in units : \A p, q \in u.paths : SameNorm(p, q) => p = q
    /\ \A m, k \in MovesOf(units) : SameDestination(m[2], k[2]) => m = k
    /\ \A m \in MovesOf(units) : \A u \in units : \A p \in u.paths :
          SameDestination(p, m[2]) => SameNorm(m[1], m[2])

\* _conflicts
Conflicting(units) ==
    {c \in units \X units :
        c[1] # c[2] /\ \E r \in c[1].rows, s \in c[2].rows : r.id = s.id \/ r.archive = s.archive}

-----------------------------------------------------------------------------
(* Properties                                                              *)

\* Whatever is planned, the executor accepts it: no path named twice, no
\* destination another action starts from, no unit blocked by another.
ExecutorAccepts ==
    document # Unplanned =>
        /\ \A u \in document.units : ShapeIsSound(u)
        /\ PathsAreSound(document.units) /\ Conflicting(document.units) = {}

\* No planned book is in a series folder that changed between the two times
\* the planner observed it, not even back to what it was.
PlannedFoldersAreStill ==
    document # Unplanned =>
        \A u \in document.units : \A p \in u.paths : p[1] \notin disturbed \ {Root}

\* A sealed plan is one the executor accepts, made of folders that held still.
PlanSafety == ExecutorAccepts /\ PlannedFoldersAreStill

=============================================================================
