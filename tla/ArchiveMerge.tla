----------------------------- MODULE ArchiveMerge -----------------------------
(***************************************************************************)
(* Landing the archives of one intake folder in one series folder: naming  *)
(* them, then merging file by file, or moving the folder whole.  Three     *)
(* tools do it: the watcher, with and without a series resolver, staging   *)
(* promotion, and library maintenance.  Of a folder that has folders of    *)
(* archives inside, the watcher merges only the archives it has named.     *)
(*                                                                         *)
(* Two names with one key are taken for one book.  An archive is the book  *)
(* it holds, its size and the name it arrived under.                       *)
(***************************************************************************)
EXTENDS Naturals, FiniteSets

CONSTANTS
    FileNames,      \* names of archives, intake or library
    CollisionKey,   \* name -> its key (_archive_collision_key)
    Display,        \* name -> the name it should land under
    Tagged,         \* names with a round-bracket tag that the display drops
    Refused,        \* names the canonical formatter refuses
    BareNames,           \* names that are the series' own name, with no number
    ChapterOne,     \* such a name -> its name as the first chapter
    Books, Sizes,   \* what archives hold, and how large they are
    MinGain,        \* REPLACEMENT_MIN_GAIN_BYTES
    Tools,          \* subset of {"watcher", "resolver", "promotion", "maintenance"}
    MaxArchives,    \* bound on archives that arrive
    MaxMergeTrouble \* bound on failing moves and crashes

\* Cleaning a display name again changes nothing.
ASSUME DisplayAssumption ==
    \A n \in FileNames : Display[n] \in FileNames /\ Display[Display[n]] = Display[n]
ASSUME ChapterOneAssumption ==
    BareNames \subseteq FileNames /\ \A n \in BareNames : ChapterOne[n] \in FileNames
ASSUME SizesAssumption == Sizes \subseteq Nat \ {0} /\ MinGain \in Nat \ {0}

NoArchive == [size |-> 0]
Landed == "landed"

VARIABLES
    mergeTool,      \* whose folder the intake is: the tool that merges it
    intake,         \* name -> the archive there
    racks,          \* name -> the archive there in the series folder
    folder,         \* whether the series folder exists
    aside,          \* archives moved to the conflict quarantine, or, with their
                    \* folder, into a series folder that appeared meanwhile
    merger,         \* the running pass: [phase, loose, known, left, stripped, file, to]
    archives,       \* number of archives that arrived so far
    mergeTrouble,   \* number of failures so far
    shelved         \* history: keys of which the series folder had a copy;
                    \* a key changes with the name of its copy

mergeVars == <<mergeTool, intake, racks, folder, aside, merger, archives, mergeTrouble, shelved>>

NoPass == [phase |-> "idle"]
Here(place) == {n \in FileNames : place[n] # NoArchive}
KeysIn(place) == {CollisionKey[n] : n \in Here(place)}
SameBytes(a, b) == a.book = b.book /\ a.size = b.size

MergeInit ==
    /\ mergeTool \in Tools
    /\ intake = [n \in FileNames |-> NoArchive]
    /\ racks = [n \in FileNames |-> NoArchive]
    /\ folder = FALSE /\ aside = {}
    /\ merger = NoPass
    /\ archives = 0 /\ mergeTrouble = 0 /\ shelved = {}

\* A copy of a key the shelf lacks stands for the key of the name it is given.
Renamed(n, to, shelf) ==
    IF CollisionKey[n] \in shelved \ KeysIn(shelf)
    THEN (shelved \ {CollisionKey[n]}) \union {CollisionKey[to]} ELSE shelved

MergeFails == mergeTrouble < MaxMergeTrouble /\ mergeTrouble' = mergeTrouble + 1

\* Downloads: while a pass that removes its folder runs, none comes.
ArchiveArrives(n) ==
    /\ archives < MaxArchives /\ archives' = archives + 1
    /\ intake[n] = NoArchive
    /\ mergeTool # "maintenance" \/ merger = NoPass
    /\ \E b \in Books, s \in Sizes :
          intake' = [intake EXCEPT ![n] = [book |-> b, size |-> s, as |-> n]]
    /\ UNCHANGED <<mergeTool, racks, folder, aside, merger, mergeTrouble, shelved>>

\* Somebody else makes the series folder, perhaps with an archive in it.
FolderAppears ==
    /\ ~folder /\ folder' = TRUE
    /\ \/ UNCHANGED <<racks, archives, shelved>>
       \/ /\ archives < MaxArchives /\ archives' = archives + 1
          /\ \E n \in FileNames, b \in Books, s \in Sizes :
                /\ racks' = [racks EXCEPT ![n] = [book |-> b, size |-> s, as |-> n]]
                /\ shelved' = shelved \union {CollisionKey[n]}
    /\ UNCHANGED <<mergeTool, intake, aside, merger, mergeTrouble>>

-----------------------------------------------------------------------------
(* Naming                                                                  *)

\* Mutant of Defers: a name is applied as soon as it is known.
DefersNothing(n) == FALSE

\* _defers_rename: the display name drops a tag, and meets other archives.
Defers(n) == n \in Tagged /\ CollisionKey[n] # CollisionKey[Display[n]]
Watching == mergeTool \in {"watcher", "resolver"}

StartPass ==
    /\ merger = NoPass /\ Here(intake) # {}
    /\ \E loose \in BOOLEAN :
          /\ loose => Watching
          /\ merger' = [phase |-> "naming", loose |-> loose, known |-> {},
                        left |-> Here(intake), stripped |-> {},
                        file |-> Landed, to |-> Landed]
    /\ UNCHANGED <<mergeTool, intake, racks, folder, aside, archives, mergeTrouble, shelved>>

\* process_cbz_file and _apply_fallback_naming: renamed now, unless the name
\* is taken, or is applied at landing.  Only the watcher names archives.
NameArchive(n) ==
    /\ merger.phase = "naming" /\ n \in merger.left
    /\ LET to == Display[n]
       IN IF Watching /\ n \notin Refused /\ intake[to] = NoArchive /\ ~Defers(n)
          THEN /\ intake' = [intake EXCEPT ![to] = intake[n], ![n] = NoArchive]
               /\ shelved' = Renamed(n, to, racks)
               /\ merger' = [merger EXCEPT !.left = @ \ {n}, !.known = @ \union {to}]
          ELSE /\ merger' = [merger EXCEPT !.left = @ \ {n}, !.known = @ \union {n}]
               /\ UNCHANGED <<intake, shelved>>
    /\ UNCHANGED <<mergeTool, racks, folder, aside, archives, mergeTrouble>>

Named == merger.phase = "naming" /\ merger.left = {}
\* A refused name leaves the whole folder in intake, for review.
ForReview == Watching /\ ~merger.loose /\ Refused \cap merger.known # {}

RefusePass ==
    /\ Named /\ ForReview
    /\ merger' = NoPass
    /\ UNCHANGED <<mergeTool, intake, racks, folder, aside, archives, mergeTrouble, shelved>>

\* _stripped_arrivals
Stripped == IF ~Watching THEN {}
            ELSE {n \in merger.known : Defers(n) /\ intake[Display[n]] = NoArchive}

\* _backfill_chapter_one: when what comes is a numbered chapter, an archive on
\* the shelf that has only the series' name is renamed to the first chapter,
\* unless the formatter refuses or the name is taken.
Backfill ==
    \/ UNCHANGED <<racks, shelved>>
    \/ /\ Watching
       /\ \E n \in BareNames \cap Here(racks) :
             LET to == ChapterOne[n]
             IN /\ racks[to] = NoArchive
                /\ racks' = [racks EXCEPT ![to] = racks[n], ![n] = NoArchive]
                /\ shelved' = Renamed(n, to, racks') \union {CollisionKey[to]}

MergesAll == merger' = [merger EXCEPT !.phase = "merging", !.left = Here(intake),
                                      !.stripped = Stripped]

StartMerge ==
    /\ Named /\ ~merger.loose /\ ~ForReview
    /\ folder \/ ~Watching
    /\ folder' = TRUE
    /\ MergesAll /\ Backfill
    /\ UNCHANGED <<mergeTool, intake, aside, archives, mergeTrouble>>

\* _move_loose_files: refused names stay, the others merge one by one, into a
\* folder that is made for them before the first is moved.
StartLooseMerge ==
    /\ Named /\ merger.loose
    /\ LET mine == merger.known \ Refused
       IN IF mine = {} THEN merger' = NoPass /\ UNCHANGED folder
          ELSE /\ merger' = [merger EXCEPT !.phase = "merging", !.left = mine,
                                           !.stripped = Stripped]
               /\ folder' = TRUE
    /\ UNCHANGED <<mergeTool, intake, racks, aside, archives, mergeTrouble, shelved>>

\* Without a series folder the watcher moves the directory whole: it looks,
StartMoveWhole ==
    /\ Named /\ ~merger.loose /\ ~ForReview
    /\ Watching /\ ~folder
    /\ merger' = [merger EXCEPT !.phase = "moving"]
    /\ UNCHANGED <<mergeTool, intake, racks, folder, aside, archives, mergeTrouble, shelved>>

\* and moves.
MoveWhole ==
    /\ merger.phase = "moving" /\ ~folder
    /\ racks' = intake
    /\ intake' = [n \in FileNames |-> NoArchive]
    /\ folder' = TRUE
    /\ shelved' = shelved \union KeysIn(intake)
    /\ merger' = [merger EXCEPT !.phase = "landing", !.left = Stripped]
    /\ UNCHANGED <<mergeTool, aside, archives, mergeTrouble>>

\* Into a folder that appeared since the look, the directory moves as one more
\* folder inside.
MoveInside ==
    /\ merger.phase = "moving" /\ folder
    /\ aside' = aside \union {intake[n] : n \in Here(intake)}
    /\ intake' = [n \in FileNames |-> NoArchive]
    /\ merger' = [merger EXCEPT !.phase = "landing", !.left = Stripped]
    /\ UNCHANGED <<mergeTool, racks, folder, archives, mergeTrouble, shelved>>

\* If it appears while the move is under way, the move raises: merge after all.
FallBackToMerge ==
    /\ merger.phase = "moving" /\ folder
    /\ MergesAll /\ Backfill
    /\ UNCHANGED <<mergeTool, intake, folder, aside, archives, mergeTrouble>>

\* _land_deferred_names: a name that is taken, or cannot be given, is not.  An
\* archive of that name in the series folder is renamed, whoever brought it.
LandDeferredName(n) ==
    /\ merger.phase = "landing" /\ n \in merger.left
    /\ merger' = [merger EXCEPT !.left = @ \ {n}]
    /\ \/ /\ racks[n] # NoArchive /\ CollisionKey[Display[n]] \notin KeysIn(racks)
          /\ racks' = [racks EXCEPT ![Display[n]] = racks[n], ![n] = NoArchive]
          /\ shelved' = Renamed(n, Display[n], racks')
          /\ UNCHANGED mergeTrouble
       \/ /\ IF racks[n] = NoArchive \/ CollisionKey[Display[n]] \in KeysIn(racks)
             THEN UNCHANGED mergeTrouble ELSE MergeFails
          /\ UNCHANGED <<racks, shelved>>
    /\ UNCHANGED <<mergeTool, intake, folder, aside, archives>>

-----------------------------------------------------------------------------
(* Merging one archive                                                     *)

LandsAs(n) == IF n \in merger.stripped THEN Display[n] ELSE n

\* _find_archive_collision: the name itself, else any with its key.
Meets(n) ==
    IF racks[LandsAs(n)] # NoArchive THEN {LandsAs(n)}
    ELSE {m \in Here(racks) : CollisionKey[m] = CollisionKey[LandsAs(n)]}

Visiting(n) == merger.phase = "merging" /\ n \in merger.left /\ intake[n] # NoArchive
Visited(n, phase, to) ==
    merger' = [merger EXCEPT !.phase = phase, !.left = @ \ {n}, !.file = n, !.to = to]

PutDown(n, to) ==
    /\ racks' = [racks EXCEPT ![to] = intake[n]]
    /\ intake' = [intake EXCEPT ![n] = NoArchive]
    /\ shelved' = Renamed(n, to, racks') \union {CollisionKey[to]}

MoveIn(n) ==
    /\ Visiting(n) /\ Meets(n) = {}
    /\ PutDown(n, LandsAs(n))
    /\ Visited(n, "merging", LandsAs(n))
    /\ UNCHANGED <<mergeTool, folder, aside, archives, mergeTrouble>>

\* _hold_stripped_collision: a match made by the dropped tag is no evidence.
HeldBack(n, m) == n \in merger.stripped /\ ~SameBytes(intake[n], racks[m])

HoldArchive(n) ==
    /\ Visiting(n) /\ \E m \in Meets(n) : HeldBack(n, m) /\ Visited(n, "merging", m)
    /\ UNCHANGED <<mergeTool, intake, racks, folder, aside, archives, mergeTrouble, shelved>>

\* Whether the incoming archive takes the other's place.
Wins(n, m) ==
    LET gain == IF mergeTool \in {"watcher", "promotion"} THEN MinGain ELSE 1
    IN intake[n].size >= racks[m].size + gain

\* The loser on the shelf is removed, or moved aside; the winner comes next.
TakeFromShelf(n) ==
    /\ Visiting(n)
    /\ \E m \in Meets(n) :
          /\ ~HeldBack(n, m) /\ Wins(n, m)
          /\ racks' = [racks EXCEPT ![m] = NoArchive]
          /\ aside' = IF mergeTool = "resolver" THEN aside \union {racks[m]} ELSE aside
          /\ Visited(n, "replacing", m)
    /\ UNCHANGED <<mergeTool, intake, folder, archives, mergeTrouble, shelved>>

PutInItsPlace ==
    /\ merger.phase = "replacing"
    /\ PutDown(merger.file, merger.to)
    /\ merger' = [merger EXCEPT !.phase = "merging"]
    /\ UNCHANGED <<mergeTool, folder, aside, archives, mergeTrouble>>

\* Mutant of DiscardIncoming: the resolver deletes the smaller one, too.
DeleteIncoming(n) ==
    /\ Visiting(n)
    /\ \E m \in Meets(n) :
          /\ ~HeldBack(n, m) /\ ~Wins(n, m)
          /\ Visited(n, "merging", m)
    /\ intake' = [intake EXCEPT ![n] = NoArchive]
    /\ UNCHANGED <<mergeTool, racks, folder, aside, archives, mergeTrouble, shelved>>

\* settle_file_conflict keeps a loser that is no exact duplicate.
DiscardIncoming(n) ==
    /\ Visiting(n)
    /\ \E m \in Meets(n) :
          /\ ~HeldBack(n, m) /\ ~Wins(n, m)
          /\ aside' = IF mergeTool = "resolver" /\ ~SameBytes(intake[n], racks[m])
                      THEN aside \union {intake[n]} ELSE aside
          /\ shelved' = Renamed(n, m, racks)
          /\ Visited(n, "merging", m)
    /\ intake' = [intake EXCEPT ![n] = NoArchive]
    /\ UNCHANGED <<mergeTool, racks, folder, archives, mergeTrouble>>

-----------------------------------------------------------------------------
(* The end of the pass                                                     *)

\* Mutant of PassFails: the folder is removed whatever happened.
PassFailsAndSweeps ==
    /\ merger # NoPass /\ MergeFails
    /\ merger' = NoPass
    /\ intake' = [n \in FileNames |-> NoArchive]
    /\ UNCHANGED <<mergeTool, racks, folder, aside, archives, shelved>>

\* A move or an unlink raises, or the process dies: what is left stays.
PassFails ==
    /\ merger # NoPass /\ MergeFails
    /\ merger' = NoPass
    /\ UNCHANGED <<mergeTool, intake, racks, folder, aside, archives, shelved>>

\* Maintenance removes the folder with everything in it; the others only
\* remove what is empty.
FinishPass ==
    /\ merger.phase \in {"merging", "landing"} /\ merger.left = {}
    /\ intake' = IF mergeTool = "maintenance" THEN [n \in FileNames |-> NoArchive] ELSE intake
    /\ merger' = NoPass
    /\ UNCHANGED <<mergeTool, racks, folder, aside, archives, mergeTrouble, shelved>>

MergeNext ==
    \/ StartPass
    \/ \E n \in FileNames :
          \/ ArchiveArrives(n) \/ NameArchive(n) \/ LandDeferredName(n)
          \/ MoveIn(n) \/ HoldArchive(n) \/ TakeFromShelf(n) \/ DiscardIncoming(n)
    \/ FolderAppears \/ RefusePass \/ StartMerge \/ StartLooseMerge
    \/ StartMoveWhole \/ MoveWhole \/ MoveInside \/ FallBackToMerge \/ PutInItsPlace
    \/ PassFails \/ FinishPass

MergeSpec == MergeInit /\ [][MergeNext]_mergeVars

-----------------------------------------------------------------------------
(* Properties                                                              *)

Everywhere == {intake[n] : n \in FileNames} \union {racks[n] : n \in FileNames} \union aside
GoneForGood == (Everywhere \ Everywhere') \ {NoArchive}

\* The docstring of _merge_directories: neither keep-the-larger branch can
\* replace or delete a book that is met only because a tag was stripped, as
\* the tag's archive is retried, after failures and restarts.
TagIsNoEvidence ==
    [][racks' # racks \/ intake' # intake \/ aside' # aside => \A a \in GoneForGood :
          mergeTool \in {"watcher", "resolver"} =>
              /\ merger' # NoPass
              /\ LET n == merger'.file
                     m == merger'.to
                 IN \/ intake[n].as \notin Tagged
                    \/ CollisionKey[intake[n].as] = CollisionKey[m]
                    \/ SameBytes(intake[n], racks[m])]_mergeVars

\* A book the library had is in the library, under its key or that of the name
\* it was given since, or in intake about to land: its last copy is not lost
\* between removing the smaller and landing the larger.
EveryKeyKeepsACopy == shelved \subseteq KeysIn(racks) \union KeysIn(intake)

\* With a resolver, a conflict only ever deletes one of two equal files.
ResolverDiscardsNothing ==
    [][mergeTool = "resolver" =>
          \A a \in GoneForGood : \E c \in Everywhere' : c # NoArchive /\ SameBytes(a, c)]_mergeVars

\* A merge keeps a copy of every issue, whichever tool merges, in whatever order
\* archives come.
MergeSafety == []EveryKeyKeepsACopy /\ TagIsNoEvidence /\ ResolverDiscardsNothing

=============================================================================
