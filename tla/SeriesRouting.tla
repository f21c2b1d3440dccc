--------------------------- MODULE SeriesRouting ---------------------------
(* Routing v2: the series index and the engine's precedence                  *)
(* (scripts/cbz_routing.py), the watcher's shadow router that builds the     *)
(* index once and keeps it in step with its own moves                        *)
(* (scripts/cbz_watcher_router.py), what a review handoff would do           *)
(* (scripts/cbz_shadow_handoff.py), and the migration tool that classifies   *)
(* with the same engine but moves series behind the router's back            *)
(* (scripts/cbz_library_reclassify.py).                                      *)
(*                                                                           *)
(* A series is known by its key.  Predicates over ComicInfo are abstracted   *)
(* to the set of rules an archive satisfies; one volume, one spelling of a   *)
(* path, and archives of one size, so that a tree digest is a count per      *)
(* folder and the larger of two archives is either.  A folder inside a       *)
(* series folder is there as long as an issue is in it.                      *)
EXTENDS Naturals, Sequences, FiniteSets

CONSTANTS
    Precedence,      \* series_index.destinations: destination keys, best first
    DefaultDest,     \* the configured default
    NarrowTo,        \* the destinations the migration keeps
    NarrowDefault,   \* and its default
    RoutingRules,    \* sequence of [dest, strength]
    Titles,          \* names of series folders
    SeriesKey,       \* series_key of each title
    Overrides,       \* sequence of [canonical, keys, dest]; keys: of its names and aliases
    NoPin,           \* the dest of an override that only unifies names
    Issues,          \* archives: numbers, in path order
    IssueName,       \* file name of each
    Satisfies,       \* the rules each satisfies, a set of positions
    HasInfo,         \* those with a ComicInfo
    LegacyDest,      \* where the legacy routing sends an arrival of each title
    MixedParents,    \* titles whose folder among the imports holds folders of others
    Placed,          \* where each is at first: [root, folder]
    SampleLimit,
    RouterPasses,    \* the watcher's threads
    MaxRoutingTrouble, \* failed moves, crashes and restarts in all
    MaxToolRuns      \* plans made and single moves, in all

VARIABLES
    placed,      \* issue -> [root, folder, inner]: inner, the folders inside the series'
    standing,    \* the series folders of the destinations and of the retiring root
    index,      \* SeriesIndex._entries, as the places it has under their keys
    stale,      \* keys whose folders another tool touched since the index was built
    pass,       \* one record per thread of the watcher
    unnoted,     \* folders a failed move left behind that the index was not told of
    migration,   \* the migration tool
    hitches

rvars == <<placed, standing, index, stale, pass, unnoted, migration, hitches>>

Destinations == {Precedence[i] : i \in DOMAIN Precedence}
SeriesKeys == {SeriesKey[t] : t \in Titles}

\* Overrides, rules, the defaults and the legacy routing name configured destinations;
\* the import folder, the retiring root and the quarantine are none.
ASSUME DestinationsAssumption ==
    /\ DefaultDest \in Destinations /\ NarrowDefault \in Destinations
    /\ Destinations \cap {"incoming", "retired", "quarantine", "overwritten", "discarded"} = {}
    /\ \A i \in DOMAIN Overrides :
          /\ Overrides[i].canonical \in Titles
          /\ SeriesKey[Overrides[i].canonical] \in Overrides[i].keys
          /\ Overrides[i].dest \in Destinations \cup {NoPin}
    /\ DOMAIN Overrides \subseteq Nat
    /\ \A t \in Titles : LegacyDest[t] \in Destinations
    /\ RoutingRules \in Seq([dest : Destinations, strength : {"strong", "weak"}])
ASSUME IssuesAssumption ==
    /\ Issues \subseteq Nat /\ IsFiniteSet(Issues) /\ Titles # {}
    /\ \A a \in Issues : Satisfies[a] \subseteq DOMAIN RoutingRules
    /\ Placed \in [Issues -> [root : Destinations \cup {"incoming", "retired"}, folder : Titles]]

Place(root, folder) == [root |-> root, folder |-> folder, inner |-> <<>>]
Inside(p) == {a \in Issues : placed[a].root = p.root /\ placed[a].folder = p.folder}
Series(root) == {p \in standing : p.root = root}
Keyed(place) == SeriesKey[place.folder]
FirstOf(positions) == CHOOSE i \in positions : \A j \in positions : i <= j

\* A path inside a series folder, and the file a series folder has there.
Path(issue) == [inner |-> placed[issue].inner, name |-> IssueName[issue]]
FileAt(p, path) == {a \in Inside(p) : Path(a) = path}

\* shutil.move of a file to the same path in another series folder, over what is there.
AnyTitle == CHOOSE t \in Titles : TRUE
Overwritten == Place("overwritten", AnyTitle)
Removed == Place("discarded", AnyTitle)
PutOver(issue, p) ==
    placed' = [a \in Issues |-> IF a = issue THEN [p EXCEPT !.inner = placed[a].inner]
                               ELSE IF a \in FileAt(p, Path(issue)) THEN Overwritten
                               ELSE placed[a]]

\* shutil.move of a whole folder: a rename, or into the folder that is there.
Rename(from, to) ==
    placed' = [a \in Issues |-> IF a \in Inside(from) THEN [to EXCEPT !.inner = placed[a].inner]
                               ELSE placed[a]]
Nest(from, to) ==
    /\ \A a \in Inside(to) : placed[a].inner # <<>> => Head(placed[a].inner) # from.folder
    /\ placed' = [a \in Issues |->
                    IF a \in Inside(from) THEN [to EXCEPT !.inner = <<from.folder>> \o placed[a].inner]
                    ELSE placed[a]]

-----------------------------------------------------------------------------
(* The engine. *)

\* SeriesIndex.build: every folder of every indexed destination.
Built == {p \in standing : p.root \in Destinations}

Locations(known, key) == {p \in known : Keyed(p) = key}

RankOf(dest) == CHOOSE i \in DOMAIN Precedence : Precedence[i] = dest

\* lookup: the best-ranked destination; is_ambiguous: more than one path.
BestPlaced(known, key) ==
    CHOOSE p \in Locations(known, key) :
        \A q \in Locations(known, key) : RankOf(p.root) <= RankOf(q.root)

\* require_clear: no key with more than one path.
GateIsClear(known) == \A p \in known : Locations(known, Keyed(p)) = {p}

Verdict(dest, strength, by, ambiguous, canonical) ==
    [dest |-> dest, strength |-> strength, by |-> by, ambiguous |-> ambiguous,
     canonical |-> canonical]

\* override_for: the first override with a name or an alias of the series' key.
OverridesFor(title, cfg) == {i \in cfg.overrides : SeriesKey[title] \in Overrides[i].keys}
Canonical(title, cfg) ==
    IF OverridesFor(title, cfg) = {} THEN title
    ELSE Overrides[FirstOf(OverridesFor(title, cfg))].canonical
PinOf(title, cfg) ==
    IF OverridesFor(title, cfg) = {} THEN NoPin ELSE Overrides[FirstOf(OverridesFor(title, cfg))].dest

\* resolve: a pin, then an existing folder of the canonical name, then the first rule
\* that holds, then the default.
RouteOf(title, met, known, cfg) ==
    LET name == Canonical(title, cfg)
        there == Locations(known, SeriesKey[name])
        rules == met \cap cfg.rules
    IN IF PinOf(title, cfg) # NoPin THEN Verdict(PinOf(title, cfg), "none", "pin", FALSE, name)
       ELSE IF there # {}
         THEN Verdict(BestPlaced(known, SeriesKey[name]).root, "none", "index",
                      Cardinality(there) > 1, name)
       ELSE IF rules # {}
         THEN Verdict(RoutingRules[FirstOf(rules)].dest, RoutingRules[FirstOf(rules)].strength,
                      "rule", FALSE, name)
       ELSE Verdict(cfg.default, "none", "nothing", FALSE, name)

\* sample_rank: authority first, then strength.
SampleRank(v) ==
    CASE v.by \in {"pin", "index"} -> 3
      [] v.strength = "strong" -> 2
      [] v.strength = "weak" -> 1
      [] OTHER -> 0

\* spread_sample: the limit's worth of archives, spread over the whole collection, in
\* its order.
Spread(issues) ==
    LET before(a) == Cardinality({b \in issues : b < a})
        n == Cardinality(issues)
    IN IF n <= SampleLimit THEN issues
       ELSE {a \in issues : \E i \in 0..(SampleLimit - 1) : before(a) = (i * n) \div SampleLimit}

\* Mutant of Ranked: the last sample read decides.
RankedLast(title, issues, known, cfg) ==
    LET last == CHOOSE a \in issues : \A b \in issues : b <= a
    IN RouteOf(title, IF issues = {} THEN {} ELSE Satisfies[last], known, cfg)

\* The first sample that no other outranks; a folder without archives is resolved
\* from its name alone.
Ranked(title, issues, known, cfg) ==
    LET of(a) == RouteOf(title, Satisfies[a], known, cfg)
        best == CHOOSE a \in issues : \A b \in issues :
                    \/ SampleRank(of(b)) < SampleRank(of(a))
                    \/ SampleRank(of(b)) = SampleRank(of(a)) /\ a <= b
    IN IF issues = {} THEN RouteOf(title, {}, known, cfg) ELSE of(best)

\* decide_handoff
Handoff(verdict, mixed) ==
    CASE mixed -> "mixed_parent"
      [] verdict.ambiguous -> "ambiguous_series"
      [] verdict.by = "nothing" -> "unresolved"
      [] OTHER -> "legacy_move"

EveryRule == DOMAIN RoutingRules
WatchConfig == [rules |-> EveryRule, overrides |-> DOMAIN Overrides, default |-> DefaultDest]

-----------------------------------------------------------------------------
(* The watcher: its threads share one router. *)

Resting == [at |-> "resting", title |-> AnyTitle,
            dest |-> DefaultDest, home |-> Place(DefaultDest, AnyTitle),
            verdict |-> Verdict(DefaultDest, "none", "nothing", FALSE, AnyTitle),
            handoff |-> "none", hand |-> {}]

Mixed(t) == pass[t].title \in MixedParents
Arrived(title) == Inside(Place("incoming", title))

RoutingInit ==
    /\ placed = [a \in Issues |-> Place(Placed[a].root, Placed[a].folder)]
    /\ standing = {p \in {placed[a] : a \in Issues} :
                    p.root \in Destinations \cup {"retired"}}
    /\ index = Built
    /\ stale = {}
    /\ pass = [t \in RouterPasses |-> Resting]
    /\ unnoted = {}
    /\ migration = [at |-> "idle", rows |-> {}, digest |-> {}, row |-> {}, left |-> {},
                    hand |-> {}, runs |-> 0]
    /\ hitches = 0

\* One pass at a time holds the lock of a series.
Settle(t, title) ==
    /\ pass[t].at = "resting" /\ Arrived(title) # {}
    /\ \A u \in RouterPasses :
           pass[u].at # "resting" => SeriesKey[pass[u].title] # SeriesKey[title]
    /\ pass' = [pass EXCEPT ![t] = [Resting EXCEPT !.at = "settled", !.title = title,
                                                   !.dest = LegacyDest[title]]]
    /\ UNCHANGED <<placed, standing, index, stale, unnoted, migration, hitches>>

\* _shadow_route: classify under the router's lock, and say what a handoff would do.
Shadow(t) ==
    /\ pass[t].at = "settled"
    /\ LET v == Ranked(pass[t].title, Spread(Arrived(pass[t].title)), index, WatchConfig)
       IN pass' = [pass EXCEPT ![t].at = "routed", ![t].verdict = v,
                               ![t].handoff = Handoff(v, Mixed(t))]
    /\ UNCHANGED <<placed, standing, index, stale, unnoted, migration, hitches>>

\* A classification that raises is logged; the arrival would be deferred.
ShadowFails(t) ==
    /\ pass[t].at = "settled" /\ hitches < MaxRoutingTrouble
    /\ pass' = [pass EXCEPT ![t].at = "routed", ![t].handoff = "classification_failed"]
    /\ hitches' = hitches + 1
    /\ UNCHANGED <<placed, standing, index, stale, unnoted, migration>>

\* Where the movers put a title: a folder with its key, the one of its name if a whole
\* folder moves; the legacy destination wins whatever the router said.
Homes(dest, title) ==
    IF Locations(Series(dest), SeriesKey[title]) # {} THEN Locations(Series(dest), SeriesKey[title])
    ELSE {Place(dest, title)}
WholeHomes(dest, title) ==
    IF Place(dest, title) \in standing THEN {Place(dest, title)} ELSE Homes(dest, title)

\* _move_cbz_dir: the folder is looked for, then moved or merged.
StartLanding(t) ==
    /\ pass[t].at = "routed" /\ ~Mixed(t)
    /\ \E home \in WholeHomes(pass[t].dest, pass[t].title) :
         pass' = [pass EXCEPT ![t] = [Resting EXCEPT
                    !.at = IF home \in standing THEN "merging" ELSE "moving",
                    !.title = pass[t].title, !.home = home]]
    /\ UNCHANGED <<placed, standing, index, stale, unnoted, migration, hitches>>

\* _move_loose_files makes the folder before the first file moves.
StartLoose(t) ==
    /\ pass[t].at = "routed" /\ Mixed(t)
    /\ \E home \in Homes(pass[t].dest, pass[t].title) :
         /\ pass' = [pass EXCEPT ![t] = [Resting EXCEPT !.at = "merging", !.title = pass[t].title,
                                                !.home = home]]
         /\ standing' = standing \cup {home}
    /\ UNCHANGED <<placed, index, stale, unnoted, migration, hitches>>

\* shutil.move of the whole folder; into the one that appeared since it was looked for.
LandWhole(t) ==
    /\ pass[t].at = "moving"
    /\ LET from == Place("incoming", pass[t].title)
       IN IF pass[t].home \in standing THEN Nest(from, pass[t].home)
          ELSE Rename(from, pass[t].home)
    /\ standing' = standing \cup {pass[t].home}
    /\ pass' = [pass EXCEPT ![t].at = "landed"]
    /\ UNCHANGED <<index, stale, unnoted, migration, hitches>>

\* The move fails because the folder appeared: fall back to the merge.
LandByMerging(t) ==
    /\ pass[t].at = "moving" /\ pass[t].home \in standing
    /\ pass' = [pass EXCEPT ![t].at = "merging"]
    /\ UNCHANGED <<placed, standing, index, stale, unnoted, migration, hitches>>

Hand(path, to) == [path |-> path, to |-> to, saw |-> FileAt(to, path)]

\* dest_item.exists
LookForHome(t, issue) ==
    /\ pass[t].at = "merging" /\ pass[t].hand = {} /\ issue \in Arrived(pass[t].title)
    /\ pass' = [pass EXCEPT ![t].hand = {Hand(Path(issue), pass[t].home)}]
    /\ UNCHANGED <<placed, standing, index, stale, unnoted, migration, hitches>>

\* Nothing was there.  A merge makes a home that is gone again; loose files do not.
LandIssue(t) ==
    /\ Mixed(t) => pass[t].home \in standing
    /\ \E h \in pass[t].hand : h.saw = {} /\ \E a \in Arrived(pass[t].title) :
         Path(a) = h.path /\ PutOver(a, h.to)
    /\ standing' = standing \cup {pass[t].home}
    /\ pass' = [pass EXCEPT ![t].hand = {}]
    /\ UNCHANGED <<index, stale, unnoted, migration, hitches>>

\* Something was there: the larger is kept, the other discarded, or quarantined by the
\* resolver (settle_file_conflict).
KeepLarger(t) ==
    /\ \E h \in pass[t].hand : h.saw # {} /\ \E a \in Arrived(pass[t].title) :
         /\ Path(a) = h.path /\ FileAt(h.to, h.path) # {}
         /\ \E losers \in {{a}, FileAt(h.to, h.path)} :
              placed' = [b \in Issues |->
                            IF b \in losers THEN Removed
                            ELSE IF b = a THEN h.to ELSE placed[b]]
    /\ pass' = [pass EXCEPT ![t].hand = {}]
    /\ UNCHANGED <<standing, index, stale, unnoted, migration, hitches>>

MergeLanded(t) ==
    /\ pass[t].at = "merging" /\ pass[t].hand = {} /\ Arrived(pass[t].title) = {}
    /\ pass' = [pass EXCEPT ![t].at = "landed"]
    /\ UNCHANGED <<placed, standing, index, stale, unnoted, migration, hitches>>

\* The file the pass is about to replace, or the home of loose files, is gone.
Bereft(t) ==
    \E h \in pass[t].hand : IF h.saw = {} THEN Mixed(t) /\ pass[t].home \notin standing
                            ELSE FileAt(h.to, h.path) = {}

\* A move fails: what it did stays, and nothing is recorded.
MoveFails(t) ==
    /\ pass[t].at \in {"routed", "moving", "merging"}
    /\ \/ hitches < MaxRoutingTrouble /\ hitches' = hitches + 1
       \/ Bereft(t) /\ UNCHANGED hitches
    /\ unnoted' = IF pass[t].at = "merging" THEN unnoted \cup ({pass[t].home} \ index)
                  ELSE unnoted
    /\ pass' = [pass EXCEPT ![t] = Resting]
    /\ UNCHANGED <<placed, standing, index, stale, migration>>

\* Mutant of NoteMove: records the folder the title would have had.
NoteMoveGuessed(t) ==
    /\ pass[t].at = "landed"
    /\ index' = index \cup {Place(pass[t].home.root, pass[t].title)}
    /\ unnoted' = unnoted \ {pass[t].home}
    /\ pass' = [pass EXCEPT ![t] = Resting]
    /\ UNCHANGED <<placed, standing, stale, migration, hitches>>

\* note_move: the folder the files landed in, under the router's lock.
NoteMove(t) ==
    /\ pass[t].at = "landed"
    /\ index' = index \cup {pass[t].home}
    /\ unnoted' = unnoted \ {pass[t].home}
    /\ pass' = [pass EXCEPT ![t] = Resting]
    /\ UNCHANGED <<placed, standing, stale, migration, hitches>>

\* The watcher dies or is restarted: the index is built again from the disk.
RestartRouter ==
    /\ hitches < MaxRoutingTrouble
    /\ index' = Built
    /\ stale' = {} /\ unnoted' = {}
    /\ pass' = [t \in RouterPasses |-> Resting]
    /\ hitches' = hitches + 1
    /\ UNCHANGED <<placed, standing, migration>>

-----------------------------------------------------------------------------
(* The migration tool takes no lock of the watcher's. *)

\* tree_digest
TreeDigest == {<<p.folder, Cardinality(Inside(p))>> : p \in Series("retired")}

\* build_origin_config: rules and pins of the other destinations are dropped.
MigrationConfig ==
    [rules |-> {i \in EveryRule : RoutingRules[i].dest \in NarrowTo},
     overrides |-> {i \in DOMAIN Overrides : Overrides[i].dest \in NarrowTo \cup {NoPin}},
     default |-> NarrowDefault]

\* plan_series: the ranking of the watcher, without an index; the target is an existing
\* folder with the canonical name's key, whatever its spelling.  A row wants review if
\* weak evidence decided, or none did, nobody pinned it and no sample has ComicInfo.
PlanRow(p) ==
    LET sampled == Spread(Inside(p))
        v == Ranked(p.folder, sampled, {}, MigrationConfig)
        there == Locations(Series(v.dest), SeriesKey[v.canonical])
    IN [from |-> p,
        to |-> IF there # {} THEN CHOOSE q \in there : TRUE ELSE Place(v.dest, v.canonical),
        review |-> \/ v.strength = "weak"
                   \/ v.by = "nothing" /\ sampled \cap HasInfo = {}]

\* cmd_plan: a row for every folder that holds an archive.
PlanMigration ==
    /\ migration.at = "idle" /\ migration.runs < MaxToolRuns
    /\ \E p \in Series("retired") : Inside(p) # {}
    /\ migration' = [migration EXCEPT
            !.at = "planned", !.digest = TreeDigest, !.runs = @ + 1,
            !.rows = {PlanRow(p) : p \in {q \in Series("retired") : Inside(q) # {}}}]
    /\ UNCHANGED <<placed, standing, index, stale, pass, unnoted, hitches>>

\* cmd_apply: the retiring tree is as planned; flagged rows may be held back.
ApplyMigration ==
    /\ migration.at = "planned" /\ migration.digest = TreeDigest
    /\ \E held \in {{}, {r \in migration.rows : r.review}} :
         migration' = [migration EXCEPT !.at = "applying", !.rows = @ \ held]
    /\ UNCHANGED <<placed, standing, index, stale, pass, unnoted, hitches>>

NothingPlanned == [at |-> "idle", rows |-> {}, digest |-> {}, row |-> {}, left |-> {},
                   hand |-> {}, runs |-> migration.runs]

\* The tree has changed: the plan is refused.
RefuseMigration ==
    /\ migration.at = "planned" /\ migration.digest # TreeDigest
    /\ migration' = NothingPlanned
    /\ UNCHANGED <<placed, standing, index, stale, pass, unnoted, hitches>>

\* cmd_move: one series between two destinations, found by its key.
MoveSeries(from, to, key) ==
    /\ migration.at = "idle" /\ migration.runs < MaxToolRuns /\ from # to
    /\ \E p \in Locations(Series(from), key) :
         LET there == Locations(Series(to), key)
             row == [from |-> p, review |-> FALSE,
                     to |-> IF there # {} THEN CHOOSE q \in there : TRUE ELSE Place(to, p.folder)]
         IN migration' = [migration EXCEPT !.at = "applying", !.runs = @ + 1, !.rows = {row}]
    /\ UNCHANGED <<placed, standing, index, stale, pass, unnoted, hitches>>

\* apply_series looks for the target: no folder there, and the whole one is to move,
\* else every file in it.
TakeRow(row) ==
    /\ migration.at = "applying" /\ row \in migration.rows /\ row.from \in standing
    /\ migration' = [migration EXCEPT
            !.at = IF row.to \in standing THEN "merging" ELSE "moving",
            !.rows = @ \ {row}, !.row = {row},
            !.left = IF row.to \in standing THEN {Path(a) : a \in Inside(row.from)} ELSE {}]
    /\ UNCHANGED <<placed, standing, index, stale, pass, unnoted, hitches>>

\* The source folder is gone: an error is counted.
SkipRow(row) ==
    /\ migration.at = "applying" /\ row \in migration.rows /\ row.from \notin standing
    /\ migration' = [migration EXCEPT !.rows = @ \ {row}]
    /\ UNCHANGED <<placed, standing, index, stale, pass, unnoted, hitches>>

\* The whole folder is renamed; into the target, if one appeared since it was looked for.
MoveFolder(row) ==
    /\ migration.at = "moving" /\ row.from \in standing
    /\ IF row.to \in standing THEN Nest(row.from, row.to) ELSE Rename(row.from, row.to)
    /\ standing' = (standing \ {row.from}) \cup {row.to}
    /\ stale' = stale \cup {Keyed(row.from), Keyed(row.to)}
    /\ migration' = [migration EXCEPT !.at = "applying", !.row = {}]
    /\ UNCHANGED <<index, pass, unnoted, hitches>>

\* target.exists
LookForTarget(row, path) ==
    /\ migration.at = "merging" /\ migration.hand = {} /\ path \in migration.left
    /\ migration' = [migration EXCEPT !.left = @ \ {path}, !.hand = {Hand(path, row.to)}]
    /\ UNCHANGED <<placed, standing, index, stale, pass, unnoted, hitches>>

\* Mutant of MergeIssue: a collision is not heeded.
MergeIssueOver(row) ==
    /\ \E h \in migration.hand : \E a \in FileAt(row.from, h.path) : PutOver(a, h.to)
    /\ migration' = [migration EXCEPT !.hand = {}]
    /\ UNCHANGED <<standing, index, stale, pass, unnoted, hitches>>

\* A colliding file goes to the quarantine's folder of its series.  shutil.move replaces
\* a file an earlier collision left there, and one that came to the target meanwhile.
MergeIssue(row) ==
    /\ \E h \in migration.hand : \E a \in FileAt(row.from, h.path) :
         PutOver(a, IF h.saw = {} THEN h.to ELSE Place("quarantine", row.from.folder))
    /\ migration' = [migration EXCEPT !.hand = {}]
    /\ UNCHANGED <<standing, index, stale, pass, unnoted, hitches>>

\* The emptied source folder stays.
MergedRow ==
    /\ migration.at = "merging" /\ migration.left = {} /\ migration.hand = {}
    /\ migration' = [migration EXCEPT !.at = "applying", !.row = {}]
    /\ UNCHANGED <<placed, standing, index, stale, pass, unnoted, hitches>>

MigrationEnds ==
    /\ migration.at = "applying" /\ migration.rows = {}
    /\ migration' = NothingPlanned
    /\ UNCHANGED <<placed, standing, index, stale, pass, unnoted, hitches>>

\* A crash, or an error that nobody catches: what was to move is gone.
ToolDies ==
    /\ migration.at # "idle"
    /\ \/ hitches < MaxRoutingTrouble /\ hitches' = hitches + 1
       \/ UNCHANGED hitches /\ \E row \in migration.row : row.from \notin standing
    /\ migration' = NothingPlanned
    /\ UNCHANGED <<placed, standing, index, stale, pass, unnoted>>

\* The retiring library is the operator's, who takes a folder away by hand.
TakeAway(p) ==
    /\ hitches < MaxRoutingTrouble /\ p \in Series("retired") /\ migration.at # "idle"
    /\ standing' = standing \ {p}
    /\ placed' = [a \in Issues |-> IF a \in Inside(p) THEN Removed ELSE placed[a]]
    /\ hitches' = hitches + 1
    /\ UNCHANGED <<index, stale, pass, unnoted, migration>>

-----------------------------------------------------------------------------
RoutingNext ==
    \/ \E t \in RouterPasses :
         \/ \E title \in Titles : Settle(t, title)
         \/ Shadow(t) \/ ShadowFails(t)
         \/ StartLanding(t) \/ StartLoose(t) \/ LandWhole(t) \/ LandByMerging(t)
         \/ \E a \in Issues : LookForHome(t, a)
         \/ LandIssue(t) \/ KeepLarger(t) \/ MergeLanded(t)
         \/ MoveFails(t) \/ NoteMove(t)
    \/ RestartRouter
    \/ PlanMigration \/ ApplyMigration \/ RefuseMigration
    \/ \E from, to \in Destinations, k \in SeriesKeys : MoveSeries(from, to, k)
    \/ \E row \in migration.rows : TakeRow(row) \/ SkipRow(row)
    \/ \E row \in migration.row :
         \/ MoveFolder(row) \/ MergeIssue(row)
         \/ \E path \in migration.left : LookForTarget(row, path)
    \/ MergedRow \/ MigrationEnds \/ ToolDies
    \/ \E p \in standing : TakeAway(p)

RoutingSpec == RoutingInit /\ [][RoutingNext]_rvars

-----------------------------------------------------------------------------
\* The index is built once and told of every move; "an index entry for a series that is
\* not on disk would hand out authority for a directory that does not exist"
\* (cbz_watcher.py:1866).  Whatever passes, failed moves and restarts came before, the
\* index has the very folders a series has on disk, but for those a failed move of loose
\* files left behind; without any such, the zero-ambiguity gate opens on the truth.  Asked
\* of series no other tool has moved since the index was built, and not of one that is
\* landing or about to be noted.
RouterSeesTheDisk ==
    LET landing == {t \in RouterPasses : pass[t].at \in {"merging", "landed"}}
        settled == {k \in SeriesKeys \ stale : \A t \in landing : SeriesKey[pass[t].title] # k}
    IN /\ \A k \in settled : Locations(Built, k) = Locations(index, k) \cup Locations(unnoted, k)
       /\ settled = SeriesKeys /\ unnoted = {} /\ GateIsClear(index)
            => \A p, q \in Built : Keyed(p) = Keyed(q) => p = q

\* "a series counts as Asian-origin when any sampled archive says so"
\* (cbz_library_reclassify.py:21): where neither a pin nor a folder decides, the rule
\* that decides is as strong as the strongest any sampled archive satisfies.
AnyEvidenceDecides ==
    [][pass' # pass => \A t \in RouterPasses :
         LET v == pass'[t].verdict
             seen == Spread(Arrived(pass[t].title))
             strength(a) == RoutingRules[FirstOf(Satisfies[a])].strength
         IN (pass[t].at = "settled" /\ pass'[t].at = "routed" /\ pass'[t].handoff # "classification_failed"
              /\ v.by \in {"rule", "nothing"})
             => \A a \in seen : Satisfies[a] # {} =>
                    v.by = "rule" /\ (strength(a) = "strong" => v.strength = "strong")]_rvars

\* "Never overwrites and never deletes: a colliding file goes to quarantine"
\* (cbz_library_reclassify.py:17), as far as the code goes: while the watcher, the
\* migration and single moves interleave and die half-way, what is written over was in
\* the quarantine, or came to its path after a mover had looked there and seen nothing.
LibraryKeepsItsIssues ==
    [][placed' # placed =>
          \A a \in Issues : placed'[a] = Overwritten /\ placed[a] # Overwritten =>
              \/ placed[a].root = "quarantine"
              \/ \E h \in migration.hand \cup UNION {pass[t].hand : t \in RouterPasses} :
                    a \in FileAt(h.to, h.path) /\ a \notin h.saw]_rvars

\* The router places series by what is on disk and by any evidence there is, and no
\* mover writes over an issue it has seen in the library.
RoutingSafety == []RouterSeesTheDisk /\ AnyEvidenceDecides /\ LibraryKeepsItsIssues

=============================================================================
