--------------------------- MODULE MaintenancePlan ---------------------------
(***************************************************************************)
(* Library maintenance, `all`: file names are stripped of doubled tokens,  *)
(* duplicates deleted, series folders merged, and duplicates deleted       *)
(* again.  A dry run records the file operations instead, and apply-plan   *)
(* replays them later.                                                     *)
(*                                                                         *)
(* A folder holds at most one archive under each name, a natural number    *)
(* (names sort).  An archive is its pages and its size.                    *)
(***************************************************************************)
EXTENDS Naturals, Sequences, FiniteSets, Functions

CONSTANTS
    SeriesFolders,  \* folders of one library root
    ArchiveNames,   \* names of archives, naturals
    CleanToken,     \* name -> the name without doubled tokens
    NameKey,        \* name -> normalise_archive_key
    FileContents,       \* what archives hold
    IssueKey,       \* content -> the ComicInfo key, or NoIssue
    FileSizes,
    MaxHeld,        \* bound on archives in the library at first
    MaxSessions     \* bound on runs of `all` and of apply-plan

ASSUME MaintenanceAssumption ==
    /\ ArchiveNames \subseteq Nat /\ IsFiniteSet(ArchiveNames)
    /\ CleanToken \in [ArchiveNames -> ArchiveNames]
    /\ FileSizes \subseteq Nat \ {0}

NoBook == [size |-> 0]
NoIssue == "no issue"
NoSession == [pass |-> "idle"]

VARIABLES
    shelves,           \* folder -> name -> the archive there
    session,        \* the running command: [mode, pass, left, pair, ...]
    queue,          \* file operations decided on and not yet performed
    savedPlan,      \* the plan file
    exclusionLog,   \* the exclusion log: pairs of folders
    sessions        \* number of commands so far

upkeepVars == <<shelves, session, queue, savedPlan, exclusionLog, sessions>>

BookAt(place) == shelves[place[1]][place[2]]
Archives(f) == {n \in ArchiveNames : shelves[f][n] # NoBook}

MaintenanceInit ==
    /\ shelves \in [SeriesFolders -> [ArchiveNames ->
                    {NoBook} \union [pages : FileContents, size : FileSizes]]]
    /\ Cardinality({p \in SeriesFolders \X ArchiveNames : BookAt(p) # NoBook}) <= MaxHeld
    /\ session = NoSession
    /\ queue = <<>> /\ savedPlan = <<>>
    /\ exclusionLog = {} /\ sessions = 0

-----------------------------------------------------------------------------
(* File operations                                                         *)

FileOp(f, n, g, m) == [op |-> "file", src |-> <<f, n>>, dest |-> <<g, m>>]
DeleteOp(f, n) == [op |-> "delete", src |-> <<f, n>>]
TreeOp(f) == [op |-> "rmtree", folder |-> f]

\* larger_file_wins: the larger file is at dest, the other is gone.
LargerWins(src, dest) ==
    LET winner == IF BookAt(dest) = NoBook \/ BookAt(src).size > BookAt(dest).size
                  THEN BookAt(src) ELSE BookAt(dest)
    IN [f \in SeriesFolders |-> [n \in ArchiveNames |->
           CASE <<f, n>> = dest -> winner
             [] <<f, n>> = src -> NoBook
             [] OTHER -> shelves[f][n]]]

\* A live run performs what it decides; a dry run records it.
PlanOrDo(ops) ==
    IF session.mode = "live" THEN queue' = ops /\ UNCHANGED savedPlan
    ELSE savedPlan' = savedPlan \o ops /\ UNCHANGED queue

\* execute_plan, and the live branch of each pass: what is gone is skipped.
PerformOp ==
    /\ queue # <<>>
    /\ queue' = Tail(queue)
    /\ LET op == Head(queue)
       IN shelves' =
          CASE op.op = "rmtree" ->
                   [shelves EXCEPT ![op.folder] = [n \in ArchiveNames |-> NoBook]]
            [] op.op = "delete" ->
                   [shelves EXCEPT ![op.src[1]][op.src[2]] = NoBook]
            [] OTHER -> IF BookAt(op.src) = NoBook THEN shelves ELSE LargerWins(op.src, op.dest)
    /\ UNCHANGED <<session, savedPlan, exclusionLog, sessions>>

-----------------------------------------------------------------------------
(* The passes                                                              *)

Unclean == {p \in SeriesFolders \X ArchiveNames :
                BookAt(p) # NoBook /\ CleanToken[p[2]] # p[2]}

\* run_all: the exclusions are loaded when the series are organised.
StartAll(mode) ==
    /\ session = NoSession /\ sessions < MaxSessions
    /\ sessions' = sessions + 1
    /\ session' = [mode |-> mode, pass |-> "strip", left |-> Unclean, pair |-> <<>>, consumed |-> {},
                   reviewed |-> FALSE,
                   known |-> exclusionLog, local |-> exclusionLog]
    /\ savedPlan' = IF mode = "dry" THEN <<>> ELSE savedPlan
    /\ UNCHANGED <<shelves, queue, exclusionLog>>

\* run_apply_series: groups proposed earlier, each with a verdict.
StartDecisions(mode) ==
    /\ session = NoSession /\ sessions < MaxSessions
    /\ sessions' = sessions + 1
    /\ session' = [mode |-> mode, pass |-> "merge", left |-> {}, pair |-> <<>>, consumed |-> {},
                   reviewed |-> TRUE, known |-> exclusionLog, local |-> exclusionLog]
    /\ savedPlan' = IF mode = "dry" THEN <<>> ELSE savedPlan
    /\ UNCHANGED <<shelves, queue, exclusionLog>>

Working(pass) == session.pass = pass /\ queue = <<>>

\* rename_duplicate_tokens_in_dir
StripName(f, n) ==
    /\ Working("strip") /\ <<f, n>> \in session.left
    /\ \A m \in ArchiveNames : <<f, m>> \in session.left => n <= m
    /\ PlanOrDo(<<FileOp(f, n, f, CleanToken[n])>>)
    /\ session' = [session EXCEPT !.left = @ \ {<<f, n>>}]
    /\ UNCHANGED <<shelves, exclusionLog, sessions>>

EndStrip ==
    /\ Working("strip") /\ session.left = {}
    /\ session' = [session EXCEPT !.pass = "dedupe", !.left = SeriesFolders]
    /\ UNCHANGED <<shelves, queue, savedPlan, exclusionLog, sessions>>

\* Mutant of SameContent: the names or the metadata decide.
SameContentUnproved(a, b) == TRUE

\* _split_group_by_content
SameContent(a, b) == a.pages = b.pages

\* _resolve_dup_group keeps the largest of a group, then the first by name.
KeepsFirst(f, n, m) ==
    shelves[f][n].size > shelves[f][m].size \/ (shelves[f][n].size = shelves[f][m].size /\ n < m)

\* Names propose a group, then the metadata among what is left.
ByName(f, n, m) ==
    NameKey[n] = NameKey[m] /\ SameContent(shelves[f][n], shelves[f][m]) /\ KeepsFirst(f, n, m)
LosersByName(f) == {m \in Archives(f) : \E n \in Archives(f) : ByName(f, n, m)}
ByMetadata(f, n, m) ==
    /\ IssueKey[shelves[f][n].pages] = IssueKey[shelves[f][m].pages]
    /\ IssueKey[shelves[f][n].pages] # NoIssue
    /\ SameContent(shelves[f][n], shelves[f][m]) /\ KeepsFirst(f, n, m)
Losers(f) ==
    LET survivors == Archives(f) \ LosersByName(f)
    IN LosersByName(f) \union
       {m \in survivors : \E n \in survivors : ByMetadata(f, n, m)}

\* Group by group, in an order of which nothing is promised.
Deletions(f) ==
    {[i \in DOMAIN losers |-> DeleteOp(f, losers[i])] :
        losers \in Bijection(1..Cardinality(Losers(f)), Losers(f))}

\* dedupe_archives_in_dir
DedupeFolder(f) ==
    /\ \E pass \in {"dedupe", "merge", "sweep"} : Working(pass)
    /\ f \in session.left
    /\ \E ops \in Deletions(f) : PlanOrDo(ops)
    /\ session' = [session EXCEPT !.left = @ \ {f}]
    /\ UNCHANGED <<shelves, exclusionLog, sessions>>

EndDedupe ==
    /\ Working("dedupe") /\ session.left = {}
    /\ session' = [session EXCEPT !.pass = "merge"]
    /\ UNCHANGED <<shelves, queue, savedPlan, exclusionLog, sessions>>

\* find_series_matches: two folders that are not excluded; or the members of
\* a group the operator said "yes" to.
MatchFolders(src, dest) ==
    /\ Working("merge") /\ session.left = {} /\ session.pair = <<>>
    /\ src # dest /\ (session.reviewed \/ {src, dest} \notin session.local)
    /\ {src, dest} \cap session.consumed = {} /\ Archives(src) # {}
    /\ session' = [session EXCEPT !.pass = "merging", !.left = Archives(src),
                                  !.pair = <<src, dest>>]
    /\ UNCHANGED <<shelves, queue, savedPlan, exclusionLog, sessions>>

\* _find_archive_collision: the name itself, else a name with its key.
Targets(n, dest) ==
    IF shelves[dest][n] # NoBook THEN {n}
    ELSE LET same == {m \in Archives(dest) : NameKey[m] = NameKey[n]}
         IN IF same = {} THEN {n} ELSE same

\* merge_dir_contents, archive by archive
MergeArchive(n) ==
    /\ Working("merging") /\ n \in session.left /\ \A m \in session.left : n <= m
    /\ LET src == session.pair[1]
           dest == session.pair[2]
       IN \E m \in Targets(n, dest) : PlanOrDo(<<FileOp(src, n, dest, m)>>)
    /\ session' = [session EXCEPT !.left = @ \ {n}]
    /\ UNCHANGED <<shelves, exclusionLog, sessions>>

\* The source folder goes; the destination is deduplicated next.
EndMerge ==
    /\ Working("merging") /\ session.left = {}
    /\ PlanOrDo(<<TreeOp(session.pair[1])>>)
    /\ session' = [session EXCEPT !.pass = "merge", !.left = {session.pair[2]},
                                  !.pair = <<>>, !.consumed = @ \union {session.pair[1]}]
    /\ UNCHANGED <<shelves, exclusionLog, sessions>>

\* "e[x]clude permanently", or the verdict "no".  Matching takes an empty set
\* of exclusions for none: the answer goes to a set of its own, and the log.
ExcludePair(f, g) ==
    /\ Working("merge") /\ session.left = {} /\ session.pair = <<>>
    /\ f # g /\ {f, g} \notin session.local
    /\ LET local == session.local \union {{f, g}}
       IN /\ session' = [session EXCEPT !.local = local,
                                        !.known = IF @ = {} /\ ~session.reviewed THEN @ ELSE local]
          /\ exclusionLog' = IF session.mode = "live" THEN local ELSE exclusionLog
    /\ UNCHANGED <<shelves, queue, savedPlan, sessions>>

\* The next parent directory; its pass starts from the exclusions known.
NextParent ==
    /\ Working("merge") /\ session.left = {}
    /\ session' = [session EXCEPT !.local = session.known]
    /\ session' # session
    /\ UNCHANGED <<shelves, queue, savedPlan, exclusionLog, sessions>>

EndMatching ==
    /\ Working("merge") /\ session.left = {}
    /\ session' = [session EXCEPT !.pass = "sweep",
                       !.left = IF session.reviewed THEN {} ELSE SeriesFolders]
    /\ UNCHANGED <<shelves, queue, savedPlan, exclusionLog, sessions>>

EndSession ==
    /\ (Working("sweep") /\ session.left = {}) \/ Working("replay")
    /\ session' = NoSession
    /\ UNCHANGED <<shelves, queue, savedPlan, exclusionLog, sessions>>

\* run_apply_plan
StartReplay ==
    /\ session = NoSession /\ savedPlan # <<>> /\ sessions < MaxSessions
    /\ sessions' = sessions + 1
    /\ session' = [mode |-> "replay", pass |-> "replay"]
    /\ queue' = savedPlan
    /\ UNCHANGED <<shelves, savedPlan, exclusionLog>>

MaintenanceNext ==
    \/ \E mode \in {"live", "dry"} : StartAll(mode) \/ StartDecisions(mode)
    \/ PerformOp
    \/ \E f \in SeriesFolders :
          \/ \E n \in ArchiveNames : StripName(f, n)
          \/ DedupeFolder(f)
          \/ \E g \in SeriesFolders : MatchFolders(f, g) \/ ExcludePair(f, g)
    \/ EndStrip \/ EndDedupe
    \/ \E n \in ArchiveNames : MergeArchive(n)
    \/ EndMerge \/ NextParent \/ EndMatching \/ EndSession
    \/ StartReplay

MaintenanceSpec == MaintenanceInit /\ [][MaintenanceNext]_upkeepVars

-----------------------------------------------------------------------------
(* Properties                                                              *)

PagesIn(t) == {t[p[1]][p[2]].pages : p \in {q \in SeriesFolders \X ArchiveNames :
                                             t[q[1]][q[2]] # NoBook}}
Deletes == queue # <<>> /\ Head(queue).op = "delete" /\ queue' = Tail(queue)

\* _split_group_by_content: a live run deletes as a duplicate only what it
\* keeps the pages of.  A name or the metadata proposes, the content decides:
\* on metadata alone a run had deleted 1,922 archives, 68 of them duplicates.
LiveDeletesDuplicates ==
    [][Deletes /\ session.mode = "live" => PagesIn(shelves') = PagesIn(shelves)]_upkeepVars

\* execute_plan: "Every op re-validates current state so a plan stays safe":
\* replayed, too, a duplicate is deleted only while its pages are kept.  They
\* are not: the dry run plans every pass on the files as they are, and the move
\* of one pass puts the last copy under the name another wants deleted.
ReplayDeletesDuplicates ==
    [][Deletes /\ session.mode = "replay" => PagesIn(shelves') = PagesIn(shelves)]_upkeepVars

=============================================================================
