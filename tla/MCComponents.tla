---------------------------- MODULE MCComponents ----------------------------
\* The instances of the components that share no state with each other, as one
\* model: a behaviour picks a component and runs it, while the rest keep the
\* state they start in. Components is the set to pick from, so one of them or
\* a few can be checked alone.
EXTENDS LibraryScan, ArchiveStages, Removals, Dispositions, Census, Supersession,
        Retention, Recertify, Migrations, Backups, ReviewCases, ArchiveRewrite,
        ArchiveMerge, PlanArtifacts, MaintenancePlan, AiOriginals, CanonicalPlan,
        FieldResolution, SeriesRouting, CameliaBatch, CameliaHandoff,
        WatcherInstance, BackfillPlan, TLC

CONSTANT Components

\* LibraryScan: the walk and the digest of the paths order three files differently.
MCWalkOrder == ("b" :> 1) @@ ("ax" :> 2) @@ ("ay" :> 3)
MCKeyOrder == ("b" :> 3) @@ ("ax" :> 1) @@ ("ay" :> 2)

\* ArchiveStages: the pages of "v3" have other names.
MCPageNames == [b \in Bytes |-> IF b = "v3" THEN "renamed" ELSE "numbered"]

\* Removals: two archives share the name "n", and "n" is taken in quarantine.
MCNameAt == ("l1" :> "n") @@ ("x1" :> "n") @@ ("x2" :> "m")
MCStored == ("l1" :> "v1") @@ ("x1" :> "v1") @@ ("x2" :> "v1")
MCOccupied == {<<"n", 1>>}

\* Supersession: members that lack a page, repeat or reorder one, or differ in
\* what they carry besides the pages.
MCContent(pages, comicinfo, extras) ==
    [pages |-> pages, comicinfo |-> comicinfo, extras |-> extras]
MCContents ==
    {MCContent(<<1>>, "r" :> "x", {}), MCContent(<<1, 2>>, "r" :> "z", {}),
     MCContent(<<1, 2>>, <<>>, {"e"}),
     MCContent(<<2>>, ("r" :> "x") @@ ("s" :> "z"), {}),
     MCContent(<<1, 1, 2>>, "r" :> "y", {"e"}), MCContent(<<1, 2, 2>>, "r" :> "y", {})}
MCFilled == ("x" :> {"s"}) @@ ("y" :> {"s", "t"}) @@ ("z" :> {"s", "u"})

\* Recertify: "s" is in page order, "t" has two pages of one key, "u" was
\* signed in another order than its names.
MCLegacy ==
    ("s" :> [names |-> <<1, 2>>, order |-> <<1, 2>>])
        @@ ("t" :> [names |-> <<4, 3>>, order |-> <<4, 3>>])
        @@ ("u" :> [names |-> <<1, 2>>, order |-> <<2, 1>>])
MCKeyOf == (1 :> 1) @@ (2 :> 2) @@ (3 :> 3) @@ (4 :> 3)

\* ArchiveRewrite
MCAttempts == ("watcher" :> 2) @@ ("sanitizer" :> 2) @@ ("maintenance" :> 1)

\* ArchiveMerge: "x" and "X4" collide; "X4", "xs" and "ph" strip to the name "x",
\* which is the series' own and becomes "x1".
MCCollisionKey ==
    ("x" :> "kx") @@ ("X4" :> "kx") @@ ("xs" :> "kxs") @@ ("ph" :> "kph") @@ ("x1" :> "kx1")
MCDisplay == ("x" :> "x") @@ ("X4" :> "x") @@ ("xs" :> "x") @@ ("ph" :> "x") @@ ("x1" :> "x1")
MCChapterOne == "x" :> "x1"

\* MaintenancePlan: the clean name of 1 is the name 2.
MCCleanToken == 1 :> 2 @@ 2 :> 2 @@ 3 :> 3
MCNameKey == 1 :> "k" @@ 2 :> "k" @@ 3 :> "l"
MCIssueKey == "u" :> "i" @@ "v" :> "i"

\* AiOriginals: both works have the backup name "n".
MCBackupName == [w \in Works |-> "n"]

\* CanonicalPlan: "a" and "A" differ in letter case only; two rows of one
\* archive, and a row whose spelling is not the file's.
MCNameFold == [n \in BookNames |-> IF n = "b" THEN "b" ELSE "a"]
MCFirstBooks == {<<"F", "a">>, <<"F", "b">>}
MCRow(i, archive, name) == [id |-> i, archive |-> archive, path |-> <<"F", name>>]
MCCatalogues ==
    {{MCRow(1, "r1", "a"), MCRow(2, "r2", "b")},
     {MCRow(1, "r1", "a"), MCRow(2, "r1", "b")},
     {MCRow(1, "r1", "A"), MCRow(2, "r2", "b")}}
MCPlanModes == {<<FALSE, {}>>, <<TRUE, {}>>, <<TRUE, {"F"}>>}

\* FieldResolution: three archives of the folder "S" with the same number;
\* "x" and "y" have the same page, and facts of each source may contradict.
MCWithMarker == [t \in {"S", "SM"} |-> IF t = "S" THEN "SM" ELSE "SMM"]
MCNamed ==
    (Archived \X {"name"} \X {"series"} \X {"S"})
        \union (Archived \X {"xml"} \X {"number"} \X {"1"})
        \union {<<"x", "page", "digest", "p">>, <<"y", "page", "digest", "p">>,
                <<"z", "page", "digest", "q">>, <<"x", "name", "v", "1">>,
                <<"x", "name", "chapter", "1">>}
MCVolumesRun ==
    MCNamed \union {<<"y", "name", "v", "1">>, <<"y", "name", "chapter", "2">>,
                    <<"z", "name", "v", "2">>}
MCFirstFacts == {{}, MCNamed, MCVolumesRun}
MCPossibleFacts ==
    (Archived \X {"human"} \X {"family"} \X {"f", "g"})
        \union ({"x"} \X {"human"} \X {"number", "volume", "version"} \X {"1", "2"})
        \union ({"x", "y"} \X {"name"} \X {"[v]"} \X {"2"})
        \union ({"x", "z"} \X {"xml"} \X {"volume"} \X {"1"})
        \union {<<"x", "human", "series", "T">>, <<"z", "name", "Vol", "2">>,
                <<"x", "name", "marker", "m">>, <<"x", "xml", "template", "yes">>,
                <<"y", "xml", "series", "SM">>, <<"z", "name", "issue", "3">>,
                <<"x", "page", "unordered", "yes">>}

\* SeriesRouting: "A" and "A_" are one series, and "C" is pinned to a destination the
\* migration drops; with the pin gone, an alias makes it "A".
MCPrecedence == <<"comix", "manga", "gn">>
MCRoutingRules ==
    <<[dest |-> "comix", strength |-> "strong"], [dest |-> "manga", strength |-> "strong"],
      [dest |-> "manga", strength |-> "weak"]>>
MCSeriesKey == [t \in Titles |-> IF t = "B" THEN "b" ELSE IF t = "C" THEN "c" ELSE "a"]
MCOverrides ==
    <<[canonical |-> "C", keys |-> {"c"}, dest |-> "comix"],
      [canonical |-> "A", keys |-> {"a", "c"}, dest |-> "none"]>>
MCLegacyDest == [t \in Titles |-> IF t = "B" THEN "gn" ELSE "manga"]
MCPut(root, title) == [root |-> root, folder |-> title]
MCPlaced ==
    <<MCPut("incoming", "A"), MCPut("incoming", "A"), MCPut("incoming", "B"),
      MCPut("retired", "C"), MCPut("incoming", "A_")>>
MCIssueName == <<"1", "2", "1", "1", "1">>
MCSatisfies == <<{2, 3}, {3}, {}, {1, 2}, {}>>

\* CameliaBatch: the book "b" was decensored with the method "x" before.
MCSources == [c \in Comics |-> [methods |-> IF c = "a" THEN {} ELSE {"x"}, marked |-> c # "a"]]

\* CameliaHandoff: "a" is hashed before Camelia works on it, "b" is not known.
MCFirstRecorded ==
    {("a" :> [stamp |-> 1, digest |-> 1]) @@ ("b" :> [stamp |-> 0, digest |-> 0])}

\* WatcherInstance: lock 2 is nested in lock 1, lock 3 is another launcher's.
MCThreadOf == 1 :> "t" @@ 2 :> "t" @@ 3 :> "u"
MCProcessOf == "t" :> "p" @@ "u" :> "q"

\* BackfillPlan: an archive that was not hashed before the migration, one
\* without pages signed, one whose file has another size than was signed.
MCSizeOf == [g \in Generations |-> IF g = "k" THEN 2 ELSE 1]
MCLeavesOf == [g \in Generations |-> 1]
MCPast(hashed, signed, now) == [hashed |-> hashed, signed |-> signed, now |-> now]
MCPasts ==
    {<<MCPast("g", "g", "g"), MCPast("null", "h", "g")>>,
     <<MCPast("g", "null", "g"), MCPast("g", "g", "k")>>}

VARIABLE component  \* the component this behaviour runs

Init ==
    /\ component \in Components
    /\ component = "scan" \/ tree = [p \in Paths |-> 0]
    /\ component = "dispositions" \/ retirements = {}
    /\ component = "ai" \/ vault = {}
    /\ component = "supersession" \/ file = [a \in Members |-> CHOOSE c \in Contents : TRUE]
    /\ component = "supersession" \/ accept = TRUE
    /\ component = "migrations" \/ directory = {}
    /\ component = "review" \/ method = "rename"
    /\ component = "merge" \/ mergeTool = "watcher"
    /\ component = "maintenance"
          \/ shelves = [f \in SeriesFolders |-> [n \in ArchiveNames |-> NoBook]]
    /\ component = "fields" \/ attested = {}
    /\ component = "plan" \/ catalogue = CHOOSE c \in Catalogues : TRUE
    /\ component = "backfill" \/ fileHolds = [a \in Owners |-> "g"]
    /\ component = "instance" \/ identityOf = [root \in WatchRoots |-> CHOOSE i \in Identities : TRUE]
    /\ ScanInit /\ StagesInit /\ RemovalsInit /\ DispositionsInit /\ CensusInit
    /\ SupersessionInit /\ RetentionInit /\ RecertifyInit /\ MigrationsInit
    /\ BackupsInit /\ ReviewInit /\ RewriteInit /\ MergeInit /\ WriterInit
    /\ MaintenanceInit /\ AiInit /\ PlanInit /\ ResolutionInit /\ RoutingInit
    /\ CameliaInit /\ HandoffInit /\ InstanceInit /\ BackfillInit

Next ==
    /\ UNCHANGED component
    /\ \/ component = "scan" /\ ScanNext
       \/ component # "scan" /\ UNCHANGED scanVars
    /\ \/ component = "removals" /\ RemovalsNext
       \/ component # "removals" /\ UNCHANGED removalVars
    /\ \/ component = "dispositions" /\ DispositionsNext
       \/ component # "dispositions" /\ UNCHANGED dispositionVars
    /\ \/ component = "census" /\ CensusNext
       \/ component # "census" /\ UNCHANGED censusVars
    /\ \/ component = "retention" /\ RetentionNext
       \/ component # "retention" /\ UNCHANGED retentionVars
    /\ \/ component = "recertify" /\ RecertifyNext
       \/ component # "recertify" /\ UNCHANGED recertifyVars
    /\ \/ component = "migrations" /\ MigrationsNext
       \/ component # "migrations" /\ UNCHANGED migrationVars
    /\ \/ component = "backups" /\ BackupsNext
       \/ component # "backups" /\ UNCHANGED backupVars
    /\ \/ component = "rewrite" /\ RewriteNext
       \/ component # "rewrite" /\ UNCHANGED rewriteVars
    /\ \/ component = "writer" /\ WriterNext
       \/ component # "writer" /\ UNCHANGED writerVars
    /\ \/ component = "maintenance" /\ MaintenanceNext
       \/ component # "maintenance" /\ UNCHANGED upkeepVars
    /\ \/ component = "ai" /\ AiNext
       \/ component # "ai" /\ UNCHANGED aiVars
    /\ \/ component = "plan" /\ PlanNext
       \/ component # "plan" /\ UNCHANGED planVars
    /\ \/ component = "fields" /\ FactArrives
       \/ component # "fields" /\ UNCHANGED attested
    /\ \/ component = "routing" /\ RoutingNext
       \/ component # "routing" /\ UNCHANGED rvars
    /\ \/ component = "camelia" /\ CameliaNext
       \/ component # "camelia" /\ UNCHANGED cvars
    /\ \/ component = "backfill" /\ BackfillNext
       \/ component # "backfill" /\ UNCHANGED backfillVars
    /\ \/ component = "instance" /\ InstanceNext
       \/ component # "instance" /\ UNCHANGED instanceVars
    /\ \/ component = "merge" /\ MergeNext
       \/ component # "merge" /\ UNCHANGED mergeVars
    /\ \/ component = "handoff" /\ HandoffNext
       \/ component # "handoff" /\ UNCHANGED handoffVars
    /\ \/ component = "supersession" /\ SupersessionNext
       \/ component # "supersession" /\ UNCHANGED supersessionVars
    /\ \/ component = "stages" /\ StagesNext
       \/ component # "stages" /\ UNCHANGED stageVars
    /\ \/ component = "review" /\ ReviewNext
       \/ component # "review" /\ UNCHANGED reviewVars

vars ==
    <<component, scanVars, stageVars, removalVars, dispositionVars, censusVars,
      supersessionVars, retentionVars, recertifyVars, migrationVars, backupVars,
      reviewVars, rewriteVars, mergeVars, writerVars, upkeepVars, aiVars,
      planVars, attested, rvars, cvars, handoffVars, instanceVars,
      backfillVars>>

Spec == Init /\ [][Next]_vars

=============================================================================
