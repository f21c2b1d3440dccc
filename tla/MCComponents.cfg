SPECIFICATION Spec
CONSTANTS
    Components = {"scan", "stages", "removals", "dispositions", "census",
                  "supersession", "retention", "recertify", "migrations",
                  "backups", "review", "rewrite", "merge", "writer",
                  "maintenance", "ai", "plan", "fields", "routing", "camelia",
                  "handoff", "instance", "backfill"}
    \* LibraryScan
    Paths = {"b", "ax", "ay"}
    WalkOrder <- MCWalkOrder
    KeyOrder <- MCKeyOrder
    BatchSize = 2
    Limits = {0, 1}
    Faults = {"crash", "exception", "unreadable"}
    MaxBatches = 2
    MaxScans = 2
    MaxLibraryChanges = 1
    \* ArchiveStages
    Places = {"p", "q"}
    Home = "p"
    Original = "v1"
    Bytes = {"v1", "v3"}
    PageNames <- MCPageNames
    Operators = {"repair", "drift", "retire"}
    MaxChanges = 3
    \* Removals
    ArchivePaths = {"l1", "x1", "x2"}
    Occupied <- MCOccupied
    Extraneous = {"x1", "x2"}
    NameAt <- MCNameAt
    Stored <- MCStored
    Corrupt = {"l1", "x1"}
    MaxRuns = 1
    MaxMeddling = 1
    MaxFailures = 1
    \* Dispositions
    ArchiveIds = {"a", "b", "c"}
    MaxReasons = 4
    \* Census
    Commands = {"c1", "c2"}
    MaxJobs = 2
    MaxFacts = 3
    \* Supersession
    Members = {1, 2, 3}
    Contents <- MCContents
    Filled <- MCFilled
    AcceptDrop = {TRUE, FALSE}
    MaxFileChanges = 1
    \* Retention
    Catalogued = {1, 2}
    Evidence = {"running", "unheard"}
    Keeps = {0, 1}
    MaxOrdinal = 3
    MaxCommits = 2
    \* Recertify
    Signed = {"s", "t", "u"}
    Legacy <- MCLegacy
    KeyOf <- MCKeyOf
    MaxDisruptions = 2
    MaxApplies = 2
    MaxClock = 4
    \* Migrations
    Runners = {"r1", "r2"}
    Ordinary = {14, 16}
    Protected = {15}
    FileLabels = {"a", "b"}
    MaxArrivals = 1
    \* Backups
    BackupPaths = {"p", "q"}
    MaxWrites = 2
    MaxBackups = 2
    \* ReviewCases
    Chapters = {"a", "b"}
    FirstPayloads = {{"a"}}
    MaxDisturbances = 1
    \* ArchiveRewrite
    Attempts <- MCAttempts
    Guarded = {"sanitizer", "maintenance"}
    Foreign = {"replace"}
    MaxRewriteTrouble = 3
    MaxForeign = 2
    \* ArchiveMerge
    FileNames = {"x", "xs", "ph", "X4", "x1"}
    CollisionKey <- MCCollisionKey
    Display <- MCDisplay
    Tagged = {"xs"}
    BareNames = {"x"}
    ChapterOne <- MCChapterOne
    Refused = {"ph"}
    Books = {"A", "B"}
    Sizes = {1, 2, 3}
    MinGain = 2
    Tools = {"watcher", "resolver", "promotion", "maintenance"}
    MaxArchives = 2
    MaxMergeTrouble = 1
    \* PlanArtifacts
    Requests = {{"csv"}, {"json"}, {"csv", "json"}}
    MaxPlans = 2
    MaxWriterTrouble = 2
    MaxStrangers = 2
    \* MaintenancePlan
    SeriesFolders = {"F", "G"}
    ArchiveNames = {1, 2, 3}
    CleanToken <- MCCleanToken
    NameKey <- MCNameKey
    FileContents = {"u", "v"}
    IssueKey <- MCIssueKey
    FileSizes = {1}
    MaxHeld = 2
    MaxSessions = 2
    \* AiOriginals
    Works = {"a", "b"}
    BackupName <- MCBackupName
    MaxAiBatches = 2
    MaxOffloadTrouble = 1
    MaxSlots = 2
    MaxEarlier = 1
    \* CanonicalPlan
    Folders = {"F"}
    BookNames = {"a", "A", "b"}
    NameFold <- MCNameFold
    Norm <- MCNameFold
    FirstBooks <- MCFirstBooks
    Catalogues <- MCCatalogues
    PlanModes <- MCPlanModes
    MaxBookMoves = 1
    \* FieldResolution
    Archived = {"x", "y", "z"}
    FirstFacts <- MCFirstFacts
    PossibleFacts <- MCPossibleFacts
    MaxGiven = 3
    SeriesFolder = "S"
    FolderWins = TRUE
    WithMarker <- MCWithMarker
    NoValue = "-"
    \* SeriesRouting
    Precedence <- MCPrecedence
    DefaultDest = "gn"
    NarrowTo = {"manga", "gn"}
    NarrowDefault = "gn"
    RoutingRules <- MCRoutingRules
    Titles = {"A", "A_", "B", "C"}
    SeriesKey <- MCSeriesKey
    Overrides <- MCOverrides
    NoPin = "none"
    Issues = {1, 2, 3, 4, 5}
    IssueName <- MCIssueName
    Satisfies <- MCSatisfies
    HasInfo = {1, 2, 4}
    LegacyDest <- MCLegacyDest
    MixedParents = {"A_"}
    Placed <- MCPlaced
    SampleLimit = 2
    RouterPasses = {"t1", "t2"}
    MaxRoutingTrouble = 1
    MaxToolRuns = 1
    \* CameliaBatch
    Comics = {"a", "b"}
    Methods = {"x", "y"}
    Requested = {{"x"}, {"x", "y"}}
    Sources <- MCSources
    BatchRuns = {"b1", "b2"}
    MaxCameliaTrouble = 1
    \* CameliaHandoff
    Decensored = {"a", "b"}
    FirstRecorded <- MCFirstRecorded
    HandoffRuns = {"r1", "r2"}
    EventLimit = 2
    MaxEvents = 2
    MaxVersions = 3
    MaxElsewhere = 1
    \* WatcherInstance
    Locks = {1, 2, 3}
    ThreadOf <- MCThreadOf
    ProcessOf <- MCProcessOf
    WatchRoots = {"X:", "junction"}
    Identities = {"i", "j"}
    NoThread = "none"
    MaxMutexTrouble = 2
    \* BackfillPlan
    Owners = {1, 2}
    Generations = {"g", "h", "k"}
    SizeOf <- MCSizeOf
    LeavesOf <- MCLeavesOf
    Pasts <- MCPasts
    MaxProduced = 1
    MaxDrawn = 2
    MaxEdits = 1
CHECK_DEADLOCK FALSE
INVARIANTS
    StagesSafety
    DispositionsSafety
    CensusSafety
    KeeperCarriesAll
    VerifiedIsACopy
    KeepsLastCopy
    AiSafety
    PlanSafety
    ResolutionSafety
    CompletedIsComplete
    InstanceSafety
    BackfillSafety
PROPERTIES
    ScanSafety
    RemovalsSafety
    RetentionSafety
    RecertifySafety
    MigrationsSafety
    ReviewSafety
    MergeSafety
    WriterSafety
    LiveDeletesDuplicates
    RoutingSafety
    HandoffSafety
