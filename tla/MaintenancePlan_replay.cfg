SPECIFICATION MaintenanceSpec
CONSTANTS
    SeriesFolders = {"F"}
    ArchiveNames = {1, 2, 3}
    CleanToken <- MCCleanToken
    NameKey <- MCNameKey
    FileContents = {"u", "v"}
    IssueKey <- MCIssueKey
    FileSizes = {1, 2}
    MaxHeld = 2
    MaxSessions = 2
CHECK_DEADLOCK FALSE
PROPERTY
    ReplayDeletesDuplicates
