SPECIFICATION FairSpec
CHECK_DEADLOCK FALSE
CONSTANTS
    Series = Series
    Nested = Nested
    Raw = Raw
    Clean = Clean
    A = A
    B = B
    NoDir = NoDir
    Main = Main
    Dirs = {Raw, Clean}
    TopDirs = {Raw}
    Under <- OneUnder
    CleanName <- CleanedName
    Archives = {A, B}
    Home <- AllRaw
    TimerThreads = {t1}
    HoldsEnabled = TRUE
    MinAge = FALSE
    MaxChanges = 1
PROPERTY
    Progress
