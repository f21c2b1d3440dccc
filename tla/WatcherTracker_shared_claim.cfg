SPECIFICATION Spec
CHECK_DEADLOCK FALSE
CONSTANTS
    Series = Series
    Nested = Nested
    Raw = Raw
    Clean = Clean
    A = A
    B = B
    NoDir = NoDir
    Main = Main
    Dirs = {Raw, Clean}
    TopDirs = {Raw}
    Under <- OneUnder
    CleanName <- CleanedName
    Archives = {A}
    Home <- AllRaw
    TimerThreads = {t1, t2}
    HoldsEnabled = FALSE
    MinAge = TRUE
    MaxChanges = 3
SYMMETRY ThreadSymmetry
INVARIANTS ExclusivePasses
