SPECIFICATION Spec
CHECK_DEADLOCK FALSE
CONSTANTS
    Series = Series
    Nested = Nested
    Raw = Raw
    Clean = Clean
    A = A
    B = B
    NoDir = NoDir
    Main = Main
    Dirs = {Series}
    TopDirs = {Series}
    Under <- OneUnder
    CleanName <- SameName
    Archives = {A, B}
    Home <- BothInSeries
    TimerThreads = {t1, t2}
    HoldsEnabled = TRUE
    MinAge = FALSE
    MaxChanges = 2
SYMMETRY ThreadAndArchiveSymmetry
INVARIANTS HoldsDropNothing
