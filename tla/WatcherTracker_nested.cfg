SPECIFICATION Spec
CHECK_DEADLOCK FALSE
CONSTANTS
    Series = Series
    Nested = Nested
    Raw = Raw
    Clean = Clean
    A = A
    B = B
    NoDir = NoDir
    Main = Main
    Dirs = {Series, Nested}
    TopDirs = {Series}
    Under <- NestedUnder
    CleanName <- SameName
    Archives = {A, B}
    Home <- OneInEach
    TimerThreads = {t1, t2}
    HoldsEnabled = TRUE
    MinAge = TRUE
    MaxChanges = 1
SYMMETRY ThreadSymmetry
INVARIANT
    NeverForgotten
PROPERTIES
    Safety
