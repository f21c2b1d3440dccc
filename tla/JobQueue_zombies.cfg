\* Two service workers, and an operator who recovers while they still work.
SPECIFICATION Spec
CONSTANTS
    s1 = s1
    s2 = s2
    c1 = c1
    k1 = k1
    idS1 = idS1
    idCli = idCli
    NoKey = NoKey
    NoWorker = NoWorker
    MaxJobs = 2
    Keys = {k1}
    Priorities = {1}
    MaxAttempts = 2
    RetryDelay = 0
    StaleAge = 1
    Workers <- TwoServices
    WorkerIds <- TwoServices
    IdOf <- IdOfItself
    Bounded = {}
    Serves <- ServesAll
    StopIsReal = FALSE
SYMMETRY SymmetricServices
INVARIANT
    FencedByOwner
PROPERTIES
    Safety
