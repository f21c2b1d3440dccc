\* A service worker and a bounded CLI; recovery only when workers are stopped.
SPECIFICATION FairSpec
CONSTANTS
    s1 = s1
    s2 = s2
    c1 = c1
    k1 = k1
    idS1 = idS1
    idCli = idCli
    NoKey = NoKey
    NoWorker = NoWorker
    MaxJobs = 2
    Keys = {k1}
    Priorities = {1}
    MaxAttempts = 2
    RetryDelay = 1
    StaleAge = 1
    Workers <- ServiceAndCli
    WorkerIds = {idS1, idCli}
    IdOf <- IdOfServiceAndCli
    Bounded = {c1}
    Serves <- ServesServiceAndCli
    StopIsReal = TRUE
INVARIANT
    ExclusiveClaim
PROPERTIES
    ImplementsLifecycle
    PendingIsSettled
