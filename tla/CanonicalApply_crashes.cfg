SPECIFICATION FairSpec
CONSTANTS
    k = k  d = d  s = s  e = e
    kOld = kOld  kTemp = kTemp  kNew = kNew
    dOld = dOld  dQuarantine = dQuarantine
    sOld = sOld  eOld = eOld  eQuarantine = eQuarantine
    Archives <- MCArchives
    Paths <- MCPaths
    Fold <- MCFold
    Chain <- MCChain
    Keeper <- MCKeeper
    Place <- MCPlace
    Conflicted = {s}
    Forward = forward
    Undos = {undo1, undo2}
    NoAttempt = NoAttempt
    NoArchive = NoArchive
    NoFile = NoFile
    Alien = Alien
    MaxTrouble = 2
    MaxMeddling = 1
CHECK_DEADLOCK FALSE
INVARIANTS
    JournalIsSound
PROPERTIES
    Safety
    ImplementsCatalogueMoves
    Progress
