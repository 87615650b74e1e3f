CONSTANTS
    p1 = p1
    p2 = p2
    s1 = s1
    s2 = s2
    s3 = s3
    r1 = r1
    r2 = r2
    Procs <- MCProcs
    Steps <- MCSteps
    Restores <- MCRestores
    Home <- MCHome
SPECIFICATION FairSpec
INVARIANTS
    GateInv
    NoStepDuringRestore
    GateNeverWaits
    ResumeUnlocksOnlyItsOwn
    NoLeakedPause
PROPERTIES
    RestoreResolves
    PauseEnds
    ImplementsPauseLock
