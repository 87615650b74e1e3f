SPECIFICATION FairSpec
CONSTANTS
    Workers = {w1, w2}
    NoOne = NoOne
    StartupSteps = 2
    MaxStops = 1
    MaxFaults = 1
    Tasks = {t1}
    Requests = {r1}
    Kinds <- MCKinds
    PoolSize = 1
INVARIANT OneWorkerSchedules
CHECK_DEADLOCK FALSE
