SPECIFICATION FairSpec
CONSTANTS
    Workers = {w1, w2}
    NoOne = NoOne
    StartupSteps = 1
    MaxStops = 1
    MaxFaults = 1
    Reboots = {r1, r2}
    Nodes = {n1}
    Requests = {q1, q2}
INVARIANTS
    RebootInv
    CancelledNeverReboots
    OneRebootAtATime
PROPERTIES
    FinalStays
    RestartFreesNodes
    RebootIsOver
CHECK_DEADLOCK FALSE
