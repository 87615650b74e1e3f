CONSTANTS
    a1 = a1
    m1 = m1
    r1 = r1
    r2 = r2
    u1 = u1
    Steps = {a1}
    Manuals = {m1}
    Restores = {r1, r2}
    Updates = {u1}
    Uploads <- MCUploads
    Missing = {"cidr"}
    Written = {"db", "cidr"}
    Count = 1
    KeepCopies = 1
    MaxCalls = 3
    MaxFaults = 2
SPECIFICATION Spec
PROPERTIES RollbackSourceStays
INVARIANTS
    RestoreInv
    AllOrNothing
    CopyProtectsRestore
    BotCommandRunsOnce
    GatedArchivesWhole
    PrunedBehindNewer
    DamagedStaysOut
    NoForeignWal
SYMMETRY MCSymmetry
CHECK_DEADLOCK FALSE
