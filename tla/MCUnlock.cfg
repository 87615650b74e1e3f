SPECIFICATION Spec
CONSTANTS
    k1 = k1
    k2 = k2
    NumClients = 2
    Profiles <- MCProfiles
    Codes = {k1, k2}
    Days <- MCDays
    MaxUses <- MCMaxUses
    Bound <- MCBound
    Covers <- MCCovers
    Ends <- MCEnds
    Redeems = {r1, r2}
    Edits = {e1}
    Dates = {0, 2}
    MaxNow = 2
    MaxCalls = 3
SYMMETRY RedeemSymmetry
INVARIANT UnlockInv
PROPERTIES
    RevokedCodeIsDead
    UndisturbedRedeemPays
CHECK_DEADLOCK FALSE
