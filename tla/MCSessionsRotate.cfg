SPECIFICATION Spec
CONSTANTS
    MaxTokens = 4
    Legacy = {}
    Families = {f1}
    NoFamily = noFamily
    Refreshers = {r1, r2}
    Logouts = {}
    Changers = {}
    Logins = {g1}
    MaxVersion = 1
    MaxJwts = 1
SYMMETRY MCSymmetry
INVARIANTS
    SessionInv
    RevokedSessionStaysRejected
    NoTokenInRevokedSession
PROPERTIES
    DeadFamilyStaysDead
CHECK_DEADLOCK FALSE
