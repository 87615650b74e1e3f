SPECIFICATION Spec
CONSTANTS
    MaxTokens = 3
    Legacy = {1}
    Families = {f1, f2}
    NoFamily = noFamily
    Refreshers = {r1}
    Logouts = {l1}
    Changers = {c1}
    Logins = {}
    MaxVersion = 2
    MaxJwts = 1
SYMMETRY MCSymmetry
INVARIANTS
    SessionInv
CHECK_DEADLOCK FALSE
