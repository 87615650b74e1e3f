SPECIFICATION Spec
CONSTANTS
    MaxTokens = 4
    Legacy = {}
    Families = {f1}
    NoFamily = noFamily
    Refreshers = {r1}
    Logouts = {}
    Changers = {}
    Logins = {g1}
    MaxVersion = 1
    MaxJwts = 2
INVARIANTS
    PasswordChangeEndsSessions
CHECK_DEADLOCK FALSE
