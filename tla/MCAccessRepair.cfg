SPECIFICATION FairSpec
CONSTANTS
    Clients = {c1, c2}
    Api = {a1}
    Traffic = {w}
    Expiry = {}
    Jobs = {"perm", "unblock", "redeem", "kick", "deadline", "noDeadline", "clearLimit"}
    MaxCalls = 2
    MaxFaults = 1
PROPERTY Repair
