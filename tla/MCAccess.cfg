SPECIFICATION Spec
CONSTANTS
    Clients = {c1}
    Api = {a1, a2}
    Traffic = {w}
    Expiry = {e}
    Jobs = {"temp", "perm", "unblock", "redeem", "limitLow"}
    MaxCalls = 2
    MaxFaults = 0
SYMMETRY ApiSymmetry
INVARIANT AccessInv
PROPERTY PermanentBanHeld
