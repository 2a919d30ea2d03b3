SPECIFICATION Spec
SYMMETRY Symmetric
CONSTANTS
    Digests = {d1, d2}
    Targets = {t1}
    Keys = {k1}
    Versions = {v1, v2}
    Leases = {l1}
    Pins = {p1}
    Latest = 1
    Age = 0
    Grace = 1
    Ttl = 1
    MaxTime = 1
    Drift = 0
    MaxClaims = 1
    MaxFence = 1
    MaxHistory = 3
    None = None
INVARIANTS RootsKept IntentExact ReaderProtected
CHECK_DEADLOCK FALSE
