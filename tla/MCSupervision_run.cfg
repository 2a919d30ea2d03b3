SPECIFICATION Spec
CONSTANTS
    w1 = w1
    Workers = {w1}
    MaxSession = 3
    Limit = 2
INVARIANTS NoOrphan Truthful
PROPERTIES Stops
