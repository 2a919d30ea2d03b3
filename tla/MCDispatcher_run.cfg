SPECIFICATION Spec
CONSTANTS
    j1 = j1  j2 = j2
    Order <- PairOrder
    Budget <- PairBudget
    Reusable = {j2}
    Capacity = 2
    AbortOnFailure = TRUE
    Starts <- PairStarts
INVARIANTS EvidenceFirst InputsHeld InOrder
PROPERTIES Ends
