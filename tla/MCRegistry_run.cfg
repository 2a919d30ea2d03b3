CONSTANTS
    p1 = p1
    p2 = p2
    main = main
    feat = feat
    old = old
    i1 = i1
    i2 = i2
    i3 = i3
    None = None
    Plans = {p1, p2}
    Names = {main, feat, old}
    Branches = {i1, i2, i3}
    Datasets = {"a", "b", "c", "s", "m", "t", "x"}
    Sites <- AllSites
    Rules <- Authored
    Defaults <- Otherwise
    DefaultBranch = main
    Snapshots <- Asked
    Ttl = 2
    Paths = {"t", "u"}
    Ids = 3
SPECIFICATION RSpec
INVARIANTS EveryInputBound ScopeByPaths FreshnessByPaths OutputKept
PROPERTIES PlanCurrent EditsKept
SYMMETRY Swaps
CHECK_DEADLOCK FALSE
