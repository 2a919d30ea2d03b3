SPECIFICATION Spec
CONSTANTS
    None = None
    Catalog <- MCCatalog
    Horizon = 7
    DayLength = 2
    MonthLength = 3
    WeekLength = 2
    LongestPass = 2
    TickLimit = 2
    Crons <- MCCrons
    Situation <- StarveSituation
INVARIANTS DisjointNotStarved
CHECK_DEADLOCK FALSE
