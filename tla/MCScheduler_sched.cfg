SPECIFICATION Spec
CONSTANTS
    None = None
    Catalog <- MCCatalog
    Horizon = 7
    DayLength = 2
    MonthLength = 3
    WeekLength = 2
    LongestPass = 2
    TickLimit = 2
    Crons <- MCCrons
    Situation <- MCSituation
INVARIANTS NoSelfAncestry EventsAnswered NoOverlap TicksIntended TicksIndependent
CHECK_DEADLOCK FALSE
