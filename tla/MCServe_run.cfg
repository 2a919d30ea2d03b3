SPECIFICATION FairServe
CONSTANTS
    c1 = c1  c2 = c2  c3 = c3  k1 = k1  k2 = k2  k3 = k3
    Calls = {c1, c2, c3}
    Keys = {k1, k2, k3}
    Requests = {k1, k2, k3, c2, c3}
    Async = {k1, k2, k3}
    Resources = {"jobs", "cpu"}
    Capacity <- Cores
    Demand <- Asks
    QueueLimit = 2
    Workloads <- Situations
    InFlight = 2
    CancelRoom = 1
    ActiveJobs = 2
    JobRoom = 2
    Lives = 2
INVARIANTS NoLostWakeup UsageExact OncePerKey AnswersTrue FlagTrue CancelKept
PROPERTIES Ends
