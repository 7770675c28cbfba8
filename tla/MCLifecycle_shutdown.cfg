\* Every combination of drivers, two tasks, two requests: every way the process ends.
SPECIFICATION FairSpec
CONSTANTS
    Tasks = {t1, t2}
    Stoppers = {s1}
    Requests = {q1, q2}
INVARIANTS
    StopIsRespected
    ResourcesOutliveUsers
PROPERTIES
    ShutdownTerminates
CHECK_DEADLOCK FALSE
