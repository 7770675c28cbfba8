\* The Redis queue: a listener that fails leaves Close waiting for ever.
SPECIFICATION FairSpec
CONSTANTS
    Tasks = {t1}
    Stoppers = {s1}
    Requests = {q1}
PROPERTIES
    ShutdownNeverHangs
CHECK_DEADLOCK FALSE
