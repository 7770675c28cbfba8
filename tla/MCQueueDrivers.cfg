\* Three messages, two attempts; a buffer of one, so that publishers wait for
\* room; two processes that read batches of two.
SPECIFICATION FairSpec
CONSTANTS
    Messages = {m1, m2, m3}
    MaxAttempts = 2
    Capacity = 1
    Procs = {p1, p2}
    Count = 2
    QueueConfigs = {"memory", "redis"}
    None = None
INVARIANTS
    HandledInOrder
    AckedOnlyWhenSettled
PROPERTIES
    DriversImplementJobQueue
    NobodyWaitsForever
