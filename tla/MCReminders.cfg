\* One account, two reminders, one request handler and two application instances:
\* batches, stale copies, failing writes and restarts.
SPECIFICATION FairSpec
CONSTANTS
    Users = {u1}
    Installs = {i1}
    Messages = {m1}
    Ids = {r1, r2}
    Workers = {w1}
    Dispatchers = {d1, d2}
    MaxTime = 2
    None = None
INVARIANTS
    RowsCoherent
    NotifiedAtMostOnce
PROPERTIES
    ImplementsPromise
    DueIsSettled
CHECK_DEADLOCK FALSE
