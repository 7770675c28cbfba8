\* One message, two processes: nobody reclaims what a process leaves behind.
SPECIFICATION FairSpec
CONSTANTS
    Messages = {m1}
    Procs = {p1, p2}
    Count = 2
    MaxAttempts = 2
PROPERTIES
    OrphansAreReclaimed
