---------------------------- MODULE QueueDrivers ----------------------------
(***************************************************************************)
(* The queue the container builds (src/internal/app/container.go,          *)
(* buildQueue): QUEUE_DRIVER chooses the in-process queue or the one over  *)
(* a Redis stream, and nobody who publishes or subscribes can tell which.  *)
(* Both keep the promise of module JobQueue.                               *)
(***************************************************************************)
EXTENDS Naturals, Sequences

CONSTANTS
    Messages,     \* messages of one topic
    MaxAttempts,  \* RetryPolicy.MaxAttempts, the same for both
    Capacity,     \* of the in-process queue: bufSize
    Procs,        \* processes that consume a stream
    Count,        \* entries they read at once
    QueueConfigs, \* values of QUEUE_DRIVER
    None

ASSUME QueueDriversAssumption ==
    /\ QueueConfigs \subseteq {"memory", "redis"}
    /\ Capacity \in Nat \ {0} /\ Count \in Nat \ {0}
    /\ MaxAttempts \in Nat
    /\ None \notin Messages

VARIABLES
    queue,                                                \* the queue in use
    publish, accepted, taken, consumer, current, tries,   \* of the in-process
    fate, cancelled, closed,                              \* queue
    published, fresh, pending, proc, batch, stopped,      \* of the stream
    attempts, verdict

memoryVars == <<publish, accepted, taken, consumer, current, tries, fate, cancelled,
                closed>>
redisVars == <<published, fresh, pending, proc, batch, stopped, attempts, verdict>>

Memory == INSTANCE MemoryQueue

Redis == INSTANCE RedisQueue WITH
    cancelled <- stopped, tries <- attempts, fate <- verdict

Init == queue \in QueueConfigs /\ Memory!Init /\ Redis!Init

Next ==
    /\ \/ queue = "memory" /\ Memory!Next /\ UNCHANGED redisVars
       \/ queue = "redis" /\ Redis!Next /\ UNCHANGED memoryVars
    /\ UNCHANGED queue

vars == <<queue, memoryVars, redisVars>>

Spec == Init /\ [][Next]_vars

\* the queue that was not built never starts: its fairness asks for nothing
FairSpec == Spec /\ Memory!Fairness /\ Redis!Fairness

-----------------------------------------------------------------------------
\* Messages of the in-process queue are begun in the order they were accepted,
\* retries included (memory.go).
HandledInOrder == Memory!HandledInOrder

\* What was acknowledged on the stream was handled or given up for good, whatever
\* stopped, crashed or got lost (redis.go).
AckedOnlyWhenSettled == Redis!AckedOnlyWhenSettled

\* Each driver implements the abstract queue: bounded attempts, one consumer at a
\* time, nothing handled again once it was settled.
DriversImplementJobQueue == Memory!ImplementsJobQueue /\ Redis!ImplementsJobQueue

\* Nobody waits for ever: a publisher that meets a full buffer gets on while the
\* consumer runs, Close returns whatever waits in the buffer, and while some
\* process stays up every entry of the stream is settled or orphaned.
NobodyWaitsForever == Memory!PublishEnds /\ Memory!CloseEnds /\ Redis!NeverStuck
=============================================================================
