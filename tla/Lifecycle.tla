------------------------------ MODULE Lifecycle ------------------------------
(***************************************************************************)
(* The life of one application process: App.Run starts the queue consumer  *)
(* and the scheduler, serves HTTP until a signal or a failed listener ends *)
(* it, and closes the container's resources in reverse construction order  *)
(* (src/internal/app/app.go, container.go, src/internal/server/server.go). *)
(* The scheduler's part of the state is that of module Scheduler; its      *)
(* lifecycle context is also the consumer's and the server's.              *)
(***************************************************************************)
EXTENDS Scheduler

CONSTANT
    Requests   \* HTTP requests in flight

VARIABLES
    driver,    \* QUEUE_DRIVER, fixed for the life of the process
    caching,   \* CACHE_DRIVER, fixed as well
    database,  \* DB_DRIVER, fixed as well
    main,      \* where App.Run is
    server,    \* the HTTP server
    timedOut,  \* the graceful shutdown of the server ran out of time
    request,   \* the requests
    consumer,  \* the queue's consumer goroutine
    queueDone, \* the done channel of the memory queue is closed
    open       \* resources whose closer has not run

serverVars == <<server, timedOut, request>>
queueVars == <<consumer, queueDone>>
configVars == <<driver, caching, database>>
closeVars == <<configVars, open>>
lifeVars == <<main, serverVars, queueVars, closeVars>>
vars == <<schedVars, lifeVars>>

\* the order in which BuildContainer and StartBackground register closers
Order == [redis |-> 1, cache |-> 2, queue |-> 3, limiter |-> 4, db |-> 5, scheduler |-> 6]

Resources == DOMAIN Order

UsesRedis == driver = "redis" \/ caching = "redis"

\* the shared client, or what stands in for it in the process
Built ==
    {"queue", "db", "scheduler"}
      \cup (IF UsesRedis THEN {"redis"} ELSE {"limiter"})
      \cup (IF caching = "memory" THEN {"cache"} ELSE {})

\* mutant: closers run in construction order
FirstCloser == CHOOSE c \in open : \A d \in open : Order[c] <= Order[d]

\* the closers run in reverse construction order
NextCloser == CHOOSE c \in open : \A d \in open : Order[c] >= Order[d]

\* every variable keeps its type
TypeOK ==
    /\ SchedTypeOK
    /\ driver \in {"memory", "redis"} /\ caching \in {"memory", "redis"}
    /\ database \in {"postgres", "mongo"}
    /\ main \in {"boot", "serve", "closing", "waiting", "done"}
    /\ server \in {"down", "listening", "shutting", "shutdown", "failed"}
    /\ timedOut \in BOOLEAN /\ queueDone \in BOOLEAN
    /\ request \in [Requests -> {"none", "active", "querying", "done"}]
    /\ consumer \in {"none", "idle", "busy", "exited"}
    /\ open \subseteq Built

Init ==
    /\ SchedInit
    /\ driver \in {"memory", "redis"} /\ caching \in {"memory", "redis"}
    /\ database \in {"postgres", "mongo"}
    /\ main = "boot" /\ server = "down"
    /\ timedOut = FALSE /\ queueDone = FALSE
    /\ request = [r \in Requests |-> "none"]
    /\ consumer = "none"
    /\ open = Built

\* StartBackground, then the listener
Boot ==
    /\ main = "boot"
    /\ Start
    /\ main' = "serve" /\ server' = "listening" /\ consumer' = "idle"
    /\ UNCHANGED <<closeVars, timedOut, request, queueDone>>

\* the consumer group cannot be created: Run returns and the process ends
BootFails ==
    /\ main = "boot" /\ driver = "redis"
    /\ main' = "done"
    /\ UNCHANGED <<schedVars, closeVars, serverVars, queueVars>>

Signal == CancelLifecycle /\ UNCHANGED lifeVars

Accept(r) ==
    /\ server = "listening" /\ request[r] = "none"
    /\ request' = [request EXCEPT ![r] = "active"]
    /\ UNCHANGED <<schedVars, closeVars, main, server, timedOut, queueVars>>

\* the database refuses connections as soon as its closer has been called
Admits == "db" \in open /\ ~(main = "waiting" /\ NextCloser = "db")

\* a statement or a transaction of the request takes a connection
Acquire(r) ==
    /\ request[r] = "active" /\ Admits
    /\ request' = [request EXCEPT ![r] = "querying"]
    /\ UNCHANGED <<schedVars, closeVars, main, server, timedOut, queueVars>>

\* it is over, or cut off by the request's deadline, and gives the connection back
Return(r) ==
    /\ request[r] = "querying"
    /\ request' = [request EXCEPT ![r] = "active"]
    /\ UNCHANGED <<schedVars, closeVars, main, server, timedOut, queueVars>>

Respond(r) ==
    /\ request[r] = "active"
    /\ request' = [request EXCEPT ![r] = "done"]
    /\ UNCHANGED <<schedVars, closeVars, main, server, timedOut, queueVars>>

InFlight(r) == request[r] \in {"active", "querying"}

-----------------------------------------------------------------------------
(* The server ends: the listener fails, or a signal starts the graceful    *)
(* shutdown, which waits for the requests in flight for a limited time.    *)

ListenFails ==
    /\ main = "serve" /\ server = "listening"
    /\ server' = "failed" /\ main' = "closing"
    /\ UNCHANGED <<schedVars, closeVars, timedOut, request, queueVars>>

ShutdownBegins ==
    /\ main = "serve" /\ server = "listening" /\ cancelled
    /\ server' = "shutting"
    /\ UNCHANGED <<schedVars, closeVars, main, timedOut, request, queueVars>>

ShutdownEnds ==
    /\ server = "shutting"
    /\ \A r \in Requests : ~InFlight(r)
    /\ server' = "shutdown" /\ main' = "closing"
    /\ UNCHANGED <<schedVars, closeVars, timedOut, request, queueVars>>

ShutdownTimesOut ==
    /\ server = "shutting"
    /\ server' = "shutdown" /\ main' = "closing" /\ timedOut' = TRUE
    /\ UNCHANGED <<schedVars, closeVars, request, queueVars>>

-----------------------------------------------------------------------------
(* The queue consumer of both drivers; only the memory queue has a done    *)
(* channel its Close can close.                                            *)

Consume ==
    /\ consumer = "idle"
    /\ consumer' = "busy"
    /\ UNCHANGED <<schedVars, closeVars, main, serverVars, queueDone>>

Consumed ==
    /\ consumer = "busy"
    /\ consumer' = "idle"
    /\ UNCHANGED <<schedVars, closeVars, main, serverVars, queueDone>>

\* mutant: the memory consumer does not look at the done channel
ConsumerExitsOnCancel ==
    /\ consumer = "idle" /\ cancelled
    /\ consumer' = "exited"
    /\ UNCHANGED <<schedVars, closeVars, main, serverVars, queueDone>>

ConsumerExits ==
    /\ consumer = "idle"
    /\ cancelled \/ queueDone
    /\ consumer' = "exited"
    /\ UNCHANGED <<schedVars, closeVars, main, serverVars, queueDone>>

-----------------------------------------------------------------------------
(* Container.Close.  The closers of the scheduler, of the queue and of the *)
(* database wait; main is "waiting" meanwhile.                             *)

\* the error of a closer is logged
Finish(c) == /\ open' = open \ {c}
             /\ main' = IF open' = {} THEN "done" ELSE "closing"

CloseScheduler(s) ==
    /\ main = "closing" /\ NextCloser = "scheduler"
    /\ StopBegins(s)
    /\ main' = "waiting"
    /\ UNCHANGED <<closeVars, serverVars, queueVars>>

SchedulerClosed(s) ==
    /\ main = "waiting" /\ NextCloser = "scheduler"
    /\ StopReturns(s)
    /\ Finish("scheduler")
    /\ UNCHANGED <<configVars, serverVars, queueVars>>

CloseQueue ==
    /\ main = "closing" /\ NextCloser = "queue"
    /\ main' = "waiting"
    /\ queueDone' = (driver = "memory")
    /\ UNCHANGED <<schedVars, closeVars, serverVars, consumer>>

QueueClosed ==
    /\ main = "waiting" /\ NextCloser = "queue"
    /\ consumer = "exited"
    /\ Finish("queue")
    /\ UNCHANGED <<schedVars, configVars, serverVars, queueVars>>

CloseDatabase ==
    /\ main = "closing" /\ NextCloser = "db"
    /\ main' = "waiting"
    /\ UNCHANGED <<schedVars, closeVars, serverVars, queueVars>>

\* mutant: the pool is torn down under the statements that run on it
DatabaseTornDown ==
    /\ main = "waiting" /\ NextCloser = "db"
    /\ Finish("db")
    /\ UNCHANGED <<schedVars, configVars, serverVars, queueVars>>

\* The pool of PostgreSQL waits for every connection in use, for as long as that
\* takes; the MongoDB client waits no longer than the context of Close lasts and
\* then cuts off what still runs.
DatabaseClosed ==
    /\ main = "waiting" /\ NextCloser = "db"
    /\ database = "postgres" => \A r \in Requests : request[r] # "querying"
    /\ Finish("db")
    /\ request' = [r \in Requests |-> IF request[r] = "querying" THEN "active" ELSE request[r]]
    /\ UNCHANGED <<schedVars, configVars, server, timedOut, queueVars>>

CloseOther ==
    /\ main = "closing" /\ NextCloser \notin {"scheduler", "queue", "db"}
    /\ Finish(NextCloser)
    /\ UNCHANGED <<schedVars, configVars, serverVars, queueVars>>

-----------------------------------------------------------------------------
Running == main # "done"  \* afterwards the process is gone

Next ==
    /\ Running
    /\ \/ Boot \/ BootFails \/ Signal
       \/ \E r \in Requests : Accept(r) \/ Acquire(r) \/ Return(r) \/ Respond(r)
       \/ ListenFails \/ ShutdownBegins \/ ShutdownEnds \/ ShutdownTimesOut
       \/ Consume \/ Consumed \/ ConsumerExits
       \/ \E s \in Stoppers : \/ CloseScheduler(s) \/ SchedulerClosed(s)
                              \/ GraceExpires(s) /\ UNCHANGED lifeVars
       \/ CloseDatabase \/ DatabaseClosed \/ CloseQueue \/ QueueClosed \/ CloseOther
       \/ (Watch \/ \E t \in Tasks : SchedTaskStep(t)) /\ UNCHANGED lifeVars

Spec == Init /\ [][Next]_vars

(***************************************************************************)
(* The runtime schedules every goroutine.  A select with two ready         *)
(* channels picks one at random, so neither a task's quit branch nor the   *)
(* consumer's exit is passed over for ever (strong fairness).  A task is   *)
(* only trusted to return once its context is cancelled; handlers of       *)
(* messages return.  The deadline that the Timeout middleware gives every  *)
(* request ends its statements, so a connection in use comes back.         *)
(* Neither a signal nor the end of a request is assumed.                   *)
(***************************************************************************)
Fairness ==
    /\ WF_vars(Running /\ Watch /\ UNCHANGED lifeVars)
    /\ \A t \in Tasks :
         /\ SF_vars(Running /\ LoopQuit(t) /\ UNCHANGED lifeVars)
         /\ WF_vars(Running /\ runCtxDone /\ RunEnds(t) /\ UNCHANGED lifeVars)
    /\ \A s \in Stoppers :
         /\ WF_vars(CloseScheduler(s))
         /\ WF_vars(GraceExpires(s) /\ UNCHANGED lifeVars)
         /\ WF_vars(SchedulerClosed(s))
    /\ WF_vars(ShutdownBegins) /\ WF_vars(ShutdownEnds)
    /\ WF_vars(ShutdownTimesOut)
    /\ WF_vars(Consumed) /\ SF_vars(ConsumerExits)
    /\ \A r \in Requests : WF_vars(Return(r))
    /\ WF_vars(CloseDatabase) /\ WF_vars(DatabaseClosed)
    /\ WF_vars(CloseQueue) /\ WF_vars(QueueClosed) /\ WF_vars(CloseOther)

FairSpec == Spec /\ Fairness

-----------------------------------------------------------------------------
(* Properties.                                                             *)

(***************************************************************************)
(* The datastores are closed only after the last scheduled task is over:   *)
(* no dispatch of reminders runs into a closed pool.                       *)
(***************************************************************************)
StoresOutliveTasks ==
    "db" \notin open => \A t \in Tasks : loop[t] = "exited"

(***************************************************************************)
(* After a shutdown of the server that was in time no request is in        *)
(* flight when the datastores close, and none is accepted later.           *)
(***************************************************************************)
StoresOutliveRequests ==
    "db" \notin open /\ server = "shutdown" /\ ~timedOut =>
        \A r \in Requests : ~InFlight(r)

(***************************************************************************)
(* However the server ended, in time or not, no statement or transaction   *)
(* runs on a database that is closed.                                      *)
(***************************************************************************)
StoresOutliveStatements ==
    "db" \notin open => \A r \in Requests : request[r] # "querying"

(***************************************************************************)
(* The shared Redis client is closed only after the queue's consumer, which *)
(* reads and acknowledges through it, has ended.                           *)
(***************************************************************************)
RedisOutlivesConsumer ==
    driver = "redis" /\ "redis" \notin open => consumer = "exited"

(***************************************************************************)
(* The closers run in an order in which nothing is closed under those who  *)
(* still use it: tasks, requests and their statements, the consumer.       *)
(***************************************************************************)
ResourcesOutliveUsers ==
    /\ StoresOutliveTasks /\ StoresOutliveRequests /\ StoresOutliveStatements
    /\ RedisOutlivesConsumer

(***************************************************************************)
(* A shutdown ends, whatever the scheduler, the consumer and the requests  *)
(* are doing when it begins: always with the memory queue, and with the    *)
(* Redis queue when it was a signal that began it.                         *)
(***************************************************************************)
ShutdownTerminates ==
    main = "closing" /\ (driver = "memory" \/ cancelled) ~> main = "done"

(***************************************************************************)
(* README, "Queue & workers": "shutdown still cannot hang forever", for    *)
(* every way a shutdown begins.                                            *)
(***************************************************************************)
ShutdownNeverHangs == main = "closing" ~> main = "done"
=============================================================================
