--------------------------- MODULE LifecycleProofs ---------------------------
(***************************************************************************)
(* Proofs about Scheduler and Lifecycle, for every set of tasks, of        *)
(* callers of Stop and of requests, and every choice of drivers.           *)
(***************************************************************************)
EXTENDS Lifecycle, TLAPS

(***************************************************************************)
(* The scheduler on its own.  StopIsRespected is inductive once it is      *)
(* known that before Start no Stop has begun: Start is what would bring a  *)
(* loop back to life.                                                      *)
(***************************************************************************)
NothingBeforeStart ==
    ~started => \A s \in Stoppers : stop[s] = "none"

SchedInv == SchedTypeOK /\ NothingBeforeStart /\ StopIsRespected

LEMMA SchedInitInv == SchedInit => SchedInv
  BY DEF SchedInit, SchedInv, SchedTypeOK, NothingBeforeStart, StopIsRespected,
         QuietAfterStop, GraceRespected

LEMMA SchedTypeStep == SchedTypeOK /\ [SchedNext]_schedVars => SchedTypeOK'
  BY DEF SchedTypeOK, SchedNext, schedVars, Start, CancelLifecycle, Watch,
         SchedTaskStep, TickerFires, LoopQuit, LoopRun, RunEnds, StopBegins,
         GraceExpires, StopReturns

\* Stop is called on a scheduler that was started, and nothing stops being so
LEMMA BeforeStartStep ==
  SchedTypeOK /\ NothingBeforeStart /\ [SchedNext]_schedVars => NothingBeforeStart'
  BY DEF SchedTypeOK, NothingBeforeStart, SchedNext, schedVars, Start,
         CancelLifecycle, Watch, SchedTaskStep, TickerFires, LoopQuit, LoopRun,
         RunEnds, StopBegins, GraceExpires, StopReturns

\* a loop that has left stays away
LEMMA QuietStep ==
  SchedInv /\ [SchedNext]_schedVars => QuietAfterStop'
<1> SUFFICES ASSUME SchedInv, [SchedNext]_schedVars PROVE QuietAfterStop'
  OBVIOUS
<1> USE DEF SchedInv, SchedTypeOK, StopIsRespected, QuietAfterStop
<1>1. CASE Start
  BY <1>1 DEF Start, NothingBeforeStart
<1>2. CASE CancelLifecycle \/ Watch \/ UNCHANGED schedVars
  BY <1>2 DEF CancelLifecycle, Watch, schedVars
<1>3. ASSUME NEW t \in Tasks, SchedTaskStep(t) PROVE QuietAfterStop'
  BY <1>3 DEF SchedTaskStep, TickerFires, LoopQuit, LoopRun, RunEnds
<1>4. ASSUME NEW s \in Stoppers, StopBegins(s) PROVE QuietAfterStop'
  BY <1>4 DEF StopBegins
<1>5. ASSUME NEW s \in Stoppers, GraceExpires(s) PROVE QuietAfterStop'
  BY <1>5 DEF GraceExpires
<1>6. ASSUME NEW s \in Stoppers, StopReturns(s) PROVE QuietAfterStop'
  BY <1>6 DEF StopReturns, Drained
<1> QED
  BY <1>1, <1>2, <1>3, <1>4, <1>5, <1>6 DEF SchedNext

\* only a Stop that has used its grace up cancels the runs, and it stays past it
LEMMA GraceStep ==
  SchedInv /\ [SchedNext]_schedVars => GraceRespected'
<1> SUFFICES ASSUME SchedInv, [SchedNext]_schedVars PROVE GraceRespected'
  OBVIOUS
<1> USE DEF SchedInv, SchedTypeOK, StopIsRespected, GraceRespected
<1>1. CASE Start \/ CancelLifecycle \/ Watch \/ UNCHANGED schedVars
  BY <1>1 DEF Start, CancelLifecycle, Watch, schedVars
<1>2. ASSUME NEW t \in Tasks, SchedTaskStep(t) PROVE GraceRespected'
  BY <1>2 DEF SchedTaskStep, TickerFires, LoopQuit, LoopRun, RunEnds
<1>3. ASSUME NEW s \in Stoppers, StopBegins(s) PROVE GraceRespected'
  <2>1. \A r \in Stoppers : stop[r] \in {"drain", "returned"} => stop'[r] = stop[r]
    BY <1>3 DEF StopBegins
  <2> QED
    BY <1>3, <2>1 DEF StopBegins
<1>4. ASSUME NEW s \in Stoppers, GraceExpires(s) PROVE GraceRespected'
  BY <1>4 DEF GraceExpires
<1>5. ASSUME NEW s \in Stoppers, StopReturns(s) PROVE GraceRespected'
  BY <1>5 DEF StopReturns
<1> QED
  BY <1>1, <1>2, <1>3, <1>4, <1>5 DEF SchedNext

LEMMA SchedStep == SchedInv /\ [SchedNext]_schedVars => SchedInv'
  BY SchedTypeStep, BeforeStartStep, QuietStep, GraceStep
     DEF SchedInv, StopIsRespected

\* a scheduler is quiet once Stop has returned, and cuts no run short before
\* the grace of a Stop is over
THEOREM SchedulerQuiet == SchedSpec => []StopIsRespected
<1>1. SchedInv => StopIsRespected
  BY DEF SchedInv
<1> QED
  BY <1>1, SchedInitInv, SchedStep, PTL DEF SchedSpec
-----------------------------------------------------------------------------
(* The scheduler inside the process.                                       *)

\* nothing but the scheduler's own steps touches its state
LEMMA StepImplements == [Next]_vars => [SchedNext]_schedVars
  BY DEF Next, vars, lifeVars, SchedNext, Boot, BootFails, Signal, Accept, Acquire,
         Return, Respond, ListenFails, ShutdownBegins, ShutdownEnds, ShutdownTimesOut, Consume,
         Consumed, ConsumerExits, CloseScheduler, SchedulerClosed, CloseQueue,
         QueueClosed, CloseDatabase, DatabaseClosed, CloseOther, schedVars

\* a stop of the process is as orderly as one of the scheduler
THEOREM StopRespected == Spec => []StopIsRespected
<1>1. Init => SchedInit
  BY DEF Init
<1> QED
  BY <1>1, StepImplements, SchedulerQuiet, PTL DEF Spec, SchedSpec
-----------------------------------------------------------------------------
(* The order in which resources are closed.                                *)

ClosedInOrder ==
    \A c, d \in Built : d \in open /\ Order[c] <= Order[d] => c \in open

\* what the two closers that wait have waited for
WaitedFor ==
    /\ "scheduler" \notin open => \E s \in Stoppers : stop[s] = "returned"
    /\ "queue" \notin open => consumer = "exited"

\* a graceful shutdown of the server that was in time leaves no request
RequestsOver ==
    server = "shutdown" /\ ~timedOut => \A r \in Requests : ~InFlight(r)

MainKnows ==
    /\ main \in {"boot", "serve"} => open = Built
    /\ main = "boot" => server = "down"
    /\ server = "down" => main \in {"boot", "done"}
    /\ server \in {"listening", "shutting"} => main = "serve"
    /\ main \in {"closing", "waiting"} => open # {}

LifeInv ==
    /\ TypeOK /\ SchedInv /\ ClosedInOrder /\ WaitedFor /\ RequestsOver /\ MainKnows
    /\ StoresOutliveStatements

LEMMA OrderType ==
    /\ Resources = {"redis", "cache", "queue", "limiter", "db", "scheduler"}
    /\ Built \subseteq Resources
    /\ \A c \in Resources : Order[c] \in 1..6
    /\ \A c, d \in Resources : Order[c] = Order[d] => c = d
    /\ {"db", "scheduler", "queue"} \subseteq Built
    /\ Order["db"] < Order["scheduler"]
    /\ Order["redis"] < Order["queue"]
    /\ driver = "redis" => "redis" \in Built
<1>1. Resources = {"redis", "cache", "queue", "limiter", "db", "scheduler"}
  BY DEF Resources, Order
<1>2. /\ Order["redis"] = 1 /\ Order["cache"] = 2 /\ Order["queue"] = 3
      /\ Order["limiter"] = 4 /\ Order["db"] = 5 /\ Order["scheduler"] = 6
  BY DEF Order
<1> QED
  BY <1>1, <1>2 DEF Built, UsesRedis

\* while a closer is left, the next one is the last that was registered
LEMMA NextIsLast ==
  ASSUME open \subseteq Built, open # {}
  PROVE  NextCloser \in open /\ \A d \in open : Order[NextCloser] >= Order[d]
<1>1. \E c \in open : \A d \in open : Order[c] >= Order[d]
  <2> DEFINE Last(c) == c \in open /\ \A d \in open : Order[c] >= Order[d]
  <2>0. /\ \A d \in open : Order[d] \in 1..6
        /\ \A d \in open : d \in {"redis", "cache", "queue", "limiter", "db", "scheduler"}
    BY OrderType
  <2>1. /\ Order["redis"] = 1 /\ Order["cache"] = 2 /\ Order["queue"] = 3
        /\ Order["limiter"] = 4 /\ Order["db"] = 5 /\ Order["scheduler"] = 6
    BY DEF Order
  <2>2. CASE "scheduler" \in open
    <3>1. Last("scheduler")
      BY <2>0, <2>1, <2>2
    <3> QED
      BY <3>1
  <2>3. CASE "scheduler" \notin open /\ "db" \in open
    <3>1. Last("db")
      BY <2>0, <2>1, <2>3
    <3> QED
      BY <3>1
  <2>4. CASE open \cap {"scheduler", "db"} = {} /\ "limiter" \in open
    <3>1. Last("limiter")
      BY <2>0, <2>1, <2>4
    <3> QED
      BY <3>1
  <2>5. CASE open \cap {"scheduler", "db", "limiter"} = {} /\ "queue" \in open
    <3>1. Last("queue")
      BY <2>0, <2>1, <2>5
    <3> QED
      BY <3>1
  <2>6. CASE open \cap {"scheduler", "db", "limiter", "queue"} = {} /\ "cache" \in open
    <3>1. Last("cache")
      BY <2>0, <2>1, <2>6
    <3> QED
      BY <3>1
  <2>7. CASE open \subseteq {"redis"}
    <3>1. open = {"redis"}
      BY <2>7
    <3>2. Last("redis")
      BY <2>1, <3>1
    <3> QED
      BY <3>2
  <2> QED
    BY <2>0, <2>2, <2>3, <2>4, <2>5, <2>6, <2>7
<1> QED
  BY <1>1 DEF NextCloser

LEMMA TypeInit == Init => TypeOK
  BY SchedInitInv DEF Init, TypeOK, SchedInv

LEMMA TypeStep == TypeOK /\ [Next]_vars => TypeOK'
<1> SUFFICES ASSUME TypeOK, [Next]_vars PROVE TypeOK'
  OBVIOUS
<1>1. SchedTypeOK'
  BY StepImplements, SchedTypeStep DEF TypeOK
<1>2. UNCHANGED configVars /\ Built' = Built
  BY DEF Next, vars, lifeVars, closeVars, Boot, BootFails, Signal, Accept, Acquire,
         Return, Respond, ListenFails, ShutdownBegins, ShutdownEnds, ShutdownTimesOut, Consume,
         Consumed, ConsumerExits, CloseScheduler, SchedulerClosed, CloseQueue,
         QueueClosed, CloseDatabase, DatabaseClosed, CloseOther, configVars, Built, UsesRedis
<1>3. CASE Boot \/ BootFails \/ Signal
  BY <1>1, <1>2, <1>3 DEF TypeOK, lifeVars, serverVars, queueVars, closeVars, configVars, Boot,
                          BootFails, Signal
<1>4. ASSUME NEW r \in Requests, Accept(r) \/ Acquire(r) \/ Return(r) \/ Respond(r)
      PROVE  TypeOK'
  BY <1>1, <1>2, <1>4
     DEF TypeOK, queueVars, closeVars, configVars, Accept, Acquire, Return, Respond
<1>5. CASE ListenFails \/ ShutdownBegins \/ ShutdownEnds \/ ShutdownTimesOut
  BY <1>1, <1>2, <1>5 DEF TypeOK, queueVars, closeVars, configVars, ListenFails, ShutdownBegins,
                          ShutdownEnds, ShutdownTimesOut
<1>6. CASE Consume \/ Consumed \/ ConsumerExits
  BY <1>1, <1>2, <1>6 DEF TypeOK, serverVars, closeVars, configVars, Consume, Consumed, ConsumerExits
<1>7. ASSUME NEW s \in Stoppers, CloseScheduler(s) \/ SchedulerClosed(s) PROVE TypeOK'
  BY <1>1, <1>2, <1>7 DEF TypeOK, serverVars, queueVars, closeVars, configVars, CloseScheduler,
                          SchedulerClosed, Finish
<1>8. CASE CloseQueue \/ QueueClosed \/ CloseDatabase \/ DatabaseClosed \/ CloseOther
  BY <1>1, <1>2, <1>8 DEF TypeOK, serverVars, queueVars, closeVars, configVars, CloseQueue,
                          QueueClosed, CloseDatabase, DatabaseClosed, CloseOther, Finish
<1>9. CASE UNCHANGED lifeVars
  BY <1>1, <1>2, <1>9 DEF TypeOK, lifeVars, serverVars, queueVars, closeVars, configVars
<1> QED
  BY <1>3, <1>4, <1>5, <1>6, <1>7, <1>8, <1>9 DEF Next, vars

\* every variable of the process keeps its type
THEOREM TypeCorrect == Spec => []TypeOK
  BY TypeInit, TypeStep, PTL DEF Spec
-----------------------------------------------------------------------------
\* a closer that waits removes what it waited for, and any closer the last one
LEMMA FinishStep ==
  ASSUME LifeInv, main \in {"closing", "waiting"}, Finish(NextCloser),
         UNCHANGED <<configVars, server>>
  PROVE  ClosedInOrder' /\ MainKnows'
<1>1. open # {} /\ open \subseteq Built
  BY DEF LifeInv, MainKnows, TypeOK
<1>2. NextCloser \in open /\ \A d \in open : Order[NextCloser] >= Order[d]
  BY <1>1, NextIsLast
<1>3. open' = open \ {NextCloser} /\ Built' = Built
  BY DEF Finish, Built, UsesRedis, configVars
<1>4. ClosedInOrder'
  <2> SUFFICES ASSUME NEW c \in Built, NEW d \in Built, d \in open', Order[c] <= Order[d]
               PROVE  c \in open'
    BY <1>3 DEF ClosedInOrder
  <2>1. c \in open
    BY <1>3 DEF LifeInv, ClosedInOrder
  <2>2. c # NextCloser
    <3> SUFFICES ASSUME c = NextCloser PROVE FALSE
      OBVIOUS
    <3>1. Order[c] = Order[d]
      BY <1>2, <1>3, OrderType
    <3> QED
      BY <1>3, <3>1, OrderType
  <2> QED
    BY <1>3, <2>1, <2>2
<1>5. MainKnows'
  BY <1>2, <1>3 DEF Finish, LifeInv, MainKnows
<1> QED
  BY <1>4, <1>5

LEMMA LifeInitInv == Init => LifeInv
  BY TypeInit, SchedInitInv, OrderType
     DEF Init, LifeInv, ClosedInOrder, WaitedFor, RequestsOver, MainKnows, InFlight,
         StoresOutliveStatements

\* no statement starts once the database refuses connections, and its closer
\* returns when none is left
LEMMA StatementsStep == LifeInv /\ [Next]_vars => StoresOutliveStatements'
<1> SUFFICES ASSUME LifeInv, [Next]_vars, "db" \notin open'
             PROVE  \A r \in Requests : request'[r] # "querying"
  BY DEF StoresOutliveStatements
<1>0. TypeOK /\ request \in [Requests -> {"none", "active", "querying", "done"}]
  BY DEF LifeInv, TypeOK
<1>1. ASSUME UNCHANGED request,
             open' = open \/ (NextCloser # "db" /\ open' = open \ {NextCloser})
      PROVE  \A r \in Requests : request'[r] # "querying"
  BY <1>1 DEF LifeInv, StoresOutliveStatements
<1>2. CASE DatabaseClosed
  BY <1>0, <1>2 DEF DatabaseClosed
<1>3. ASSUME NEW r \in Requests, Accept(r) \/ Acquire(r) \/ Return(r) \/ Respond(r)
      PROVE  \A q \in Requests : request'[q] # "querying"
  <2>1. "db" \notin open
    BY <1>3 DEF Accept, Acquire, Return, Respond, closeVars
  <2>2. Acquire(r) => FALSE
    BY <2>1 DEF Acquire, Admits
  <2>3. \A q \in Requests : request'[q] = "querying" => request[q] = "querying"
    BY <1>0, <1>3, <2>2 DEF Accept, Return, Respond
  <2> QED
    BY <2>1, <2>3 DEF LifeInv, StoresOutliveStatements
<1>4. CASE \/ Boot \/ BootFails \/ ListenFails \/ ShutdownBegins \/ ShutdownEnds
           \/ ShutdownTimesOut \/ Consume \/ Consumed \/ ConsumerExits
           \/ CloseQueue \/ CloseDatabase
  BY <1>1, <1>4
     DEF Boot, BootFails, ListenFails, ShutdownBegins, ShutdownEnds, ShutdownTimesOut, Consume,
         Consumed, ConsumerExits, CloseQueue, CloseDatabase, closeVars, serverVars
<1>5. CASE UNCHANGED lifeVars \/ UNCHANGED vars
  BY <1>1, <1>5 DEF vars, lifeVars, closeVars, serverVars
<1>6. ASSUME NEW s \in Stoppers, CloseScheduler(s) PROVE \A r \in Requests : request'[r] # "querying"
  BY <1>1, <1>6 DEF CloseScheduler, closeVars, serverVars
<1>7. ASSUME NEW s \in Stoppers, SchedulerClosed(s) PROVE \A r \in Requests : request'[r] # "querying"
  BY <1>1, <1>7 DEF SchedulerClosed, Finish, serverVars
<1>8. CASE QueueClosed \/ CloseOther
  BY <1>1, <1>8 DEF QueueClosed, CloseOther, Finish, serverVars
<1> QED
  BY <1>2, <1>3, <1>4, <1>5, <1>6, <1>7, <1>8 DEF Next, Signal

LEMMA LifeStep == LifeInv /\ [Next]_vars => LifeInv'
<1> SUFFICES ASSUME LifeInv, [Next]_vars PROVE LifeInv'
  OBVIOUS
<1>1. TypeOK' /\ SchedInv' /\ StoresOutliveStatements'
  BY TypeStep, SchedStep, StepImplements, StatementsStep DEF LifeInv
<1>2. \A s \in Stoppers : stop[s] = "returned" => stop'[s] = "returned"
  BY StepImplements
     DEF LifeInv, SchedInv, SchedTypeOK, SchedNext, schedVars, Start, CancelLifecycle,
         Watch, SchedTaskStep, TickerFires, LoopQuit, LoopRun, RunEnds, StopBegins,
         GraceExpires, StopReturns
<1>3. ASSUME UNCHANGED <<configVars, open, main, server>> PROVE ClosedInOrder' /\ MainKnows'
  BY <1>3 DEF LifeInv, ClosedInOrder, MainKnows, Built, UsesRedis, configVars
<1>4. ASSUME UNCHANGED <<open, consumer>> PROVE WaitedFor'
  BY <1>2, <1>4 DEF LifeInv, WaitedFor
<1>5. ASSUME UNCHANGED <<server, timedOut, request>> PROVE RequestsOver'
  BY <1>5 DEF LifeInv, RequestsOver, InFlight
<1>6. CASE Boot
  <2>1. "queue" \in open /\ UNCHANGED <<configVars, open>>
    BY <1>6, OrderType DEF Boot, closeVars, LifeInv, MainKnows
  <2>2. ClosedInOrder' /\ MainKnows'
    BY <1>6, <2>1 DEF Boot, LifeInv, ClosedInOrder, MainKnows, Built, UsesRedis, configVars
  <2>3. WaitedFor'
    BY <1>2, <2>1 DEF LifeInv, WaitedFor
  <2> QED
    BY <1>1, <1>6, <2>2, <2>3 DEF Boot, LifeInv, RequestsOver, InFlight
<1>7. CASE BootFails
  BY <1>1, <1>4, <1>5, <1>7
     DEF BootFails, closeVars, serverVars, queueVars, LifeInv, ClosedInOrder, MainKnows,
         Built, UsesRedis, configVars
<1>8. ASSUME UNCHANGED lifeVars PROVE LifeInv'
  BY <1>1, <1>3, <1>4, <1>5, <1>8
     DEF lifeVars, closeVars, serverVars, queueVars, LifeInv
<1>9. ASSUME NEW r \in Requests, Accept(r) \/ Acquire(r) \/ Return(r) \/ Respond(r)
      PROVE  LifeInv'
  <2>0. request \in [Requests -> {"none", "active", "querying", "done"}]
    BY DEF LifeInv, TypeOK
  <2>1. UNCHANGED <<closeVars, main, server, timedOut, queueVars>>
    BY <1>9 DEF Accept, Acquire, Return, Respond
  <2>2. server = "shutdown" => \A q \in Requests : InFlight(q)' => InFlight(q)
    BY <1>9, <2>0 DEF Accept, Acquire, Return, Respond, InFlight
  <2>3. RequestsOver'
    BY <2>1, <2>2 DEF LifeInv, RequestsOver
  <2> QED
    BY <1>1, <1>3, <1>4, <2>1, <2>3 DEF closeVars, queueVars, LifeInv
<1>10. CASE ListenFails \/ ShutdownBegins \/ ShutdownEnds \/ ShutdownTimesOut
  <2>1. ClosedInOrder' /\ MainKnows'
    BY <1>10, OrderType
       DEF ListenFails, ShutdownBegins, ShutdownEnds, ShutdownTimesOut, closeVars,
           LifeInv, ClosedInOrder, MainKnows, Built, UsesRedis, configVars
  <2>2. RequestsOver'
    BY <1>10 DEF ListenFails, ShutdownBegins, ShutdownEnds, ShutdownTimesOut,
                 LifeInv, RequestsOver, InFlight
  <2> QED
    BY <1>1, <1>4, <1>10, <2>1, <2>2
       DEF ListenFails, ShutdownBegins, ShutdownEnds, ShutdownTimesOut, closeVars,
           queueVars, LifeInv
<1>11. CASE Consume \/ Consumed \/ ConsumerExits
  <2>1. WaitedFor'
    BY <1>2, <1>11 DEF Consume, Consumed, ConsumerExits, closeVars, LifeInv, WaitedFor
  <2> QED
    BY <1>1, <1>3, <1>5, <1>11, <2>1
       DEF Consume, Consumed, ConsumerExits, closeVars, serverVars, LifeInv
<1>12. ASSUME NEW s \in Stoppers, CloseScheduler(s) PROVE LifeInv'
  BY <1>1, <1>4, <1>5, <1>12
     DEF CloseScheduler, closeVars, serverVars, queueVars, LifeInv, ClosedInOrder,
         MainKnows, Built, UsesRedis, configVars
<1>13. ASSUME NEW s \in Stoppers, SchedulerClosed(s) PROVE LifeInv'
  <2>1. ClosedInOrder' /\ MainKnows'
    BY <1>13, FinishStep DEF SchedulerClosed, serverVars
  <2>2. stop'[s] = "returned"
    BY <1>13 DEF SchedulerClosed, StopReturns, LifeInv, SchedInv, SchedTypeOK
  <2>3. WaitedFor'
    BY <1>13, <2>2 DEF SchedulerClosed, Finish, queueVars, LifeInv, WaitedFor
  <2> QED
    BY <1>1, <1>5, <1>13, <2>1, <2>3 DEF SchedulerClosed, serverVars, LifeInv
<1>14. CASE CloseQueue
  BY <1>1, <1>4, <1>5, <1>14
     DEF CloseQueue, closeVars, serverVars, LifeInv, ClosedInOrder, MainKnows, Built,
         UsesRedis, configVars
<1>15. CASE QueueClosed
  <2>1. ClosedInOrder' /\ MainKnows'
    BY <1>15, FinishStep DEF QueueClosed, serverVars
  <2>2. WaitedFor'
    BY <1>2, <1>15 DEF QueueClosed, Finish, queueVars, LifeInv, WaitedFor
  <2> QED
    BY <1>1, <1>5, <1>15, <2>1, <2>2 DEF QueueClosed, serverVars, LifeInv
<1>16. CASE CloseDatabase
  BY <1>1, <1>4, <1>5, <1>16
     DEF CloseDatabase, closeVars, serverVars, queueVars, LifeInv, ClosedInOrder, MainKnows,
         Built, UsesRedis, configVars
<1>17. CASE DatabaseClosed
  <2>0. request \in [Requests -> {"none", "active", "querying", "done"}]
    BY DEF LifeInv, TypeOK
  <2>1. ClosedInOrder' /\ MainKnows'
    BY <1>17, FinishStep DEF DatabaseClosed
  <2>2. WaitedFor'
    BY <1>2, <1>17 DEF DatabaseClosed, Finish, queueVars, LifeInv, WaitedFor
  <2>3. RequestsOver'
    BY <1>17, <2>0 DEF DatabaseClosed, LifeInv, RequestsOver, InFlight
  <2> QED
    BY <1>1, <2>1, <2>2, <2>3 DEF LifeInv
<1>18. CASE CloseOther
  <2>1. ClosedInOrder' /\ MainKnows'
    BY <1>18, FinishStep DEF CloseOther, serverVars
  <2>2. WaitedFor'
    BY <1>2, <1>18 DEF CloseOther, Finish, queueVars, LifeInv, WaitedFor
  <2> QED
    BY <1>1, <1>5, <1>18, <2>1, <2>2 DEF CloseOther, serverVars, LifeInv
<1>19. CASE UNCHANGED vars
  BY <1>8, <1>19 DEF vars
<1> QED
  BY <1>6, <1>7, <1>8, <1>9, <1>10, <1>11, <1>12, <1>13, <1>14, <1>15, <1>16, <1>17,
     <1>18, <1>19
     DEF Next, Signal

LEMMA LifeInvResources == LifeInv => ResourcesOutliveUsers
<1> SUFFICES ASSUME LifeInv PROVE ResourcesOutliveUsers
  OBVIOUS
<1>1. "db" \notin open => "scheduler" \notin open
  BY OrderType DEF LifeInv, ClosedInOrder
<1>2. StoresOutliveTasks
  BY <1>1 DEF LifeInv, SchedInv, StopIsRespected, QuietAfterStop, WaitedFor,
              StoresOutliveTasks
<1>3. StoresOutliveRequests
  BY DEF LifeInv, RequestsOver, StoresOutliveRequests
<1>6. StoresOutliveStatements
  BY DEF LifeInv
<1>4. driver = "redis" /\ "redis" \notin open => "queue" \notin open
  BY OrderType DEF LifeInv, ClosedInOrder
<1>5. RedisOutlivesConsumer
  BY <1>4 DEF LifeInv, WaitedFor, RedisOutlivesConsumer
<1> QED
  BY <1>2, <1>3, <1>5, <1>6 DEF ResourcesOutliveUsers

\* nothing is closed under those who still use it, whatever the drivers
THEOREM ResourcesOutlive == Spec => []ResourcesOutliveUsers
  BY LifeInitInv, LifeStep, LifeInvResources, PTL DEF Spec
-----------------------------------------------------------------------------
(* A shutdown does not deadlock: what ShutdownTerminates rests on besides  *)
(* fairness.                                                               *)

\* the closer that waits for the scheduler can return, or a task it waits for
\* can leave: it meets the closed quit channel, or its context is cancelled
SchedulerGoesOn ==
    \E s \in Stoppers :
        \/ stop[s] = "grace"
        \/ stop[s] = "drain" /\ Drained
        \/ /\ stop[s] = "drain"
           /\ \E t \in Tasks : \/ loop[t] = "select" /\ quit
                               \/ loop[t] = "running" /\ runCtxDone

\* the closer that waits for the consumer can return, or the consumer can leave
ConsumerGoesOn ==
    consumer \in {"busy", "exited"} \/ (consumer = "idle" /\ (cancelled \/ queueDone))

\* The closer that waits for the database can return, or waits for statements whose
\* requests outlasted the server: their deadline ends them, and no new one starts.
DatabaseGoesOn ==
    \/ database = "postgres" => \A r \in Requests : request[r] # "querying"
    \/ /\ \E r \in Requests : request[r] = "querying"
       /\ timedOut \/ server = "failed"
       /\ ~Admits

\* the next closer can be called, or the one that waits does not wait in vain
ShutdownGoesOn ==
    \/ main = "closing" /\ NextCloser = "scheduler"
         /\ started /\ \E s \in Stoppers : stop[s] = "none"
    \/ main = "closing" /\ NextCloser \in open \ {"scheduler"}
    \/ main = "waiting" /\ NextCloser = "scheduler" /\ SchedulerGoesOn
    \/ main = "waiting" /\ NextCloser = "queue" /\ ConsumerGoesOn
    \/ main = "waiting" /\ NextCloser = "db" /\ DatabaseGoesOn

\* The one way to hang is the Redis queue whose consumer nobody has told to end.
ShutdownNeverStuck ==
    main \in {"closing", "waiting"} =>
        ShutdownGoesOn
        \/ (/\ main = "waiting" /\ NextCloser = "queue"
            /\ driver = "redis" /\ ~cancelled /\ consumer = "idle")

\* what a call of Stop has done so far
StopTells ==
    /\ \A s \in Stoppers : stop[s] # "none" => quit
    /\ \A s \in Stoppers : stop[s] = "drain" => runCtxDone
    /\ started => \A t \in Tasks : loop[t] # "none"

LEMMA StopTellsStep == SchedTypeOK /\ StopTells /\ [SchedNext]_schedVars => StopTells'
<1> SUFFICES ASSUME SchedTypeOK, StopTells, [SchedNext]_schedVars PROVE StopTells'
  OBVIOUS
<1> USE DEF SchedTypeOK, StopTells
<1>1. CASE Start \/ CancelLifecycle \/ Watch \/ UNCHANGED schedVars
  BY <1>1 DEF Start, CancelLifecycle, Watch, schedVars
<1>2. ASSUME NEW t \in Tasks, SchedTaskStep(t) PROVE StopTells'
  BY <1>2 DEF SchedTaskStep, TickerFires, LoopQuit, LoopRun, RunEnds
<1>3. ASSUME NEW s \in Stoppers, StopBegins(s) PROVE StopTells'
  <2>1. \A r \in Stoppers \ {s} : stop'[r] = stop[r]
    BY <1>3 DEF StopBegins
  <2>2. quit' /\ stop'[s] = "grace" /\ UNCHANGED <<started, runCtxDone, loop>>
    BY <1>3 DEF StopBegins
  <2> QED
    BY <2>1, <2>2
<1>4. ASSUME NEW s \in Stoppers, GraceExpires(s) PROVE StopTells'
  <2>1. quit /\ runCtxDone' /\ UNCHANGED <<started, quit, loop>>
    BY <1>4 DEF GraceExpires
  <2> QED
    BY <2>1
<1>5. ASSUME NEW s \in Stoppers, StopReturns(s) PROVE StopTells'
  <2>1. quit /\ UNCHANGED <<started, quit, runCtxDone, loop>>
    BY <1>5 DEF StopReturns
  <2>2. \A r \in Stoppers : stop'[r] = stop[r] \/ stop'[r] = "returned"
    BY <1>5 DEF StopReturns
  <2> QED
    BY <2>1, <2>2
<1> QED
  BY <1>1, <1>2, <1>3, <1>4, <1>5 DEF SchedNext

\* the container stops the scheduler once, first of all, and the queue with what
\* its driver has to tell the consumer
CloserTells ==
    /\ main \in {"serve", "closing", "waiting"} => started /\ consumer # "none"
    /\ main \in {"boot", "serve"} \/ (main = "closing" /\ "scheduler" \in open) =>
          \A s \in Stoppers : stop[s] = "none"
    /\ main = "waiting" => "scheduler" \in open \/ NextCloser \in {"queue", "db"}
    /\ main = "waiting" /\ "scheduler" \in open =>
          \E s \in Stoppers : stop[s] \in {"grace", "drain"}
    /\ main = "waiting" /\ NextCloser = "queue" /\ driver = "memory" => queueDone

\* the scheduler was registered last
LEMMA SchedulerFirst ==
  ASSUME LifeInv, main \in {"closing", "waiting"}
  PROVE  /\ NextCloser \in open
         /\ "scheduler" \in open <=> NextCloser = "scheduler"
<1>1. open # {} /\ open \subseteq Built
  BY DEF LifeInv, MainKnows, TypeOK
<1>2. NextCloser \in open /\ \A d \in open : Order[NextCloser] >= Order[d]
  BY <1>1, NextIsLast
<1>3. Order["scheduler"] = 6
  BY DEF Order
<1>4. "scheduler" \in open => Order[NextCloser] = Order["scheduler"]
  BY <1>1, <1>2, <1>3, OrderType
<1>5. "scheduler" \in open => NextCloser = "scheduler"
  BY <1>1, <1>2, <1>4, OrderType
<1> QED
  BY <1>2, <1>5

LEMMA CloserTellsStep == LifeInv /\ CloserTells /\ [Next]_vars => CloserTells'
<1> SUFFICES ASSUME LifeInv, CloserTells, [Next]_vars PROVE CloserTells'
  OBVIOUS
<1>0. SchedTypeOK /\ TypeOK /\ MainKnows
  BY DEF LifeInv, SchedInv
<1>1. ASSUME UNCHANGED open PROVE NextCloser' = NextCloser
  BY <1>1 DEF NextCloser
<1>2. ASSUME UNCHANGED <<open, main, driver, started, stop>>,
             consumer # "none" => consumer' # "none", queueDone => queueDone'
      PROVE  CloserTells'
  BY <1>1, <1>2 DEF CloserTells
<1>3. CASE Boot
  <2>1. started' /\ main' = "serve" /\ consumer' = "idle"
    BY <1>3 DEF Boot, Start
  <2>2. \A s \in Stoppers : stop'[s] = "none"
    BY <1>3 DEF Boot, Start, CloserTells
  <2> QED
    BY <2>1, <2>2 DEF CloserTells
<1>4. CASE BootFails
  BY <1>4 DEF BootFails, CloserTells
<1>5. CASE Signal \/ UNCHANGED vars
  BY <1>2, <1>5
     DEF Signal, CancelLifecycle, vars, schedVars, lifeVars, closeVars, configVars, serverVars, queueVars
<1>6. ASSUME NEW r \in Requests, Accept(r) \/ Acquire(r) \/ Return(r) \/ Respond(r)
      PROVE  CloserTells'
  BY <1>2, <1>6
     DEF Accept, Acquire, Return, Respond, schedVars, closeVars, configVars, queueVars
<1>7. CASE ListenFails \/ ShutdownEnds \/ ShutdownTimesOut
  <2>1. main = "serve" /\ main' = "closing"
        /\ UNCHANGED <<open, driver, started, stop, consumer>>
    BY <1>0, <1>7
       DEF ListenFails, ShutdownEnds, ShutdownTimesOut, schedVars, closeVars, configVars, queueVars,
           MainKnows
  <2> QED
    BY <2>1 DEF CloserTells
<1>8. CASE ShutdownBegins
  BY <1>2, <1>8 DEF ShutdownBegins, schedVars, closeVars, configVars, queueVars
<1>9. CASE Consume \/ Consumed \/ ConsumerExits
  BY <1>2, <1>9 DEF Consume, Consumed, ConsumerExits, schedVars, closeVars, configVars
<1>10. ASSUME NEW s \in Stoppers, CloseScheduler(s) PROVE CloserTells'
  <2>1. /\ main = "closing" /\ main' = "waiting" /\ NextCloser = "scheduler"
        /\ UNCHANGED <<open, driver, started, consumer, queueDone>>
    BY <1>10 DEF CloseScheduler, StopBegins, closeVars, configVars, queueVars
  <2>2. stop'[s] = "grace"
    BY <1>0, <1>10 DEF CloseScheduler, StopBegins, SchedTypeOK
  <2>3. "scheduler" \in open /\ NextCloser' = "scheduler"
    BY <1>1, <2>1, SchedulerFirst
  <2> QED
    BY <2>1, <2>2, <2>3 DEF CloserTells
<1>11. ASSUME NEW c, c = NextCloser, Finish(c), main \in {"closing", "waiting"},
              UNCHANGED <<started, consumer>>
       PROVE  CloserTells'
  <2>1. open' = open \ {c} /\ main' \in {"done", "closing"}
    BY <1>11 DEF Finish
  <2>2. "scheduler" \notin open'
    BY <1>11, <2>1, SchedulerFirst
  <2> QED
    BY <1>11, <2>1, <2>2 DEF CloserTells
<1>12. ASSUME NEW s \in Stoppers, SchedulerClosed(s) PROVE CloserTells'
  BY <1>11, <1>12 DEF SchedulerClosed, StopReturns, queueVars
<1>13. CASE CloseQueue
  <2>1. /\ main = "closing" /\ main' = "waiting" /\ NextCloser = "queue"
        /\ UNCHANGED <<open, driver, started, stop, consumer>>
        /\ queueDone' = (driver = "memory")
    BY <1>13 DEF CloseQueue, schedVars, closeVars, configVars
  <2>2. "scheduler" \notin open /\ NextCloser' = "queue"
    BY <1>1, <2>1, SchedulerFirst
  <2> QED
    BY <2>1, <2>2 DEF CloserTells
<1>14. CASE QueueClosed
  BY <1>11, <1>14 DEF QueueClosed, schedVars, queueVars
<1>15. CASE CloseOther
  <2>1. NextCloser \notin {"scheduler", "queue", "db"} /\ Finish(NextCloser) /\ main = "closing"
        /\ UNCHANGED <<started, consumer>>
    BY <1>15 DEF CloseOther, schedVars, queueVars
  <2> QED
    BY <1>11, <2>1
<1>16. ASSUME NEW s \in Stoppers, GraceExpires(s), UNCHANGED lifeVars PROVE CloserTells'
  <2>1. stop[s] = "grace" /\ stop'[s] = "drain" /\ \A r \in Stoppers \ {s} : stop'[r] = stop[r]
    BY <1>0, <1>16 DEF GraceExpires, SchedTypeOK
  <2>2. UNCHANGED <<open, main, driver, started, consumer, queueDone>>
    BY <1>16 DEF GraceExpires, lifeVars, closeVars, configVars, queueVars
  <2> QED
    BY <1>1, <2>1, <2>2 DEF CloserTells
<1>17. CASE (Watch \/ \E t \in Tasks : SchedTaskStep(t)) /\ UNCHANGED lifeVars
  BY <1>2, <1>17
     DEF Watch, SchedTaskStep, TickerFires, LoopQuit, LoopRun, RunEnds, lifeVars, closeVars,
         configVars, queueVars
<1>18. CASE CloseDatabase
  <2>1. /\ main = "closing" /\ main' = "waiting" /\ NextCloser = "db"
        /\ UNCHANGED <<open, driver, started, stop, consumer>>
    BY <1>18 DEF CloseDatabase, schedVars, closeVars, configVars, queueVars
  <2>2. "scheduler" \notin open /\ NextCloser' = "db"
    BY <1>1, <2>1, SchedulerFirst
  <2> QED
    BY <2>1, <2>2 DEF CloserTells
<1>19. CASE DatabaseClosed
  BY <1>11, <1>19 DEF DatabaseClosed, schedVars, queueVars
<1> QED
  BY <1>3, <1>4, <1>5, <1>6, <1>7, <1>8, <1>9, <1>10, <1>12, <1>13, <1>14, <1>15, <1>16, <1>17,
     <1>18, <1>19
     DEF Next

LEMMA TellsNeverStuck ==
  ASSUME Stoppers # {}, LifeInv, StopTells, CloserTells
  PROVE  ShutdownNeverStuck
<1> SUFFICES ASSUME main \in {"closing", "waiting"}
             PROVE  ShutdownGoesOn
                    \/ (/\ main = "waiting" /\ NextCloser = "queue"
                        /\ driver = "redis" /\ ~cancelled /\ consumer = "idle")
  BY DEF ShutdownNeverStuck
<1>0. /\ consumer \in {"none", "idle", "busy", "exited"} /\ driver \in {"memory", "redis"}
      /\ loop \in [Tasks -> {"none", "select", "running", "exited"}]
  BY DEF LifeInv, SchedInv, TypeOK, SchedTypeOK
<1>1. /\ started /\ consumer # "none" /\ NextCloser \in open
      /\ "scheduler" \in open <=> NextCloser = "scheduler"
  BY SchedulerFirst DEF CloserTells
<1>2. CASE main = "closing" /\ NextCloser = "scheduler"
  <2>1. \A s \in Stoppers : stop[s] = "none"
    BY <1>1, <1>2 DEF CloserTells
  <2> QED
    BY <1>1, <1>2, <2>1 DEF ShutdownGoesOn
<1>3. CASE main = "closing" /\ NextCloser # "scheduler"
  BY <1>1, <1>3 DEF ShutdownGoesOn
<1>4. CASE main = "waiting" /\ NextCloser = "scheduler"
  <2>1. PICK s \in Stoppers : stop[s] \in {"grace", "drain"}
    BY <1>1, <1>4 DEF CloserTells
  <2>2. ASSUME stop[s] = "drain", ~Drained
        PROVE  \E t \in Tasks : \/ loop[t] = "select" /\ quit
                                \/ loop[t] = "running" /\ runCtxDone
    <3>1. PICK t \in Tasks : loop[t] # "exited"
      BY <2>2 DEF Drained
    <3>2. loop[t] \in {"select", "running"}
      BY <1>0, <1>1, <3>1 DEF StopTells
    <3>3. quit /\ runCtxDone
      BY <2>2 DEF StopTells
    <3> QED
      BY <3>2, <3>3
  <2>3. SchedulerGoesOn
    BY <2>1, <2>2 DEF SchedulerGoesOn
  <2> QED
    BY <1>4, <2>3 DEF ShutdownGoesOn
<1>5. CASE main = "waiting" /\ NextCloser # "scheduler"
  <2>1. NextCloser = "db" \/ (NextCloser = "queue" /\ (driver = "memory" => queueDone))
    BY <1>1, <1>5 DEF CloserTells
  <2>2. ASSUME NextCloser = "db" PROVE DatabaseGoesOn
    <3>1. server \in {"shutdown", "failed"}
      BY <1>5 DEF LifeInv, MainKnows, TypeOK
    <3>2. timedOut \/ server = "failed" \/ \A r \in Requests : request[r] # "querying"
      BY <3>1 DEF LifeInv, RequestsOver, InFlight
    <3> QED
      BY <1>5, <2>2, <3>2 DEF DatabaseGoesOn, Admits
  <2>3. NextCloser = "db" \/ ConsumerGoesOn \/ (driver = "redis" /\ ~cancelled /\ consumer = "idle")
    BY <1>0, <1>1, <2>1 DEF ConsumerGoesOn
  <2> QED
    BY <1>5, <2>1, <2>2, <2>3 DEF ShutdownGoesOn
<1> QED
  BY <1>2, <1>3, <1>4, <1>5

\* Whatever the drivers, the tasks and the requests: a closer that waits is always
\* waiting for a step that can be taken, except for the consumer of a Redis queue
\* after a shutdown that no signal began.
THEOREM ShutdownDoesNotDeadlock ==
  ASSUME Stoppers # {}
  PROVE  Spec => []ShutdownNeverStuck
<1>1. Init => StopTells /\ CloserTells
  BY DEF Init, SchedInit, StopTells, CloserTells
<1>2. LifeInv /\ StopTells /\ [Next]_vars => StopTells'
  BY StopTellsStep, StepImplements DEF LifeInv, SchedInv
<1>3. LifeInv /\ StopTells /\ CloserTells => ShutdownNeverStuck
  BY TellsNeverStuck
<1> QED
  BY <1>1, <1>2, <1>3, LifeInitInv, LifeStep, CloserTellsStep, PTL DEF Spec
=============================================================================
