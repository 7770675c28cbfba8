------------------------------ MODULE Scheduler ------------------------------
(***************************************************************************)
(* The periodic task scheduler, src/pkg/worker/scheduler.go: one goroutine *)
(* per registered task that selects between the closed quit channel and    *)
(* its ticker, a watcher that turns the cancelled lifecycle context into a *)
(* stop, and any number of calls of Stop.                                  *)
(***************************************************************************)
EXTENDS Naturals, FiniteSets

CONSTANTS
    Tasks,     \* registered tasks
    Stoppers   \* goroutines that call Stop, each at most once

VARIABLES
    started,    \* Start has been called
    cancelled,  \* the lifecycle context given to Start is cancelled
    quit,       \* the quit channel is closed
    runCtxDone, \* the context of the task runs is cancelled
    loop,       \* where the goroutine of each task is
    ticked,     \* a tick waits in the ticker's channel, which holds one
    stop        \* where each call of Stop is

schedVars == <<started, cancelled, quit, runCtxDone, loop, ticked, stop>>

\* every variable keeps its type
SchedTypeOK ==
    /\ started \in BOOLEAN /\ cancelled \in BOOLEAN /\ quit \in BOOLEAN
    /\ runCtxDone \in BOOLEAN
    /\ loop \in [Tasks -> {"none", "select", "running", "exited"}]
    /\ ticked \in [Tasks -> BOOLEAN]
    /\ stop \in [Stoppers -> {"none", "grace", "drain", "returned"}]

SchedInit ==
    /\ started = FALSE /\ cancelled = FALSE /\ quit = FALSE
    /\ runCtxDone = FALSE
    /\ loop = [t \in Tasks |-> "none"]
    /\ ticked = [t \in Tasks |-> FALSE]
    /\ stop = [s \in Stoppers |-> "none"]

Start ==
    /\ ~started
    /\ started' = TRUE
    /\ loop' = [t \in Tasks |-> "select"]
    /\ UNCHANGED <<cancelled, quit, runCtxDone, ticked, stop>>

\* SIGTERM
CancelLifecycle ==
    /\ ~cancelled
    /\ cancelled' = TRUE
    /\ UNCHANGED <<started, quit, runCtxDone, loop, ticked, stop>>

\* the watcher goroutine that Start leaves behind
Watch ==
    /\ started /\ cancelled /\ ~quit
    /\ quit' = TRUE
    /\ UNCHANGED <<started, cancelled, runCtxDone, loop, ticked, stop>>

\* the ticker drops a tick nobody has taken
TickerFires(t) ==
    /\ loop[t] \in {"select", "running"}
    /\ ~ticked[t]
    /\ ticked' = [ticked EXCEPT ![t] = TRUE]
    /\ UNCHANGED <<started, cancelled, quit, runCtxDone, loop, stop>>

\* select, with both channels ready, takes either
LoopQuit(t) ==
    /\ loop[t] = "select" /\ quit
    /\ loop' = [loop EXCEPT ![t] = "exited"]
    /\ UNCHANGED <<started, cancelled, quit, runCtxDone, ticked, stop>>

LoopRun(t) ==
    /\ loop[t] = "select" /\ ticked[t]
    /\ loop' = [loop EXCEPT ![t] = "running"]
    /\ ticked' = [ticked EXCEPT ![t] = FALSE]
    /\ UNCHANGED <<started, cancelled, quit, runCtxDone, stop>>

\* the task returns; its error is only logged
RunEnds(t) ==
    /\ loop[t] = "running"
    /\ loop' = [loop EXCEPT ![t] = "select"]
    /\ UNCHANGED <<started, cancelled, quit, runCtxDone, ticked, stop>>

\* wg.Wait has nothing left to wait for
Drained == \A t \in Tasks : loop[t] = "exited"

StopBegins(s) ==
    /\ started
    /\ stop[s] = "none"
    /\ stop' = [stop EXCEPT ![s] = "grace"]
    /\ quit' = TRUE
    /\ UNCHANGED <<started, cancelled, runCtxDone, loop, ticked>>

\* the grace period of this call expires first
GraceExpires(s) ==
    /\ stop[s] = "grace"
    /\ stop' = [stop EXCEPT ![s] = "drain"]
    /\ runCtxDone' = TRUE
    /\ UNCHANGED <<started, cancelled, quit, loop, ticked>>

\* mutant: Stop gives up once it has cancelled the runs
StopReturnsAfterGrace(s) ==
    /\ \/ stop[s] = "grace" /\ Drained
       \/ stop[s] = "drain"
    /\ stop' = [stop EXCEPT ![s] = "returned"]
    /\ UNCHANGED <<started, cancelled, quit, runCtxDone, loop, ticked>>

StopReturns(s) ==
    /\ stop[s] \in {"grace", "drain"}
    /\ Drained
    /\ stop' = [stop EXCEPT ![s] = "returned"]
    /\ UNCHANGED <<started, cancelled, quit, runCtxDone, loop, ticked>>

SchedTaskStep(t) == TickerFires(t) \/ LoopQuit(t) \/ LoopRun(t) \/ RunEnds(t)

SchedNext ==
    \/ Start \/ CancelLifecycle \/ Watch
    \/ \E t \in Tasks : SchedTaskStep(t)
    \/ \E s \in Stoppers : StopBegins(s) \/ GraceExpires(s) \/ StopReturns(s)

SchedSpec == SchedInit /\ [][SchedNext]_schedVars

(***************************************************************************)
(* Once any call of Stop has returned, no task runs and none ever will:    *)
(* the caller may close what the tasks use.                                *)
(***************************************************************************)
QuietAfterStop ==
    (\E s \in Stoppers : stop[s] = "returned") =>
        \A t \in Tasks : loop[t] = "exited"

(***************************************************************************)
(* A run is not cancelled from outside while a Stop still has grace and    *)
(* none has used its grace up: cancelling the lifecycle context alone      *)
(* leaves the run in flight its context.                                   *)
(***************************************************************************)
GraceRespected ==
    runCtxDone => \E s \in Stoppers : stop[s] \in {"drain", "returned"}

(***************************************************************************)
(* What a caller of Stop may rely on: quiet after it returns, and until    *)
(* then no run is cut short before its grace is over.                      *)
(***************************************************************************)
StopIsRespected == QuietAfterStop /\ GraceRespected
=============================================================================
