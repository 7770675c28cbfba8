----------------------------- MODULE MemoryQueue -----------------------------
(***************************************************************************)
(* The in-process queue, src/pkg/queue/memory.go: one buffered channel and *)
(* one consumer goroutine per topic.  Topics share nothing but the context *)
(* and the done channel, so one topic is modelled.  The module also says   *)
(* what a Publish does to its caller, which blocks while the buffer is     *)
(* full.                                                                   *)
(***************************************************************************)
EXTENDS Naturals, Sequences

CONSTANTS
    Messages,     \* messages, each published by a call of its own
    Capacity,     \* bufSize
    MaxAttempts,  \* RetryPolicy.MaxAttempts
    None

VARIABLES
    publish,    \* the Publish call of each message
    accepted,   \* the messages this process took into the channel, in order
    taken,      \* how many of them the consumer has received
    consumer,   \* where the consumer goroutine is
    current,    \* the message it dispatches
    tries,      \* msg.Attempts
    fate,       \* how the queue was done with a message
    cancelled,  \* the context given to Start is cancelled
    closed      \* Close: not called, waiting, returned

vars == <<publish, accepted, taken, consumer, current, tries, fate, cancelled,
          closed>>

\* the content of the channel
Buffer == SubSeq(accepted, taken + 1, Len(accepted))

Limit == IF MaxAttempts = 0 THEN 1 ELSE MaxAttempts

\* every variable keeps its type
TypeOK ==
    /\ publish \in [Messages -> {"none", "sending", "sent", "failed"}]
    /\ accepted \in Seq(Messages)
    /\ taken \in 0..Len(accepted) /\ Len(Buffer) <= Capacity
    /\ consumer \in {"none", "idle", "handling", "backoff", "exited"}
    /\ current \in Messages \cup {None}
    /\ tries \in [Messages -> 0..Limit]
    /\ fate \in [Messages -> {"none", "done", "dropped", "lost"}]
    /\ cancelled \in BOOLEAN
    /\ closed \in {"no", "waiting", "returned"}

Init ==
    /\ publish = [m \in Messages |-> "none"]
    /\ accepted = <<>> /\ taken = 0
    /\ consumer = "none" /\ current = None
    /\ tries = [m \in Messages |-> 0]
    /\ fate = [m \in Messages |-> "none"]
    /\ cancelled = FALSE /\ closed = "no"

-----------------------------------------------------------------------------
(* Publish.                                                                *)

PublishCalled(m) ==
    /\ publish[m] = "none"
    /\ publish' = [publish EXCEPT ![m] = "sending"]
    /\ UNCHANGED <<accepted, taken, consumer, current, tries, fate, cancelled,
                   closed>>

Send(m) ==
    /\ publish[m] = "sending" /\ Len(Buffer) < Capacity
    /\ publish' = [publish EXCEPT ![m] = "sent"]
    /\ accepted' = Append(accepted, m)
    /\ UNCHANGED <<taken, consumer, current, tries, fate, cancelled, closed>>

\* the context of the caller is done
PublishGivesUp(m) ==
    /\ publish[m] = "sending"
    /\ publish' = [publish EXCEPT ![m] = "failed"]
    /\ UNCHANGED <<accepted, taken, consumer, current, tries, fate, cancelled,
                   closed>>

-----------------------------------------------------------------------------
(* The consumer.                                                           *)

StartConsumer ==
    /\ consumer = "none"
    /\ consumer' = "idle"
    /\ UNCHANGED <<publish, accepted, taken, current, tries, fate, cancelled,
                   closed>>

Cancel ==
    /\ ~cancelled
    /\ cancelled' = TRUE
    /\ UNCHANGED <<publish, accepted, taken, consumer, current, tries, fate,
                   closed>>

Stopping == cancelled \/ closed # "no"

Receive ==
    /\ consumer = "idle" /\ Buffer # <<>>
    /\ consumer' = "handling"
    /\ current' = Head(Buffer)
    /\ taken' = taken + 1
    /\ UNCHANGED <<publish, accepted, tries, fate, cancelled, closed>>

Dispatched(f) ==
    /\ fate' = [fate EXCEPT ![current] = f]
    /\ current' = None
    /\ consumer' = "idle"

HandlerSucceeds ==
    /\ consumer = "handling"
    /\ tries' = [tries EXCEPT ![current] = @ + 1]
    /\ Dispatched("done")
    /\ UNCHANGED <<publish, accepted, taken, cancelled, closed>>

\* mutant: the message waits for its retry behind the next ones
HandlerFailsAside ==
    /\ consumer = "handling"
    /\ tries' = [tries EXCEPT ![current] = @ + 1]
    /\ IF tries[current] + 1 >= MaxAttempts
       THEN Dispatched("dropped") /\ UNCHANGED <<accepted>>
       ELSE /\ accepted' = Append(accepted, current)
            /\ current' = None /\ consumer' = "idle" /\ UNCHANGED fate
    /\ UNCHANGED <<publish, taken, cancelled, closed>>

HandlerFails ==
    /\ consumer = "handling"
    /\ tries' = [tries EXCEPT ![current] = @ + 1]
    /\ IF tries[current] + 1 >= MaxAttempts
       THEN Dispatched("dropped")
       ELSE consumer' = "backoff" /\ UNCHANGED <<fate, current>>
    /\ UNCHANGED <<publish, accepted, taken, cancelled, closed>>

BackoffElapses ==
    /\ consumer = "backoff"
    /\ consumer' = "handling"
    /\ UNCHANGED <<publish, accepted, taken, current, tries, fate, cancelled,
                   closed>>

BackoffInterrupted ==
    /\ consumer = "backoff" /\ Stopping
    /\ Dispatched("lost")
    /\ UNCHANGED <<publish, accepted, taken, tries, cancelled, closed>>

\* mutant: the loop looks at the context only
ConsumerExitsOnCancel ==
    /\ consumer = "idle" /\ cancelled
    /\ consumer' = "exited"
    /\ UNCHANGED <<publish, accepted, taken, current, tries, fate, cancelled,
                   closed>>

\* with a message ready as well, select takes either
ConsumerExits ==
    /\ consumer = "idle" /\ Stopping
    /\ consumer' = "exited"
    /\ UNCHANGED <<publish, accepted, taken, current, tries, fate, cancelled,
                   closed>>

CloseCalled ==
    /\ closed = "no"
    /\ closed' = "waiting"
    /\ UNCHANGED <<publish, accepted, taken, consumer, current, tries, fate,
                   cancelled>>

CloseReturns ==
    /\ closed = "waiting" /\ consumer \in {"none", "exited"}
    /\ closed' = "returned"
    /\ UNCHANGED <<publish, accepted, taken, consumer, current, tries, fate,
                   cancelled>>

\* the process ends, by itself or by a crash, and another one takes its place
ProcessReplaced ==
    /\ publish' = [m \in Messages |-> IF publish[m] = "sending" THEN "failed"
                                                                ELSE publish[m]]
    /\ fate' = [m \in Messages |->
                  IF publish[m] = "sent" /\ fate[m] = "none" THEN "lost"
                                                             ELSE fate[m]]
    /\ accepted' = <<>> /\ taken' = 0
    /\ consumer' = "none" /\ current' = None
    /\ cancelled' = FALSE /\ closed' = "no"
    /\ UNCHANGED tries

Next ==
    \/ \E m \in Messages : PublishCalled(m) \/ Send(m) \/ PublishGivesUp(m)
    \/ StartConsumer \/ Cancel \/ Receive
    \/ HandlerSucceeds \/ HandlerFails
    \/ BackoffElapses \/ BackoffInterrupted
    \/ ConsumerExits \/ CloseCalled \/ CloseReturns
    \/ ProcessReplaced

Spec == Init /\ [][Next]_vars

(***************************************************************************)
(* The runtime schedules the goroutines and the timers; handlers return,   *)
(* as the only one registered (container.go, registerJobs) does.  Nothing  *)
(* is assumed of callers, of cancellation and of handlers' results.  An    *)
(* exit that stays ready is not passed over for ever by the select.        *)
(***************************************************************************)
Consumes == Receive \/ HandlerSucceeds \/ HandlerFails \/ BackoffElapses

Fairness ==
    /\ \A m \in Messages : SF_vars(Send(m))
    /\ WF_vars(Consumes) /\ SF_vars(ConsumerExits)
    /\ WF_vars(CloseReturns)

FairSpec == Spec /\ Fairness

-----------------------------------------------------------------------------
(* Properties.                                                             *)

(***************************************************************************)
(* The abstract queue, not durable: attempts are bounded, a settled message *)
(* is never handled again and nothing is handled that was not published,   *)
(* across retries, stops and new processes.                                *)
(***************************************************************************)
Promise == INSTANCE JobQueue WITH
    Durable <- FALSE,
    state <- [m \in Messages |->
                IF fate[m] # "none" THEN fate[m]
                ELSE IF m = current THEN "held"
                ELSE IF publish[m] = "sent" THEN "waiting" ELSE "unsent"]

ImplementsJobQueue == Promise!Spec

(***************************************************************************)
(* A message is not begun before every message accepted earlier by this    *)
(* process is settled: retries hold the later ones up and never let them   *)
(* overtake.                                                               *)
(***************************************************************************)
HandledInOrder ==
    \A i, j \in 1..Len(accepted) :
        i < j /\ tries[accepted[j]] > 0 => fate[accepted[i]] # "none"

(***************************************************************************)
(* A publisher that meets a full buffer is not stuck while the consumer    *)
(* runs: even handlers that always fail make room in the end.  (Once the   *)
(* queue stops it is stuck until its own context ends.)                    *)
(***************************************************************************)
PublishEnds ==
    \A m \in Messages :
        publish[m] = "sending" /\ consumer # "none"
            ~> publish[m] # "sending" \/ Stopping \/ consumer = "none"

(***************************************************************************)
(* Close returns, also when no context is ever cancelled (the comment of   *)
(* Close in memory.go), whatever waits in the buffer.                      *)
(***************************************************************************)
CloseEnds == closed = "waiting" ~> closed # "waiting"
=============================================================================
