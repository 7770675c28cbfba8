----------------------------- MODULE RedisQueue -----------------------------
(***************************************************************************)
(* The queue over a Redis stream, src/pkg/queue/redis.go: processes read   *)
(* batches of new entries through one consumer group, dispatch the entries *)
(* of a batch one after the other, and acknowledge each.  The stream and   *)
(* the group's pending entries are Redis' (external); every start of a     *)
(* process uses a consumer name of its own, so nobody reads the pending    *)
(* entries of an earlier one.                                              *)
(***************************************************************************)
EXTENDS Naturals, Sequences

CONSTANTS
    Messages,     \* messages of one topic
    Procs,        \* processes that consume
    Count,        \* entries read at once (16 in the code)
    MaxAttempts   \* RetryPolicy.MaxAttempts

VARIABLES
    published,  \* entries appended to the stream
    fresh,      \* those after the group's last delivered entry, in order
    pending,    \* the group's pending entries
    proc,       \* where the consumer goroutine of each process is
    batch,      \* the entries it has read and not yet left behind
    cancelled,  \* its context is cancelled
    tries,      \* msg.Attempts
    fate        \* the verdict on an entry: handled or given up

vars == <<published, fresh, pending, proc, batch, cancelled, tries, fate>>
stream == <<published, fresh>>

Limit == IF MaxAttempts = 0 THEN 1 ELSE MaxAttempts

\* every variable keeps its type
TypeOK ==
    /\ published \subseteq Messages /\ pending \subseteq published
    /\ fresh \in Seq(Messages)
    /\ proc \in [Procs -> {"down", "idle", "reading", "handling", "acking",
                           "backoff"}]
    /\ batch \in [Procs -> Seq(Messages)]
    /\ cancelled \in [Procs -> BOOLEAN]
    /\ tries \in [Messages -> 0..Limit]
    /\ fate \in [Messages -> {"none", "done", "dropped"}]

Init ==
    /\ published = {} /\ fresh = <<>> /\ pending = {}
    /\ proc = [p \in Procs |-> "down"]
    /\ batch = [p \in Procs |-> <<>>]
    /\ cancelled = [p \in Procs |-> FALSE]
    /\ tries = [m \in Messages |-> 0]
    /\ fate = [m \in Messages |-> "none"]

\* XADD reached Redis, whatever the caller was told
Publish(m) ==
    /\ m \notin published
    /\ published' = published \cup {m}
    /\ fresh' = Append(fresh, m)
    /\ UNCHANGED <<pending, proc, batch, cancelled, tries, fate>>

-----------------------------------------------------------------------------
(* A process.                                                              *)

Goto(p, where) == proc' = [proc EXCEPT ![p] = where]

StartProc(p) ==
    /\ proc[p] = "down"
    /\ Goto(p, "idle")
    /\ cancelled' = [cancelled EXCEPT ![p] = FALSE]
    /\ UNCHANGED <<stream, pending, batch, tries, fate>>

Cancel(p) ==
    /\ proc[p] # "down" /\ ~cancelled[p]
    /\ cancelled' = [cancelled EXCEPT ![p] = TRUE]
    /\ UNCHANGED <<stream, pending, proc, batch, tries, fate>>

\* mutant: a plain read of the stream, which moves no group along
ReadShared(p) ==
    /\ proc[p] = "idle" /\ ~cancelled[p] /\ fresh # <<>>
    /\ batch' = [batch EXCEPT ![p] = <<Head(fresh)>>]
    /\ pending' = pending \cup {Head(fresh)}
    /\ Goto(p, "reading")
    /\ UNCHANGED <<stream, cancelled, tries, fate>>

\* XREADGROUP with ">": Redis delivers new entries and makes them pending
Read(p) ==
    /\ proc[p] = "idle" /\ ~cancelled[p] /\ fresh # <<>>
    /\ LET n == IF Len(fresh) < Count THEN Len(fresh) ELSE Count
           got == SubSeq(fresh, 1, n)
       IN  /\ batch' = [batch EXCEPT ![p] = got]
           /\ fresh' = SubSeq(fresh, n + 1, Len(fresh))
           /\ pending' = pending \cup {got[i] : i \in 1..n}
    /\ Goto(p, "reading")
    /\ UNCHANGED <<published, cancelled, tries, fate>>

ReplyArrives(p) ==
    /\ proc[p] = "reading"
    /\ Goto(p, "handling")
    /\ UNCHANGED <<stream, pending, batch, cancelled, tries, fate>>

\* the loop logs the error and reads again
ReplyLost(p) ==
    /\ proc[p] = "reading"
    /\ Goto(p, "idle")
    /\ batch' = [batch EXCEPT ![p] = <<>>]
    /\ UNCHANGED <<stream, pending, cancelled, tries, fate>>

Current(p) == Head(batch[p])

\* handle returns and the next entry of the batch has its turn
NextEntry(p) ==
    /\ batch' = [batch EXCEPT ![p] = Tail(@)]
    /\ Goto(p, IF Len(batch[p]) = 1 THEN "idle" ELSE "handling")

HandlerSucceeds(p) ==
    /\ proc[p] = "handling"
    /\ tries' = [tries EXCEPT ![Current(p)] = @ + 1]
    /\ fate' = [fate EXCEPT ![Current(p)] = "done"]
    /\ Goto(p, "acking")
    /\ UNCHANGED <<stream, pending, batch, cancelled>>

HandlerFails(p) ==
    /\ proc[p] = "handling"
    /\ tries' = [tries EXCEPT ![Current(p)] = @ + 1]
    /\ IF tries[Current(p)] + 1 >= MaxAttempts
       THEN fate' = [fate EXCEPT ![Current(p)] = "dropped"] /\ Goto(p, "acking")
       ELSE UNCHANGED fate /\ Goto(p, "backoff")
    /\ UNCHANGED <<stream, pending, batch, cancelled>>

\* the client refuses commands under a cancelled context
Ack(p) ==
    /\ proc[p] = "acking" /\ ~cancelled[p]
    /\ pending' = pending \ {Current(p)}
    /\ NextEntry(p)
    /\ UNCHANGED <<stream, cancelled, tries, fate>>

\* its error is ignored
AckFails(p) ==
    /\ proc[p] = "acking"
    /\ NextEntry(p)
    /\ UNCHANGED <<stream, pending, cancelled, tries, fate>>

BackoffElapses(p) ==
    /\ proc[p] = "backoff"
    /\ Goto(p, "handling")
    /\ UNCHANGED <<stream, pending, batch, cancelled, tries, fate>>

\* mutant: an entry whose retry is given up is acknowledged
BackoffAcknowledges(p) ==
    /\ proc[p] = "backoff" /\ cancelled[p]
    /\ pending' = pending \ {Current(p)}
    /\ NextEntry(p)
    /\ UNCHANGED <<stream, cancelled, tries, fate>>

BackoffInterrupted(p) ==
    /\ proc[p] = "backoff" /\ cancelled[p]
    /\ NextEntry(p)
    /\ UNCHANGED <<stream, pending, cancelled, tries, fate>>

Gone(p) ==
    /\ Goto(p, "down")
    /\ batch' = [batch EXCEPT ![p] = <<>>]
    /\ UNCHANGED <<stream, pending, cancelled, tries, fate>>

ConsumerExits(p) == proc[p] = "idle" /\ cancelled[p] /\ Gone(p)

Crash(p) == proc[p] # "down" /\ Gone(p)

Step(p) ==
    \/ StartProc(p) \/ Cancel(p)
    \/ Read(p) \/ ReplyArrives(p) \/ ReplyLost(p)
    \/ HandlerSucceeds(p) \/ HandlerFails(p)
    \/ Ack(p) \/ AckFails(p)
    \/ BackoffElapses(p) \/ BackoffInterrupted(p)
    \/ ConsumerExits(p) \/ Crash(p)

Next == (\E m \in Messages : Publish(m)) \/ (\E p \in Procs : Step(p))

Spec == Init /\ [][Next]_vars

(***************************************************************************)
(* A consumer goroutine keeps going: Redis answers or fails, handlers      *)
(* return, timers fire.  Nothing is assumed of starts, stops, crashes,     *)
(* results of handlers, or which of a reply and its loss it gets.          *)
(***************************************************************************)
KeepsGoing(p) ==
    \/ Read(p) \/ ReplyArrives(p) \/ ReplyLost(p)
    \/ HandlerSucceeds(p) \/ HandlerFails(p)
    \/ Ack(p) \/ AckFails(p)
    \/ BackoffElapses(p) \/ ConsumerExits(p)

Fairness == \A p \in Procs : WF_vars(KeepsGoing(p))

FairSpec == Spec /\ Fairness

-----------------------------------------------------------------------------
(* Properties.                                                             *)

Held(m) == \E p \in Procs : \E i \in 1..Len(batch[p]) : batch[p][i] = m

Waiting(m) == \E i \in 1..Len(fresh) : fresh[i] = m

(***************************************************************************)
(* An entry has left the pending entries of the group only after a handler *)
(* succeeded on it or its attempts were used up: whatever a stop, a crash  *)
(* or a lost reply leaves behind is still in Redis for an operator.        *)
(***************************************************************************)
AckedOnlyWhenSettled ==
    \A m \in published : Waiting(m) \/ m \in pending \/ fate[m] # "none"

(***************************************************************************)
(* The abstract queue, durable: a process that ends loses what it holds    *)
(* and nothing that waits in the stream.                                   *)
(***************************************************************************)
Promise == INSTANCE JobQueue WITH
    Durable <- TRUE,
    state <- [m \in Messages |->
                IF fate[m] # "none" THEN fate[m]
                ELSE IF Held(m) THEN "held"
                ELSE IF Waiting(m) THEN "waiting"
                ELSE IF m \in published THEN "lost" ELSE "unsent"]

ImplementsJobQueue == Promise!Spec

Orphaned(m) == m \in pending /\ ~Held(m) /\ fate[m] = "none"

\* from some time on a process stays up; the others come and go as they like
SomeoneStaysUp ==
    \E p \in Procs : <>[](proc[p] # "down" /\ ~cancelled[p])

(***************************************************************************)
(* While some process stays up nothing waits or is held for ever: every    *)
(* entry is settled, or orphaned by a stop or by a lost reply.             *)
(***************************************************************************)
NeverStuck ==
    SomeoneStaysUp =>
        \A m \in Messages :
            m \in published ~> fate[m] # "none" \/ Orphaned(m)

(***************************************************************************)
(* The comment of RedisQueue: messages that "remain pending" are           *)
(* "reclaimed by other consumers".                                         *)
(***************************************************************************)
OrphansAreReclaimed ==
    SomeoneStaysUp => \A m \in Messages : Orphaned(m) ~> ~Orphaned(m)
=============================================================================
