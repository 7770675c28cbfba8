------------------------------ MODULE JobQueue ------------------------------
(***************************************************************************)
(* What a Queue of src/pkg/queue/queue.go promises to its users: a         *)
(* published message is handled until it succeeds or its attempts are used *)
(* up, by one consumer at a time, and never again afterwards.  What it     *)
(* does not promise is that every message gets there: a process that ends  *)
(* loses the messages it holds and, unless the queue is durable, those     *)
(* that wait in it.                                                        *)
(***************************************************************************)
EXTENDS Naturals

CONSTANTS
    Messages,     \* messages of one topic
    MaxAttempts,  \* RetryPolicy.MaxAttempts
    Durable       \* waiting messages survive the process

VARIABLES
    state,  \* where each message is
    tries   \* attempts made to handle it (Message.Attempts)

vars == <<state, tries>>

States == {"unsent", "waiting", "held", "done", "dropped", "lost"}

Init ==
    /\ state = [m \in Messages |-> "unsent"]
    /\ tries = [m \in Messages |-> 0]

Move(S, s) == state' = [m \in Messages |-> IF m \in S THEN s ELSE state[m]]

Publish(m) ==
    /\ state[m] = "unsent"
    /\ Move({m}, "waiting")
    /\ UNCHANGED tries

Take(S) ==
    /\ \A m \in S : state[m] = "waiting"
    /\ Move(S, "held")
    /\ UNCHANGED tries

Attempt(m) == tries' = [tries EXCEPT ![m] = @ + 1]

Succeed(m) ==
    /\ state[m] = "held"
    /\ Attempt(m)
    /\ Move({m}, "done")

\* an attempt that fails; the last one gives the message up
Fail(m) ==
    /\ state[m] = "held"
    /\ Attempt(m)
    /\ IF tries[m] + 1 >= MaxAttempts THEN Move({m}, "dropped")
                                      ELSE UNCHANGED state

Lose(S) ==
    /\ \A m \in S : state[m] = "held" \/ (state[m] = "waiting" /\ ~Durable)
    /\ Move(S, "lost")
    /\ UNCHANGED tries

Next ==
    \/ \E m \in Messages : Publish(m) \/ Succeed(m) \/ Fail(m)
    \/ \E S \in SUBSET Messages : Take(S) \/ Lose(S)

Spec == Init /\ [][Next]_vars
=============================================================================
