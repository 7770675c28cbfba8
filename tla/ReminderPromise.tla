--------------------------- MODULE ReminderPromise ---------------------------
(***************************************************************************)
(* What the reminder component promises of the status of its reminders,    *)
(* with no rows, copies or stamps in sight: an operation begins on         *)
(* reminders whose status admits it, and takes effect on each of them once *)
(* or not at all, however much later that is and whatever happened to the  *)
(* reminder in between.  Its effect is the status it stands for.  Nothing  *)
(* makes a reminder pending but its creation, nothing touches one that was *)
(* removed, and one dispatcher notifies of a reminder once.                *)
(***************************************************************************)
CONSTANTS
    Ids,          \* reminders
    Workers,      \* goroutines serving requests
    Dispatchers   \* one per application instance

VARIABLES
    status,  \* of each reminder
    op,      \* the operation each process is about
    hands,   \* the reminders it has still to take effect on
    told     \* the reminders each dispatcher has notified of

vars == <<status, op, hands, told>>

Procs == Workers \cup Dispatchers

Stored == {"pending", "notified", "triggered", "cancelled"}

Init ==
    /\ status = [id \in Ids |-> "unborn"]
    /\ op = [p \in Procs |-> "idle"]
    /\ hands = [p \in Procs |-> {}]
    /\ told = [d \in Dispatchers |-> {}]

Create(id) ==
    /\ status[id] = "unborn"
    /\ status' = [status EXCEPT ![id] = "pending"]
    /\ UNCHANGED <<op, hands, told>>

\* Cancel and MarkTriggered refuse only what they have already done
Admits(o) == CASE o = "notify"  -> {"pending"}
               [] o = "deliver" -> {"notified"}
               [] o = "cancel"  -> Stored \ {"cancelled"}
               [] o = "trigger" -> Stored \ {"triggered"}

Begin(p, o, S) ==
    /\ op[p] = "idle" /\ S # {}
    /\ p \in Dispatchers <=> o = "notify"
    /\ \A id \in S : status[id] \in Admits(o)
    /\ op' = [op EXCEPT ![p] = o]
    /\ hands' = [hands EXCEPT ![p] = S]
    /\ UNCHANGED <<status, told>>

\* an acknowledgement leaves the status it asked for
Effect(o) == CASE o = "notify"  -> "notified"
               [] o = "deliver" -> "notified"
               [] o = "cancel"  -> "cancelled"
               [] o = "trigger" -> "triggered"

Puts(p, S) ==
    /\ hands' = [hands EXCEPT ![p] = S]
    /\ op' = IF S = {} THEN [op EXCEPT ![p] = "idle"] ELSE op

TakeEffect(p, id) ==
    /\ id \in hands[p] /\ status[id] \in Stored
    /\ status' = [status EXCEPT ![id] = Effect(op[p])]
    /\ Puts(p, hands[p] \ {id})
    /\ IF p \in Dispatchers
       THEN id \notin told[p] /\ told' = [told EXCEPT ![p] = @ \cup {id}]
       ELSE UNCHANGED told

\* the rest of an operation is given up
GiveUp(p) ==
    /\ op[p] # "idle"
    /\ Puts(p, {})
    /\ UNCHANGED <<status, told>>

Remove(S) ==
    /\ \A id \in S : status[id] \in Stored
    /\ status' = [id \in Ids |-> IF id \in S THEN "purged" ELSE status[id]]
    /\ UNCHANGED <<op, hands, told>>

Next ==
    \/ \E id \in Ids : Create(id)
    \/ \E p \in Procs, o \in {"notify", "deliver", "cancel", "trigger"} :
         \E S \in SUBSET Ids : Begin(p, o, S)
    \/ \E p \in Procs : GiveUp(p) \/ \E id \in Ids : TakeEffect(p, id)
    \/ \E S \in SUBSET Ids : Remove(S)

Spec == Init /\ [][Next]_vars
=============================================================================
