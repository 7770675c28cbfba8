--------------------------- MODULE SessionPromise ---------------------------
(***************************************************************************)
(* What one assistant session promises of the actions the user begins, an  *)
(* action being named by the message that began it.  An action is new,     *)
(* then open while the session or a request has it, and ends in one of     *)
(* three ways that are final: it was run, it was refused, it was dropped.  *)
(* A save is about one action and drops no other but the one whose place   *)
(* it takes; a request that ends without a save leaves the session alone.  *)
(* Only an action that two requests held at once, or that ran in a request *)
(* which then failed, is disturbed: nothing is promised of it any more.    *)
(***************************************************************************)
CONSTANTS
    Actions,     \* messages, and the actions they may begin
    Arguments    \* the names of arguments

VARIABLES
    repeats,  \* a task of Composio is run again in each of its turns
    stage,    \* of each action
    session,  \* the action the session remembers, if any
    lacks,    \* the arguments an open action lacks
    doubtful, \* those it has that may turn out to be no answer
    runs      \* the executions: which request ran which action

vars == <<repeats, stage, session, lacks, doubtful, runs>>

Stages == {"new", "open", "ran", "refused", "dropped", "disturbed"}

Init ==
    /\ repeats \in BOOLEAN
    /\ stage = [o \in Actions |-> "new"]
    /\ session = {}
    /\ lacks = [o \in Actions |-> {}]
    /\ doubtful = [o \in Actions |-> {}]
    /\ runs = {}

\* what may be run or remembered
Lives(o) == stage[o] \in {"new", "open", "disturbed"} \cup (IF repeats THEN {"ran"} ELSE {})

\* an answer that was given is not asked for again, but for a doubtful one, which is
\* then given up; only what was lacking can be answered doubtfully
Answers ==
    /\ lacks' \in [Actions -> SUBSET Arguments]
    /\ doubtful' \in [Actions -> SUBSET Arguments]
    /\ \A o \in Actions : stage[o] = "open" =>
          /\ lacks'[o] \subseteq lacks[o] \cup (doubtful[o] \ doubtful'[o])
          /\ doubtful'[o] \subseteq doubtful[o] \cup lacks[o]

Run(m, o) ==
    /\ Lives(o)
    /\ runs' = runs \cup {<<m, o>>}
    /\ stage' = [stage EXCEPT ![o] = IF @ = "disturbed" THEN @ ELSE "ran"]
    /\ UNCHANGED <<repeats, session, lacks, doubtful>>

Drops(o) == stage[o] \in {"new", "open"} /\ stage'[o] = "dropped"

Refuses(o) == /\ stage[o] \in {"open"} \cup (IF repeats THEN {"ran"} ELSE {})
              /\ stage'[o] = "refused"

\* message m, about action s, writes the session
Save(m, s) ==
    /\ session' \in {{}, {s}}
    /\ stage' \in [Actions -> Stages]
    /\ \A o \in session' :
         Lives(o) /\ stage'[o] = IF stage[o] = "new" THEN "open" ELSE stage[o]
    /\ \A o \in Actions \ session' :
         \/ stage'[o] = stage[o]
         \/ o \in {m, s} \cup session /\ Drops(o)
         \/ o = s /\ Refuses(o)
    /\ Answers
    /\ UNCHANGED <<repeats, runs>>

\* message m, about action s, ends without a save
End(m, s) ==
    /\ stage' \in [Actions -> Stages]
    /\ \A o \in Actions :
         \/ stage'[o] = stage[o]
         \/ o \in {m, s} \ session /\ Drops(o)
         \/ o = s /\ stage[o] = "ran" /\ stage'[o] = "disturbed"
    /\ Answers
    /\ UNCHANGED <<repeats, session, runs>>

\* a second request takes up what the session remembers
Share(o) ==
    /\ o \in session
    /\ stage' = [stage EXCEPT ![o] = "disturbed"]
    /\ UNCHANGED <<repeats, session, lacks, doubtful, runs>>

Next == \E m, o \in Actions : Run(m, o) \/ Save(m, o) \/ End(m, o) \/ Share(o)

Spec == Init /\ [][Next]_vars
=============================================================================
