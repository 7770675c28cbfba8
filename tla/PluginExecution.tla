--------------------------- MODULE PluginExecution ---------------------------
(***************************************************************************)
(* What the assistant runs behind an installed plugin: RoutingExecutor     *)
(* (src/internal/domain/assistant/executor.go) hands a task to the agent   *)
(* of Composio, to one tool of Composio, or to a builtin adapter.  The     *)
(* three share nothing but the clock, so a behaviour follows one plugin.   *)
(*                                                                         *)
(* Without a COMPOSIO_API_KEY there is no ComposioExecutor and no calendar *)
(* look-up (container.go): a meeting is then "booked" by the StubExecutor. *)
(***************************************************************************)
EXTENDS ComposioAgent, MeetingBooking, SpokenReminders

VARIABLES
    plug,  \* the plugin a behaviour is about
    wired  \* COMPOSIO_API_KEY is set

executionVars == <<plug, wired, agentVars, bookingVars, reminderVars>>

Executors == {"composio_mcp", "composio", "builtin", "stub"}

\* Manifest.Executor.Type of the plugins of the catalog
ExecutorType == [composio_ai |-> "composio_mcp", meet |-> "composio", reminder |-> "builtin"]

\* RoutingExecutor.Execute
Dispatch == IF ExecutorType[plug] = "composio" /\ ~wired THEN "stub" ELSE ExecutorType[plug]

ExecutionTypeOK ==
    /\ plug \in DOMAIN ExecutorType /\ wired \in BOOLEAN /\ Dispatch \in Executors
    /\ AgentTypeOK /\ BookingTypeOK /\ ReminderTypeOK

ExecutionInit ==
    /\ plug \in DOMAIN ExecutorType /\ wired \in BOOLEAN
    /\ AgentInit /\ BookingInit /\ ReminderInit
    /\ plug # "meet" => wired /\ ~confirms /\ accounts = 0  \* nobody looks at them

\* StubExecutor: success, and no event
StubRun ==
    /\ talk.stage = "create"
    /\ talk' = [talk EXCEPT !.stage = "over", !.told = "stubbed"]
    /\ UNCHANGED <<now, busy, confirms, accounts>>

\* the dialogue of a meeting goes on as far as it does without Composio
UnwiredNext ==
    \/ talk.stage = "idle" /\ \E names, emails \in 0..MaxPeople, p \in Phrases, wants \in BOOLEAN :
          Ask(names, emails, p, wants)
    \/ talk.stage = "time" /\ \E p \in Phrases, wants \in BOOLEAN : GiveTime(p, wants)
    \/ GiveEmail(SpokenAddress)
    \/ LookupFails
    \/ \E yes \in BOOLEAN : Confirm(yes)
    \/ StubRun
    \/ Elapse

ExecutionNext ==
    /\ UNCHANGED <<plug, wired>>
    /\ \/ /\ Dispatch = "composio_mcp" /\ AgentNext
          /\ UNCHANGED <<bookingVars, reminderVars>>
       \/ /\ Dispatch = "composio" /\ BookingNext
          /\ UNCHANGED <<agentVars, geocodes, radius, spoken>>
       \/ /\ Dispatch = "stub" /\ UnwiredNext
          /\ UNCHANGED <<agentVars, geocodes, radius, spoken>>
       \/ /\ Dispatch = "builtin" /\ ReminderNext
          /\ UNCHANGED <<agentVars, busy, confirms, accounts, talk>>

ExecutionSpec == ExecutionInit /\ [][ExecutionNext]_executionVars

(***************************************************************************)
(* A request goes on until it has answered: its goroutine is scheduled,    *)
(* and every call of it is answered, fails or times out (composio.New and  *)
(* planOpenAI set a timeout).  Nothing is assumed of the user, of the      *)
(* clock or of what Composio answers.                                      *)
(***************************************************************************)
FairExecutionSpec == ExecutionSpec /\ \A m \in Messages : WF_agentVars(Step(m))

-----------------------------------------------------------------------------
(* Properties, of the parts together.                                      *)

\* Whatever a step of the agent asks reaches the user, and a step that failed is
\* not reported as a success.
OutcomesAreUnderstood == QuestionsReachTheUser /\ FailureIsNotSuccess

\* The planner hears of a yes only where the user gave one, and a no ends the task.
AnswersAreObeyed == ConfirmsWereGiven /\ RefusedIsLeftAlone

\* The slot that is recommended can be had, and every slot that was passed over
\* began inside a longer free block.
SlotsAreExplained == RecommendedIsBookable /\ OverlookedIsInsideABlock

=============================================================================
