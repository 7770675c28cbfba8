--------------------------- MODULE ComposioAgent ---------------------------
(***************************************************************************)
(* The agent behind the composio_mcp plugin: ComposioMCPExecutor           *)
(* (src/internal/domain/assistant/composio_mcp_executor.go), its planner   *)
(* (src/pkg/llm/composio_agent.go) and the tool-router calls of            *)
(* src/pkg/composio/v31.go, with the part of the assistant that hands a    *)
(* message to it.                                                          *)
(*                                                                         *)
(* A message is a goroutine.  It opens a session at Composio or resumes    *)
(* the one that asked, and then plans and executes steps until the task    *)
(* ends, the session asks the user something, or the steps are used up.    *)
(* What comes back from a step may ask in its status, its type, a link or  *)
(* the wording of an error; the executor has to make out which.            *)
(***************************************************************************)
EXTENDS FiniteSetsExt

CONSTANTS
    NumMessages,  \* messages sent (bounds the behaviour)
    NumSessions,  \* sessions Composio may give out
    MaxSteps,     \* composioMCPMaxIterations: 10 in the code
    NoSession     \* no pending action, no session yet

ASSUME AgentAssumption ==
    /\ NumMessages \in Nat /\ NumSessions \in Nat /\ MaxSteps \in Nat \ {0}
    /\ NoSession \notin Nat

VARIABLES
    opened,   \* how many sessions Composio has created
    asking,   \* assistant_sessions.pending_action: the question that is open
    turn,     \* per message: the state of its goroutine
    agreed,   \* history: sessions in which the user said yes
    refused,  \* history: sessions whose question was answered with no
    shared    \* history: sessions whose question two requests held at once

agentVars == <<opened, asking, turn, agreed, refused, shared>>

Messages == 1..NumMessages
RouterSessions == 1..NumSessions

Kinds == {"input", "confirmation", "auth"}
Wordings == {"yes", "no", "other"}

Question == [session : RouterSessions, kind : Kinds, confirmed : BOOLEAN]

-----------------------------------------------------------------------------
(* What a step returns.  status, type and the class of an error text that  *)
(* stand for a question are called by the kind of the question; the        *)
(* statuses cannot_handle and completed (or success) are "failed" and      *)
(* "succeeded".  url: a link to connect an app, or to some other page;     *)
(* text: a field fit for a reply.  error is "none", a question, "busy"     *)
(* (HTTP 429, rate limit) or any "other" failure, of the call or reported  *)
(* in its result.                                                          *)

Result ==
    [status : Kinds \cup {"none", "failed", "succeeded"},
     type : {"none", "input", "confirmation"},
     url : {"none", "connect", "page"}, text : BOOLEAN,
     error : {"none", "input", "confirmation", "busy", "other"}]

AsksFor(r) ==
    {k \in Kinds : r.status = k \/ r.type = k \/ r.error = k \/ (r.url = "connect" /\ k = "auth")}

\* something went wrong, and the result does not call the task completed all the same
WentWrong(r) == r.error # "none" /\ r.status # "succeeded"

\* External: Composio asks one thing at a time, not in a result that says the task is
\* over, and not only in the wording of an error beside a link to some page.
Sound(r) ==
    /\ Cardinality(AsksFor(r)) <= 1
    /\ AsksFor(r) # {} => r.status \notin {"failed", "succeeded"} /\ r.error # "busy"
    /\ r.url = "page" => r.error \notin Kinds

SoundResults == {r \in Result : Sound(r)}

\* An HTTP failure has no result and an error; an error in the result is one as
\* well (executeSession).
ErrorSays(r) ==
    CASE r.error = "none" -> "none"
      [] r.error = "busy" -> "failed"
      [] r.error = "other" -> "nothing"
      [] OTHER -> r.error

TextSays(r) == IF r.text THEN "succeeded" ELSE "none"

\* authURLFromComposioData: any link will do
LinkSays(r) == IF r.url = "none" THEN "none" ELSE "auth"

\* mutant: a reply text is taken for success before the error is looked at
SignalsTextFirst(r) == <<r.status, r.type, LinkSays(r), TextSays(r), ErrorSays(r)>>

\* in the order in which they are looked at
Signals(r) == <<r.status, r.type, LinkSays(r), ErrorSays(r), TextSays(r)>>

\* interpretComposioOutcome: the first signal counts
Interpret(r) ==
    LET says == Signals(r)
        heard == {i \in DOMAIN says : says[i] # "none"}
    IN  IF heard = {} THEN "nothing" ELSE says[Min(heard)]

-----------------------------------------------------------------------------
(* The goroutine of a message.                                             *)

Quiet == [pc |-> "unsent", snap |-> NoSession, session |-> NoSession, flag |-> FALSE,
          step |-> 0, next |-> NoSession, told |-> "none", asked |-> {}, failing |-> FALSE]

Turn == [pc : {"unsent", "start", "search", "plan", "act", "save", "over"},
         snap : Question \cup {NoSession}, session : RouterSessions \cup {NoSession},
         flag : BOOLEAN, step : 0..MaxSteps, next : Question \cup {NoSession},
         told : {"none", "text", "question", "failed", "succeeded", "done"},
         asked : SUBSET Kinds, failing : BOOLEAN]

AgentTypeOK ==
    /\ opened \in 0..NumSessions
    /\ asking \in Question \cup {NoSession}
    /\ turn \in [Messages -> Turn]
    /\ agreed \subseteq RouterSessions /\ refused \subseteq RouterSessions
    /\ shared \subseteq RouterSessions

AgentInit ==
    /\ opened = 0
    /\ asking = NoSession
    /\ turn = [m \in Messages |-> Quiet]
    /\ agreed = {} /\ refused = {} /\ shared = {}

Running(m) == turn[m].pc \notin {"unsent", "over"}

\* the reply and the pending action a request goes on to save
Conclude(m, told, next) ==
    turn' = [turn EXCEPT ![m].pc = "save", ![m].told = told, ![m].next = next]

\* The messages are numbered in the order in which they read the session row.
ComesNext(m) == turn[m].pc = "unsent" /\ \A n \in 1..(m - 1) : turn[n].pc # "unsent"

\* No question is open: the classifier finds the plugin, and the text is the task.
NewTask(m) ==
    /\ ComesNext(m) /\ asking = NoSession
    /\ turn' = [turn EXCEPT ![m].pc = "start"]
    /\ UNCHANGED <<opened, asking, agreed, refused, shared>>

\* the flag joins the arguments of the task
Resume(q, flag) ==
    [Quiet EXCEPT !.pc = "start", !.snap = q, !.session = q.session, !.flag = flag]

Reply(q, told, next) ==
    [Quiet EXCEPT !.pc = "save", !.snap = q, !.told = told, !.next = next]

\* mutant: whatever is not a no is taken for a yes
HandledLax(q, text) ==
    IF q.kind = "confirmation" /\ text = "no" THEN Reply(q, "text", NoSession)
    ELSE Resume(q, q.confirmed \/ q.kind = "confirmation")

\* handleComposioPendingAction: the flag of a yes stays with the task
Handled(q, text) ==
    IF q.kind # "confirmation" THEN Resume(q, q.confirmed)
    ELSE CASE text = "yes" -> Resume(q, TRUE)
           [] text = "no" -> Reply(q, "text", NoSession)
           [] OTHER -> Reply(q, "question", q)

\* The request reads the session row and decides from that copy.
Answer(m, text) ==
    /\ ComesNext(m) /\ asking # NoSession
    /\ turn' = [turn EXCEPT ![m] = Handled(asking, text)]
    /\ agreed' = agreed \cup
         (IF asking.kind = "confirmation" /\ text = "yes" THEN {asking.session} ELSE {})
    /\ shared' = shared \cup
         {asking.session : n \in {n \in Messages : /\ Running(n) /\ turn[n].snap # NoSession
                                                   /\ turn[n].snap.session = asking.session}}
    /\ UNCHANGED <<opened, asking, refused>>

-----------------------------------------------------------------------------
(* Execute and the agent loop.                                             *)

\* No usable credential, or a call that fails: the action is over, and the error
\* is its reply.
GiveUp(m) ==
    /\ turn[m].pc \in {"start", "search", "plan"}
    /\ Conclude(m, "failed", NoSession)
    /\ UNCHANGED <<opened, asking, agreed, refused, shared>>

OpenSession(m) ==
    /\ turn[m].pc = "start" /\ turn[m].session = NoSession
    /\ opened < NumSessions
    /\ opened' = opened + 1
    /\ turn' = [turn EXCEPT ![m].session = opened', ![m].pc = "search"]
    /\ UNCHANGED <<asking, agreed, refused, shared>>

AttachSession(m) ==
    /\ turn[m].pc = "start" /\ turn[m].session # NoSession
    /\ turn' = [turn EXCEPT ![m].pc = "plan"]
    /\ UNCHANGED <<opened, asking, agreed, refused, shared>>

SearchTools(m) ==
    /\ turn[m].pc = "search"
    /\ turn' = [turn EXCEPT ![m].pc = "plan"]
    /\ UNCHANGED <<opened, asking, agreed, refused, shared>>

\* The planner is told whether the user has confirmed, for the first step only.  Its
\* answer is a step to execute or the end of the task; mockComposioAgentPlan executes
\* one step.
ToldConfirmed(t) == t.flag /\ t.step = 0

PlanNextStep(m) ==
    /\ turn[m].pc = "plan"
    /\ \/ Conclude(m, "done", NoSession)
       \/ turn' = [turn EXCEPT ![m].pc = "act"]
    /\ UNCHANGED <<opened, asking, agreed, refused, shared>>

\* mutant: the steps are not counted
GoOnUncounted(t) == [t EXCEPT !.pc = "plan"]

\* nothing to conclude from the step: the next one, and after the last the task has
\* failed
GoOn(t) ==
    IF t.step + 1 < MaxSteps THEN [t EXCEPT !.step = @ + 1, !.pc = "plan"]
    ELSE [t EXCEPT !.step = @ + 1, !.pc = "save", !.told = "failed"]

\* composioPendingOutcome, mapComposioExecutorResult: the question is saved with the
\* arguments of the task, the confirmed flag among them
QuestionOf(t, kind) == [session |-> t.session, kind |-> kind, confirmed |-> t.flag]

\* one tool or meta tool is executed; asked and failing (history) tell what came back
Act(m) ==
    /\ turn[m].pc = "act"
    /\ \E r \in SoundResults :
          LET meant == Interpret(r)
              heard == [turn[m] EXCEPT !.asked = AsksFor(r), !.failing = WentWrong(r)]
          IN  turn' = [turn EXCEPT ![m] =
                 IF meant \in Kinds
                 THEN [heard EXCEPT !.pc = "save", !.told = "question",
                                    !.next = QuestionOf(turn[m], meant)]
                 ELSE IF meant = "nothing" THEN GoOn([turn[m] EXCEPT !.asked = AsksFor(r)])
                 ELSE [heard EXCEPT !.pc = "save", !.told = meant]]
    /\ UNCHANGED <<opened, asking, agreed, refused, shared>>

-----------------------------------------------------------------------------
SaveTurn(m) ==
    /\ turn[m].pc = "save"
    /\ asking' = turn[m].next
    /\ refused' = refused \cup
         (IF turn[m].told = "text" THEN {turn[m].snap.session} ELSE {})
    /\ turn' = [turn EXCEPT ![m] = [Quiet EXCEPT !.pc = "over"]]
    /\ UNCHANGED <<opened, agreed, shared>>

\* the request ends early (a client that went away, a deadline, a crash): the row
\* keeps the question it held, whatever the session at Composio has done since
Abort(m) ==
    /\ Running(m)
    /\ turn' = [turn EXCEPT ![m] = [Quiet EXCEPT !.pc = "over"]]
    /\ UNCHANGED <<opened, asking, agreed, refused, shared>>

Step(m) ==
    \/ GiveUp(m) \/ OpenSession(m) \/ AttachSession(m) \/ SearchTools(m)
    \/ PlanNextStep(m) \/ Act(m) \/ SaveTurn(m)

AgentNext ==
    \E m \in Messages :
       \/ NewTask(m) \/ (\E text \in Wordings : Answer(m, text))
       \/ Step(m) \/ Abort(m)

-----------------------------------------------------------------------------
(* Properties.                                                             *)

\* Whatever a step asks the user is what the request concludes with: the question
\* is saved with its kind and for the session that asked, and no further step runs
\* before it is answered.
QuestionsReachTheUser ==
    \A m \in Messages : turn[m].asked # {} =>
       /\ turn[m].pc = "save" /\ turn[m].told = "question"
       /\ turn[m].next.kind \in turn[m].asked /\ turn[m].next.session = turn[m].session

\* The planner is told of a confirmation only in a session in which the user said
\* yes to a question for one.
ConfirmsWereGiven ==
    \A m \in Messages : (turn[m].pc \in {"plan", "act"} /\ ToldConfirmed(turn[m])) =>
       turn[m].session \in agreed

\* A step whose call failed is never reported as a success, unless its result calls
\* the task completed or the planner has called it done.
FailureIsNotSuccess ==
    \A m \in Messages : turn[m].told = "succeeded" => ~turn[m].failing

\* Once the user's no is saved, no step runs in that session, unless two messages
\* held its question at the same time.
RefusedIsLeftAlone ==
    \A m \in Messages : turn[m].pc \in {"plan", "act"} =>
       turn[m].session \notin refused \ shared

\* Every message gets an answer: the steps of a turn are counted, and each call has
\* a timeout (composio.New, planOpenAI).
TurnsEnd == \A m \in Messages : Running(m) ~> turn[m].pc = "over"

=============================================================================
