-------------------------- MODULE AssistantSession --------------------------
(***************************************************************************)
(* One assistant session: src/internal/domain/assistant/service.go and     *)
(* google_calendar_meet.go.  Each message of the user is one HTTP request  *)
(* with a goroutine of its own.  It loads the session row, decides what to *)
(* do from that copy, may run a plugin, and writes the whole row back.     *)
(* Nothing locks the row, so the messages of one session interleave.       *)
(*                                                                         *)
(* Data abstraction: a text is one of a few classes (Texts); the argument  *)
(* map of an action is the set of required arguments it still lacks and    *)
(* the message that started it ("origin"); a plugin is its shape.          *)
(***************************************************************************)
EXTENDS Naturals, Sequences, FiniteSets

CONSTANTS
  Msgs,        \* the messages sent in the session (bounds the behaviour)
  Shapes,      \* the plugin shapes one of which is installed
  NoPending    \* session.PendingAction == nil

\* A shape is what advancePlugin reads of the catalog row.
Kinds == {"generic", "reminder", "meet", "location", "composio"}

ASSUME ShapesAssumption ==
  \A s \in Shapes : s.kind \in Kinds /\ s.confirm \in BOOLEAN /\ s.setup \in BOOLEAN

\* yes / no: isConfirmationYes / isConfirmationNo match; time: an explicit
\* date or time; suggest: a request to pick a time; plain: anything else.
Texts == {"yes", "no", "time", "suggest", "plain"}

\* The classes a plugin of the kind tells apart.
TextsFor(kind) ==
  CASE kind = "meet"     -> Texts
    [] kind = "reminder" -> Texts \ {"suggest"}
    [] OTHER             -> {"yes", "no", "plain"}

\* The reminder operations; other plugins have none.
Operations == {"create", "list", "delete"}

VARIABLES
  plug,      \* the installed plugin's shape, fixed
  inst,      \* its install row: "eligible", "disabled", "incomplete" or "gone"
  row,       \* assistant_sessions.pending_action
  rq,        \* per message: the state of the goroutine that handles it
  ran,       \* history: the plugin executions, with the text that caused them
  asked,     \* history: the arguments saved under a confirmation prompt
  refused,   \* history: the actions whose refusal was saved
  disturbed  \* history: the actions held by two requests at once, or run by
             \* a request that failed before it saved the session

vars == <<plug, inst, row, rq, ran, asked, refused, disturbed>>

-----------------------------------------------------------------------------
(* The arguments of an action, and what the session remembers of it.       *)

\* The required arguments, in the order in which they are asked for.
Required(kind, op) ==
  CASE kind = "generic"  -> <<"first", "second">>
    [] kind = "reminder" -> IF op = "create" THEN <<"message", "remind_at">>
                            ELSE IF op = "delete" THEN <<"message">> ELSE <<>>
    [] kind = "meet"     -> <<"attendee_email", "start_time">>
    [] kind = "location" -> <<"title", "location_mode", "place_query">>
    [] kind = "composio" -> <<>>

ArgNames(kind, op) == {Required(kind, op)[i] : i \in DOMAIN Required(kind, op)}

AllArgNames == UNION {ArgNames(k, o) : k \in Kinds, o \in Operations}

\* garbled: the time given is unparseable; vague: the place given is too vague for an
\* address ("home"), and not a keyword to be looked for nearby.
Args == [origin: Msgs, op: Operations, missing: SUBSET AllArgNames, garbled: BOOLEAN,
         vague: BOOLEAN, wantsSlot: BOOLEAN, confirmed: BOOLEAN]

\* PendingAction: exactly one of MissingArgument, AwaitingConfirmation and
\* ComposioSessionID is set.  A place that is asked for is missing.
Stages == {"ask", "confirm", "composio_confirm", "composio_input"}
Pending == {p \in [args: Args, stage: Stages, asks: AllArgNames \cup {""}] :
              p.asks = "place_query" => p.asks \in p.args.missing}

Fill(args, names) == [args EXCEPT !.missing = @ \ names]

\* The remind_at argument holds a parseable time.
SetTime(args) == [Fill(args, {"remind_at"}) EXCEPT !.garbled = FALSE]

(* A decision: run the plugin with the arguments, or reply and leave the   *)
(* given pending action in the session.                                    *)
Run(args) == [run |-> TRUE, args |-> {args}, next |-> NoPending]
Say(next) == [run |-> FALSE, args |-> {}, next |-> next]

Ask(args, name) == Say([args |-> args, stage |-> "ask", asks |-> name])
Confirm(args)   == Say([args |-> args, stage |-> "confirm", asks |-> ""])

\* reminderNeedsConfirmation, Manifest.ConfirmationRequired
NeedsConfirmation(args) ==
  CASE plug.kind = "reminder" -> args.op \in {"create", "delete"}
    [] plug.kind = "composio" -> FALSE
    [] OTHER                  -> plug.confirm

\* firstMissingArgument and its siblings: the next question, if there is one.
AskOrGo(args) ==
  LET required == Required(plug.kind, args.op)
      open     == {i \in DOMAIN required : required[i] \in args.missing}
      first    == CHOOSE i \in open : \A j \in open : i <= j
  IN  IF open # {} THEN Ask(args, required[first])
      ELSE IF NeedsConfirmation(args) THEN Confirm(args)
      ELSE Run(args)

-----------------------------------------------------------------------------
(* advancePlugin: the decisions a set of arguments may lead to.            *)

\* splitMessageAndRemindAt may find a time in the message, parseable or not;
\* an unparseable time is asked for before anything else.
AdvanceReminder(args) ==
  LET clause == args.op = "create" /\ "message" \notin args.missing
                /\ "remind_at" \in args.missing /\ ~args.garbled
      split  == IF clause
                THEN {args, SetTime(args), [args EXCEPT !.garbled = TRUE]}
                ELSE {args}
  IN  {IF a.garbled THEN Ask(a, "remind_at") ELSE AskOrGo(a) : a \in split}

\* recommendMeetingSlot: no slot or no calendar ends the action; a slot is
\* always confirmed, whatever the manifest says.
RecommendMeetingSlot(args) ==
  {Say(NoPending),
   Confirm([Fill(args, {"start_time"}) EXCEPT !.wantsSlot = FALSE])}

AdvanceGoogleCalendarMeet(args, text) ==
  LET a == [args EXCEPT !.wantsSlot = @ \/ text = "suggest"]
  IN  IF "attendee_email" \in a.missing THEN {Ask(a, "attendee_email")}
      ELSE IF "start_time" \in a.missing /\ a.wantsSlot THEN RecommendMeetingSlot(a)
      ELSE IF "start_time" \in a.missing /\ text = "time"
           THEN {AskOrGo(Fill(a, {"start_time"}))}
      ELSE {AskOrGo(a)}

\* inferLocationReminderFromText: a place that is not vague gives the mode.
\* firstMissingLocationReminderArgument: once the mode asks for an address, a vague
\* place is deleted and asked for again.
AdvanceLocation(args) ==
  LET a == IF "place_query" \in args.missing \/ args.vague THEN args
           ELSE Fill(args, {"location_mode"})
  IN  IF a.vague /\ a.missing \cap {"title", "location_mode"} = {}
      THEN {Ask([a EXCEPT !.missing = @ \cup {"place_query"}, !.vague = FALSE],
                "place_query")}
      ELSE {AskOrGo(a)}

AdvancePlugin(args, text) ==
  CASE plug.kind = "reminder" -> AdvanceReminder(args)
    [] plug.kind = "meet"     -> AdvanceGoogleCalendarMeet(args, text)
    [] plug.kind = "location" -> AdvanceLocation(args)
    [] plug.kind = "composio" -> {Run(args)}
    [] OTHER                  -> {AskOrGo(args)}

-----------------------------------------------------------------------------
(* handlePendingAction: the next turn of an action that is under way.      *)

\* Mutant: the prompt repeated after an unparseable time forgets the arguments.
ReminderFollowUpForgets(p, text) ==
  IF p.asks = "remind_at" /\ text # "time"
  THEN {Ask([p.args EXCEPT !.missing = ArgNames("reminder", p.args.op)], "remind_at")}
  ELSE AdvancePlugin(Fill(SetTime(p.args), {p.asks}), text)

\* applyReminderFollowUp.  A message may end in a clause that is taken for
\* a time; a clause that is none makes the assistant ask for the time.
ReminderFollowUp(p, text) ==
  LET answered == Fill(p.args, {p.asks})
      again(a) == {Ask(a, "remind_at")}
  IN  IF p.asks = "remind_at"
      THEN IF text = "time" THEN AdvancePlugin(SetTime(p.args), text) ELSE again(p.args)
      ELSE AdvancePlugin(answered, text)
           \cup (IF p.args.op = "create"
                 THEN AdvancePlugin(SetTime(answered), text) \cup again(answered)
                 ELSE {})

\* handleGoogleCalendarMeetPending
MeetFollowUp(p, text) ==
  IF p.asks = "attendee_email" \/ text = "time"
  THEN AdvancePlugin(Fill(p.args, {p.asks}), text)
  ELSE IF text = "suggest" THEN RecommendMeetingSlot(p.args)
  ELSE {Say(p)}

\* applyLocationReminderFollowUp: a mode is for an address, or it needs none, and then
\* may name the place at once; a place may be vague.
LocationFollowUp(p, text) ==
  LET given == Fill(p.args, {p.asks})
      answers ==
        CASE p.asks = "location_mode" ->
               {given} \cup {[Fill(given, names) EXCEPT !.vague = FALSE] :
                               names \in {{}, {"place_query"}}}
          [] p.asks = "place_query"   -> {given, [given EXCEPT !.vague = TRUE]}
          [] OTHER                    -> {given}
  IN  UNION {AdvancePlugin(args, text) : args \in answers}

FollowUp(p, text) ==
  CASE plug.kind = "reminder" -> ReminderFollowUp(p, text)
    [] plug.kind = "meet"     -> MeetFollowUp(p, text)
    [] plug.kind = "location" -> LocationFollowUp(p, text)
    [] OTHER                  -> AdvancePlugin(Fill(p.args, {p.asks}), text)

\* Mutant: whatever is not a no counts as a yes.
ConfirmationLax(p, text) ==
  IF text = "no" THEN {Say(NoPending)} ELSE {Run(p.args)}

\* Mutant: a no leaves the question open.
ConfirmationNagging(p, text) ==
  IF text = "yes" THEN {Run(p.args)} ELSE {Say(p)}

\* AwaitingConfirmation: yes runs, no gives up, anything else asks again.
Confirmation(p, text) ==
  CASE text = "yes" -> {Run(p.args)}
    [] text = "no"  -> {Say(NoPending)}
    [] OTHER        -> {Say(p)}

\* handleComposioPendingAction: the confirmed flag joins the arguments, which
\* the next pending action of the same task inherits.
ComposioPending(p, text) ==
  IF p.stage = "composio_input" THEN {Run(p.args)}
  ELSE CASE text = "yes" -> {Run([p.args EXCEPT !.confirmed = TRUE])}
         [] text = "no"  -> {Say(NoPending)}
         [] OTHER        -> {Say(p)}

HandlePendingAction(p, text) ==
  CASE p.stage \in {"composio_confirm", "composio_input"} -> ComposioPending(p, text)
    [] p.stage = "confirm" -> Confirmation(p, text)
    [] p.stage = "ask"     -> FollowUp(p, text)

\* The arguments a classifier may extract from a first message; those of a new
\* reminder may hold a time that cannot be parsed or a vague place.
ClassifiedAs(m, op, garbled, vague) ==
  {[origin |-> m, op |-> op, missing |-> s, garbled |-> garbled, vague |-> vague,
    wantsSlot |-> FALSE, confirmed |-> FALSE] : s \in SUBSET ArgNames(plug.kind, op)}

Classified(m) ==
  CASE plug.kind = "reminder" ->
         ClassifiedAs(m, "create", TRUE, FALSE)
         \cup UNION {ClassifiedAs(m, op, FALSE, FALSE) : op \in Operations}
    [] plug.kind = "location" -> UNION {ClassifiedAs(m, "create", FALSE, v) : v \in BOOLEAN}
    [] OTHER                  -> ClassifiedAs(m, "create", FALSE, FALSE)

\* An unparseable time is a time that is still missing, a vague place one that is not.
WellFormed(args) ==
  /\ args.garbled => "remind_at" \in args.missing
  /\ args.vague => "place_query" \notin args.missing

-----------------------------------------------------------------------------
(* The goroutine of a message.                                             *)

Idle == [pc |-> "idle", text |-> "plain", snap |-> NoPending,
         does |-> Say(NoPending), seen |-> FALSE]

Active(m) == rq[m].pc \notin {"idle", "over"}

Init ==
  /\ plug \in Shapes
  /\ inst \in {"eligible", "disabled"} \cup (IF plug.setup THEN {"incomplete"} ELSE {})
  /\ row = NoPending
  /\ rq = [m \in Msgs |-> Idle]
  /\ ran = {}
  /\ asked = {}
  /\ refused = {}
  /\ disturbed = {}

\* Goroutines share nothing but the rows, so a step changes one of them.
Goto(m, pc) == rq' = [rq EXCEPT ![m].pc = pc]
End(m)      == rq' = [rq EXCEPT ![m] = [Idle EXCEPT !.pc = "over"]]
history == <<ran, asked, refused>>

\* The user sends a message.  "seen" is history: the plugin was eligible at
\* some moment since then.
Send(m, text) ==
  /\ rq[m].pc = "idle"
  /\ rq' = [rq EXCEPT ![m] = [Idle EXCEPT !.pc = "load", !.text = text,
                                          !.seen = inst = "eligible"]]
  /\ UNCHANGED <<plug, inst, row, history, disturbed>>

\* loadOwnedSession: the copy of the row the whole request works on.  The
\* user's line then joins the transcript, which only the classifier reads.
Load(m) ==
  /\ rq[m].pc = "load"
  /\ rq' = [rq EXCEPT ![m].pc = "orchestrate", ![m].snap = row]
  /\ disturbed' = disturbed \cup
       {row.args.origin : n \in {n \in Msgs : /\ row # NoPending
                                              /\ Active(n)
                                              /\ rq[n].snap # NoPending
                                              /\ rq[n].snap.args.origin = row.args.origin}}
  /\ UNCHANGED <<plug, inst, row, history>>

\* What a decision makes of the goroutine.
Decide(m, d) ==
  rq' = [rq EXCEPT ![m].does = d, ![m].pc = IF d.run THEN "run" ELSE "save"]

\* Mutant: loadEligiblePlugin does not look at the install row.
HandlePendingUnchecked(m) ==
  /\ rq[m].pc = "orchestrate"
  /\ rq[m].snap # NoPending
  /\ \E d \in HandlePendingAction(rq[m].snap, rq[m].text) : Decide(m, d)
  /\ UNCHANGED <<plug, inst, row, history, disturbed>>

\* handlePendingAction: loadEligiblePlugin fails the request, and leaves the
\* session alone, unless the plugin is eligible at this moment.
HandlePending(m) ==
  /\ rq[m].pc = "orchestrate"
  /\ rq[m].snap # NoPending
  /\ IF inst = "eligible"
     THEN \E d \in HandlePendingAction(rq[m].snap, rq[m].text) : Decide(m, d)
     ELSE End(m)
  /\ UNCHANGED <<plug, inst, row, history, disturbed>>

\* classifyAndExecute, up to the call of the classifier.
ListPlugins(m) ==
  /\ rq[m].pc = "orchestrate"
  /\ rq[m].snap = NoPending
  /\ IF inst = "eligible" THEN Goto(m, "classify") ELSE Decide(m, Say(NoPending))
  /\ UNCHANGED <<plug, inst, row, history, disturbed>>

\* The classifier fails or matches nothing, or it matches with arguments.
Classify(m) ==
  /\ rq[m].pc = "classify"
  /\ \/ Decide(m, Say(NoPending))
     \/ \E a \in Classified(m) :
          /\ WellFormed(a)
          /\ \E d \in AdvancePlugin(a, rq[m].text) : Decide(m, d)
  /\ UNCHANGED <<plug, inst, row, history, disturbed>>

\* mapComposioExecutorResult: a Composio session may come back with a
\* question of its own, for a confirmation or for input (or a connection).
ComposioQuestions(args) ==
  {Say([args |-> args, stage |-> stage, asks |-> ""]) :
     stage \in IF plug.kind = "composio" THEN {"composio_confirm", "composio_input"} ELSE {}}

\* executePlugin.  Whatever the outcome, the action is over, unless the
\* Composio session asks, with the arguments of the task.
ExecutePlugin(m) ==
  /\ rq[m].pc = "run"
  /\ \E args \in rq[m].does.args :
       /\ ran' = ran \cup {[msg |-> m, text |-> rq[m].text, seen |-> rq[m].seen, args |-> args]}
       /\ \E d \in {Say(NoPending)} \cup ComposioQuestions(args) : Decide(m, d)
  /\ UNCHANGED <<plug, inst, row, asked, refused, disturbed>>

\* Mutant: an update that skips nil fields cannot clear the pending action.
SaveNonNil(m) ==
  /\ rq[m].pc = "save"
  /\ row' = IF rq[m].does.next = NoPending THEN row ELSE rq[m].does.next
  /\ asked' = asked \cup {p.args : p \in {p \in {row'} \ {NoPending} : p.stage = "confirm"}}
  /\ End(m)
  /\ UNCHANGED <<plug, inst, ran, refused, disturbed>>

\* sessions.Update writes the whole row back.  The assistant's line and the
\* reply follow; whether they arrive changes nothing the session remembers.
Save(m) ==
  /\ rq[m].pc = "save"
  /\ row' = rq[m].does.next
  /\ asked' = asked \cup {p.args : p \in {p \in {row'} \ {NoPending} : p.stage = "confirm"}}
  /\ refused' = refused \cup
       {p.args.origin : p \in {p \in {rq[m].snap} \ {NoPending} :
                                 /\ p.stage \in {"confirm", "composio_confirm"}
                                 /\ rq[m].text = "no"}}
  /\ End(m)
  /\ UNCHANGED <<plug, inst, ran, disturbed>>

\* Mutant: a request that fails puts the session back as it was loaded.
FailRestores(m) ==
  /\ Active(m)
  /\ End(m)
  /\ row' = rq[m].snap
  /\ disturbed' = disturbed \cup
       (IF rq[m].pc = "save" THEN {r.args.origin : r \in {r \in ran : r.msg = m}} ELSE {})
  /\ UNCHANGED <<plug, inst, history>>

\* A request ends early: an empty text, a store or settings call that fails,
\* a client that goes away (every call carries the request's context), or
\* the process stops.  The row keeps what it held.
Fail(m) ==
  /\ Active(m)
  /\ End(m)
  /\ disturbed' = disturbed \cup
       (IF rq[m].pc = "save" THEN {r.args.origin : r \in {r \in ran : r.msg = m}} ELSE {})
  /\ UNCHANGED <<plug, inst, row, history>>

\* The user toggles, finishes the setup of, or uninstalls the plugin.
ChangeInstall ==
  /\ \/ inst \in {"eligible", "disabled"} /\ inst' \in {"eligible", "disabled"} \ {inst}
     \/ plug.setup /\ inst \in {"eligible", "incomplete"}
                   /\ inst' \in {"eligible", "incomplete"} \ {inst}
     \/ inst # "gone" /\ inst' = "gone"
  /\ rq' = [m \in Msgs |-> [rq[m] EXCEPT !.seen = @ \/ (Active(m) /\ inst' = "eligible")]]
  /\ UNCHANGED <<plug, row, history, disturbed>>

Next ==
  \/ \E m \in Msgs :
       \/ \E text \in TextsFor(plug.kind) : Send(m, text)
       \/ Load(m) \/ HandlePending(m) \/ ListPlugins(m) \/ Classify(m)
       \/ ExecutePlugin(m) \/ Save(m) \/ Fail(m)
  \/ ChangeInstall

Spec == Init /\ [][Next]_vars

-----------------------------------------------------------------------------
(* Properties.                                                             *)

Decisions == [run: BOOLEAN, args: SUBSET Args, next: Pending \cup {NoPending}]

Requests == [pc: {"idle", "load", "orchestrate", "classify", "run", "save", "over"},
             text: Texts, snap: Pending \cup {NoPending}, does: Decisions, seen: BOOLEAN]

\* Every variable keeps its type.
TypeOK ==
  /\ plug \in Shapes
  /\ inst \in {"eligible", "disabled", "incomplete", "gone"}
  /\ row \in Pending \cup {NoPending}
  /\ rq \in [Msgs -> Requests]
  /\ ran \subseteq [msg: Msgs, text: Texts, seen: BOOLEAN, args: Args]
  /\ asked \subseteq Args
  /\ refused \subseteq Msgs
  /\ disturbed \subseteq Msgs

\* An action that needs confirmation runs only for a message that says yes,
\* and with exactly the arguments of a prompt the session recorded: however
\* the messages interleave, the arguments are never those of a later turn.
RunsAreConfirmed ==
  \A r \in ran : NeedsConfirmation(r.args) => r.text = "yes" /\ r.args \in asked

\* An action that the user starts once runs once, unless two requests held
\* it at the same time (a double yes) or the request that ran it failed
\* before it saved the session.  A Composio task runs once per turn instead.
RunsOnce ==
  plug.kind # "composio" =>
    \A r, q \in ran : r # q /\ r.args.origin = q.args.origin => r.args.origin \in disturbed

\* A plugin that was disabled, not set up or uninstalled during the whole of
\* a request is not run by it, whatever the session remembers of it.
RunsWhatIsInstalled == \A r \in ran : r.seen

\* While the plugin is away nothing is run and a pending action waits: only a
\* request that met the plugin runs it or says what the session remembers,
\* except that one which found neither an action nor the plugin clears the
\* session, also of an action begun meanwhile.
ActsWithItsPlugin ==
  [][/\ \A r \in ran' \ ran : r.seen
     /\ row' # row => \E m \in Msgs :
          /\ rq[m].pc = "save" /\ rq'[m].pc = "over"
          /\ rq[m].seen \/ (rq[m].snap = NoPending /\ row' = NoPending)]_vars

\* What the user refused is not run later, unless another request held the
\* same action when it was refused.
RefusedStaysRefused ==
  [][\A r \in ran' \ ran : r.args.origin \in refused => r.args.origin \in disturbed]_vars

\* What may turn out not to be an answer.
Doubts(args) == IF args.vague THEN {"place_query"} ELSE {}

\* While an action stays in the session, an argument the user has given is not lost,
\* unless a request with an older copy writes it back.  Only a place that is too vague
\* for an address is given up, once, and then it is what the assistant asks for next.
AnswersAreKept ==
  [][(/\ row # NoPending /\ row' # NoPending
      /\ row'.args.origin = row.args.origin
      /\ row.args.origin \notin disturbed')
       => \A name \in row'.args.missing \ row.args.missing :
             name \in Doubts(row.args) \ Doubts(row'.args) /\ row'.asks = name]_vars

\* Who has an action: a request that loaded it, or the session row.
Holding(q, o) == q.snap # NoPending /\ q.snap.args.origin = o

InRow(o) == row # NoPending /\ row.args.origin = o

Nowhere(o) == ~InRow(o) /\ \A n \in Msgs : ~Holding(rq[n], o)

Stage(o) ==
  IF o \in disturbed THEN "disturbed"
  ELSE IF o \in refused THEN "refused"
  ELSE IF \E r \in ran : r.args.origin = o THEN "ran"
  ELSE IF ~Nowhere(o) THEN "open"
  ELSE IF rq[o].pc # "over" THEN "new" ELSE "dropped"

\* The arguments still missing, in the row or in the copies of those who have it.
Lacks(o) ==
  IF InRow(o) THEN row.args.missing
  ELSE UNION {rq[n].snap.args.missing : n \in {n \in Msgs : Holding(rq[n], o)}}

\* The answers among them that may yet be given up.
Doubtful(o) ==
  IF InRow(o) THEN Doubts(row.args)
  ELSE UNION {Doubts(rq[n].snap.args) : n \in {n \in Msgs : Holding(rq[n], o)}}

\* However the messages interleave, each action goes through its stages as if
\* one request at a time had it: run, refused and dropped are final, nothing
\* that is over comes back with a copy, a save drops no action but its own and
\* the one it overwrites, and a request that fails drops none of the session.
Promise == INSTANCE SessionPromise WITH
  Actions   <- Msgs,
  Arguments <- AllArgNames,
  repeats   <- plug.kind = "composio",
  stage     <- [o \in Msgs |-> Stage(o)],
  session   <- {o \in Msgs : InRow(o)},
  lacks     <- [o \in Msgs |-> Lacks(o)],
  doubtful  <- [o \in Msgs |-> Doubtful(o)],
  runs      <- {<<r.msg, r.args.origin>> : r \in ran}

ImplementsPromise == Promise!Spec

\* The agent is told that the user confirmed only in a turn in which the
\* user said yes: the planner's prompt reserves COMPOSIO_CONFIRM for "after
\* the user confirmed an action" and COMPOSIO_HANDLE_INPUT for input.
ConfirmedMeansYes == \A r \in ran : r.args.confirmed => r.text = "yes"
=============================================================================
