----------------------- MODULE AssistantSessionProofs -----------------------
(***************************************************************************)
(* For any number of messages in one session and any shapes of plugin.     *)
(* First what one request may do: the types, that what is run was          *)
(* confirmed as asked, and that it was eligible during the request that    *)
(* ran it.  Then what many may do to one another: an action runs once, a   *)
(* refusal is final, and answers are kept, unless two requests held the    *)
(* action at once or the one that ran it failed before it saved the        *)
(* session.                                                                *)
(***************************************************************************)
EXTENDS AssistantSession, TLAPS

Composio == {"composio_confirm", "composio_input"}

\* A decision of advancePlugin: it runs only what needs no confirmation, and
\* leaves a question or a prompt of the assistant's own.
Advanced(d) ==
  /\ d \in Decisions
  /\ d.run => \A a \in d.args : ~NeedsConfirmation(a)
  /\ d.next # NoPending => d.next.stage \in {"ask", "confirm"}

\* What a request may hold as its decision, having said text.
Justified(d, text) ==
  /\ d \in Decisions
  /\ d.run => \A a \in d.args : NeedsConfirmation(a) => text = "yes" /\ a \in asked
  /\ d.next # NoPending /\ d.next.stage \in Composio => plug.kind = "composio"

\* What the session row, and every copy of it, may hold.
Recorded(p) ==
  p # NoPending =>
    /\ p.stage = "confirm" => p.args \in asked
    /\ p.stage \in Composio => plug.kind = "composio"

\* A request: what it holds is recorded and justified, and it runs the plugin
\* only if the plugin was eligible at some moment since it arrived.
Sound(q) ==
  /\ Recorded(q.snap)
  /\ Justified(q.does, q.text)
  /\ q.pc \notin {"idle", "over"} /\ inst = "eligible" => q.seen
  /\ q.pc \in {"classify", "run"} => q.seen
  /\ q.pc = "run" => q.does.run

\* The inductive invariant.
IInv ==
  /\ TypeOK
  /\ Recorded(row)
  /\ \A m \in Msgs : Sound(rq[m])
  /\ RunsAreConfirmed
  /\ RunsWhatIsInstalled

-----------------------------------------------------------------------------
(* The helpers of a decision keep the types.                               *)

LEMMA RequiredNames ==
  ASSUME NEW k \in Kinds, NEW o \in Operations
  PROVE  /\ DOMAIN Required(k, o) \subseteq 1..3
         /\ \A i \in DOMAIN Required(k, o) : Required(k, o)[i] \in AllArgNames
<1>1. DOMAIN Required(k, o) \subseteq 1..3
  BY DEF Required, Kinds
<1>2. ASSUME NEW i \in DOMAIN Required(k, o)
      PROVE  Required(k, o)[i] \in AllArgNames
  <2>1. Required(k, o)[i] \in ArgNames(k, o)
    BY DEF ArgNames
  <2>2. ArgNames(k, o) \in {ArgNames(x, y) : x \in Kinds, y \in Operations}
    OBVIOUS
  <2>3. QED
    BY <2>1, <2>2 DEF AllArgNames
<1>3. QED
  BY <1>1, <1>2

\* A non-empty set of the positions 1, 2, 3 has a least one.
LEMMA LeastPosition ==
  ASSUME NEW S \in SUBSET (1..3), S # {}
  PROVE  \E i \in S : \A j \in S : i <= j
<1>1. CASE 1 \in S
  BY <1>1
<1>2. CASE 1 \notin S /\ 2 \in S
  BY <1>2
<1>3. CASE 1 \notin S /\ 2 \notin S
  <2>1. PICK i \in S : TRUE
    OBVIOUS
  <2>2. \A j \in S : j = 3
    BY <1>3
  <2>3. QED
    BY <2>1, <2>2
<1>4. QED
  BY <1>1, <1>2, <1>3

LEMMA DecisionTypes ==
  ASSUME NEW args \in Args
  PROVE  /\ Run(args) \in Decisions
         /\ Say(NoPending) \in Decisions
         /\ Confirm(args) \in Decisions
         /\ \A n \in AllArgNames :
               (n = "place_query" => n \in args.missing) => Ask(args, n) \in Decisions
         /\ \A p \in Pending : Say(p) \in Decisions
  BY DEF Run, Say, Confirm, Ask, Decisions, Pending, Stages

LEMMA FillTypes ==
  ASSUME NEW args \in Args
  PROVE  /\ \A names : Fill(args, names) \in Args
         /\ SetTime(args) \in Args
         /\ [args EXCEPT !.garbled = TRUE] \in Args
         /\ [args EXCEPT !.confirmed = TRUE] \in Args
         /\ \A b \in BOOLEAN : /\ [args EXCEPT !.wantsSlot = b] \in Args
                              /\ [args EXCEPT !.vague = b] \in Args
  BY DEF Fill, SetTime, Args

\* The names the code asks for outside AskOrGo.
LEMMA NamesKnown ==
  {"remind_at", "attendee_email", "start_time", "place_query"} \subseteq AllArgNames
<1>1. "remind_at" \in ArgNames("reminder", "create")
  <2>1. Required("reminder", "create") = <<"message", "remind_at">>
    BY DEF Required
  <2>2. 2 \in DOMAIN Required("reminder", "create") /\ Required("reminder", "create")[2] = "remind_at"
    BY <2>1
  <2>3. QED
    BY <2>2 DEF ArgNames
<1>2. {"attendee_email", "start_time"} \subseteq ArgNames("meet", "create")
  <2>1. Required("meet", "create") = <<"attendee_email", "start_time">>
    BY DEF Required
  <2>2. /\ 1 \in DOMAIN Required("meet", "create") /\ Required("meet", "create")[1] = "attendee_email"
        /\ 2 \in DOMAIN Required("meet", "create") /\ Required("meet", "create")[2] = "start_time"
    BY <2>1
  <2>3. QED
    BY <2>2 DEF ArgNames
<1>3. "place_query" \in ArgNames("location", "create")
  <2>1. Required("location", "create") = <<"title", "location_mode", "place_query">>
    BY DEF Required
  <2>2. /\ 3 \in DOMAIN Required("location", "create")
        /\ Required("location", "create")[3] = "place_query"
    BY <2>1
  <2>3. QED
    BY <2>2 DEF ArgNames
<1>4. QED
  BY <1>1, <1>2, <1>3 DEF AllArgNames, Kinds, Operations

-----------------------------------------------------------------------------
(* advancePlugin runs only what needs no confirmation.                     *)

LEMMA SimpleAdvanced ==
  ASSUME NEW args \in Args
  PROVE  /\ Advanced(Say(NoPending))
         /\ Advanced(Confirm(args))
         /\ \A n \in AllArgNames :
               (n = "place_query" => n \in args.missing) => Advanced(Ask(args, n))
         /\ ~NeedsConfirmation(args) => Advanced(Run(args))
<1>1. Advanced(Say(NoPending))
  BY DecisionTypes DEF Advanced, Say
<1>2. Advanced(Confirm(args))
  BY DecisionTypes DEF Advanced, Confirm, Say
<1>3. ASSUME NEW n \in AllArgNames, n = "place_query" => n \in args.missing
      PROVE  Advanced(Ask(args, n))
  BY <1>3, DecisionTypes DEF Advanced, Ask, Say
<1>4. ASSUME ~NeedsConfirmation(args) PROVE Advanced(Run(args))
  <2>1. Run(args).args = {args} /\ Run(args).next = NoPending
    BY DEF Run
  <2>2. QED
    BY <1>4, <2>1, DecisionTypes DEF Advanced
<1>5. QED
  BY <1>1, <1>2, <1>3, <1>4

LEMMA AskOrGoAdvanced ==
  ASSUME plug \in Shapes, NEW args \in Args
  PROVE  Advanced(AskOrGo(args))
<1> DEFINE required == Required(plug.kind, args.op)
           open     == {i \in DOMAIN required : required[i] \in args.missing}
           first    == CHOOSE i \in open : \A j \in open : i <= j
<1>1. plug.kind \in Kinds /\ args.op \in Operations
  BY ShapesAssumption DEF Args
<1>2. open # {} => required[first] \in AllArgNames /\ required[first] \in args.missing
  <2>1. open \in SUBSET (1..3)
    BY <1>1, RequiredNames
  <2>2. ASSUME open # {} PROVE first \in open
    <3>1. \E i \in open : \A j \in open : i <= j
      BY <2>1, <2>2, LeastPosition
    <3>2. QED
      BY <3>1
  <2>3. QED
    BY <2>2, <1>1, RequiredNames
<1>3. AskOrGo(args) = IF open # {} THEN Ask(args, required[first])
                      ELSE IF NeedsConfirmation(args) THEN Confirm(args)
                      ELSE Run(args)
  BY DEF AskOrGo
<1> HIDE DEF required, open, first
<1>4. QED
  BY <1>2, <1>3, SimpleAdvanced

LEMMA ReminderAdvanced ==
  ASSUME plug \in Shapes, NEW args \in Args
  PROVE  \A d \in AdvanceReminder(args) : Advanced(d)
<1>1. ASSUME NEW a \in Args
      PROVE  Advanced(IF a.garbled THEN Ask(a, "remind_at") ELSE AskOrGo(a))
  BY SimpleAdvanced, AskOrGoAdvanced, NamesKnown
<1>2. \A d \in AdvanceReminder(args) : \E a \in Args :
        d = IF a.garbled THEN Ask(a, "remind_at") ELSE AskOrGo(a)
  BY FillTypes DEF AdvanceReminder
<1>3. QED
  BY <1>1, <1>2

LEMMA SlotAdvanced ==
  ASSUME NEW args \in Args
  PROVE  \A d \in RecommendMeetingSlot(args) : Advanced(d)
<1>1. [Fill(args, {"start_time"}) EXCEPT !.wantsSlot = FALSE] \in Args
  BY FillTypes
<1>2. QED
  BY <1>1, SimpleAdvanced DEF RecommendMeetingSlot

LEMMA MeetAdvanced ==
  ASSUME plug \in Shapes, NEW args \in Args, NEW text
  PROVE  \A d \in AdvanceGoogleCalendarMeet(args, text) : Advanced(d)
<1> DEFINE a == [args EXCEPT !.wantsSlot = @ \/ text = "suggest"]
<1>1. a \in Args
  BY DEF Args
<1>2. Fill(a, {"start_time"}) \in Args
  BY <1>1, FillTypes
<1>3. /\ Advanced(Ask(a, "attendee_email"))
      /\ \A d \in RecommendMeetingSlot(a) : Advanced(d)
      /\ Advanced(AskOrGo(a))
      /\ Advanced(AskOrGo(Fill(a, {"start_time"})))
  BY <1>1, <1>2, SimpleAdvanced, SlotAdvanced, AskOrGoAdvanced, NamesKnown
<1>4. AdvanceGoogleCalendarMeet(args, text) \subseteq
        {Ask(a, "attendee_email"), AskOrGo(a), AskOrGo(Fill(a, {"start_time"}))}
        \cup RecommendMeetingSlot(a)
  BY DEF AdvanceGoogleCalendarMeet
<1> HIDE DEF a
<1>5. QED
  BY <1>3, <1>4

\* A place is asked for again, or the mode may be given by it.
LEMMA LocationIs ==
  ASSUME NEW args \in Args, NEW d \in AdvanceLocation(args)
  PROVE  \/ d = AskOrGo(args) \/ d = AskOrGo(Fill(args, {"location_mode"}))
         \/ \E a \in Args :
               /\ args.vague
               /\ a = [args EXCEPT !.missing = @ \cup {"place_query"}, !.vague = FALSE]
               /\ d = Ask(a, "place_query")
<1>1. [args EXCEPT !.missing = @ \cup {"place_query"}, !.vague = FALSE] \in Args
  BY NamesKnown DEF Args
<1>2. PICK b : b = IF "place_query" \in args.missing \/ args.vague THEN args
                   ELSE Fill(args, {"location_mode"})
  OBVIOUS
<1>3. AdvanceLocation(args) =
        IF b.vague /\ b.missing \cap {"title", "location_mode"} = {}
        THEN {Ask([b EXCEPT !.missing = @ \cup {"place_query"}, !.vague = FALSE],
                  "place_query")}
        ELSE {AskOrGo(b)}
  BY <1>2 DEF AdvanceLocation
<1>4. b.vague => b = args
  BY <1>2 DEF Fill, Args
<1> QED
  BY <1>1, <1>2, <1>3, <1>4

LEMMA LocationAdvanced ==
  ASSUME plug \in Shapes, NEW args \in Args
  PROVE  \A d \in AdvanceLocation(args) : Advanced(d)
<1>1. \A a \in Args : Advanced(AskOrGo(a))
  BY AskOrGoAdvanced
<1>2. ASSUME NEW a \in Args,
             a = [args EXCEPT !.missing = @ \cup {"place_query"}, !.vague = FALSE]
      PROVE  Advanced(Ask(a, "place_query"))
  <2>1. "place_query" \in a.missing
    BY <1>2 DEF Args
  <2>2. QED
    BY <2>1, SimpleAdvanced, NamesKnown
<1>3. Fill(args, {"location_mode"}) \in Args
  BY FillTypes
<1>4. QED
  BY <1>1, <1>2, <1>3, LocationIs

LEMMA PluginAdvanced ==
  ASSUME plug \in Shapes, NEW args \in Args, NEW text
  PROVE  \A d \in AdvancePlugin(args, text) : Advanced(d)
<1>1. CASE plug.kind = "reminder"
  BY <1>1, ReminderAdvanced DEF AdvancePlugin
<1>2. CASE plug.kind = "meet"
  BY <1>2, MeetAdvanced DEF AdvancePlugin
<1>3. CASE plug.kind = "location"
  BY <1>3, LocationAdvanced DEF AdvancePlugin
<1>4. CASE plug.kind = "composio"
  <2>1. ~NeedsConfirmation(args)
    BY <1>4 DEF NeedsConfirmation
  <2>2. AdvancePlugin(args, text) = {Run(args)}
    BY <1>4 DEF AdvancePlugin
  <2>3. QED
    BY <2>1, <2>2, SimpleAdvanced
<1>5. CASE plug.kind \notin {"reminder", "meet", "location", "composio"}
  <2>1. AdvancePlugin(args, text) = {AskOrGo(args)}
    BY <1>5 DEF AdvancePlugin
  <2>2. QED
    BY <2>1, AskOrGoAdvanced
<1>6. QED
  BY <1>1, <1>2, <1>3, <1>4, <1>5

-----------------------------------------------------------------------------
(* handlePendingAction and the classifier make justified decisions.        *)

\* arguments of the same action, with nothing lost that was given, and doubts only
\* about what is doubtful already or has just been given
Less(a, args) ==
  /\ a.origin = args.origin /\ a.missing \subseteq args.missing
  /\ Doubts(a) \subseteq Doubts(args) \cup args.missing

\* The arguments a reply about a place may leave.
LEMMA LocationReplies ==
  ASSUME NEW p \in Pending, NEW text, NEW d \in LocationFollowUp(p, text)
  PROVE  \E a \in Args : Less(a, p.args) /\ d \in AdvancePlugin(a, text)
<1>1. PICK given \in Args : given = Fill(p.args, {p.asks})
  BY FillTypes DEF Pending
<1>2. /\ given.origin = p.args.origin /\ given.missing \subseteq p.args.missing
      /\ given.vague = p.args.vague
  BY <1>1 DEF Fill, Args, Pending
<1>3. ASSUME NEW names
      PROVE  LET a == [Fill(given, names) EXCEPT !.vague = FALSE]
             IN  a \in Args /\ Less(a, p.args)
  <2>1. PICK b \in Args : b = Fill(given, names)
    BY FillTypes
  <2>2. b.origin = p.args.origin /\ b.missing \subseteq p.args.missing
    BY <1>2, <2>1 DEF Fill, Args
  <2>3. PICK a \in Args : a = [b EXCEPT !.vague = FALSE]
    BY FillTypes
  <2>4. a.origin = b.origin /\ a.missing = b.missing /\ ~a.vague
    BY <2>3 DEF Args
  <2>5. Less(a, p.args)
    BY <2>2, <2>4 DEF Less, Doubts
  <2> QED
    BY <2>1, <2>3, <2>5
<1>4. p.asks = "place_query" =>
        LET a == [given EXCEPT !.vague = TRUE]
        IN  a \in Args /\ Less(a, p.args)
  <2> SUFFICES ASSUME p.asks = "place_query"
               PROVE  LET a == [given EXCEPT !.vague = TRUE]
                      IN  a \in Args /\ Less(a, p.args)
    OBVIOUS
  <2>1. PICK a \in Args : a = [given EXCEPT !.vague = TRUE]
    BY FillTypes
  <2>2. a.origin = given.origin /\ a.missing = given.missing
    BY <2>1 DEF Args
  <2>3. "place_query" \in p.args.missing
    BY DEF Pending
  <2>4. Less(a, p.args)
    BY <1>2, <2>2, <2>3 DEF Less, Doubts
  <2> QED
    BY <2>1, <2>4
<1>5. Less(given, p.args)
  BY <1>2 DEF Less, Doubts
<1>6. \/ d \in AdvancePlugin(given, text)
      \/ \E names : d \in AdvancePlugin([Fill(given, names) EXCEPT !.vague = FALSE], text)
      \/ /\ p.asks = "place_query"
         /\ d \in AdvancePlugin([given EXCEPT !.vague = TRUE], text)
  BY <1>1 DEF LocationFollowUp
<1> QED
  BY <1>3, <1>4, <1>5, <1>6

LEMMA FollowUpAdvanced ==
  ASSUME plug \in Shapes, NEW p \in Pending, p.stage = "ask", NEW text
  PROVE  \A d \in FollowUp(p, text) : Advanced(d)
<1> USE DEF Pending
<1>1. p.args \in Args
  OBVIOUS
<1>2. \A names : \A d \in AdvancePlugin(Fill(p.args, names), text) : Advanced(d)
  BY <1>1, FillTypes, PluginAdvanced
<1>3. \A names : Fill(p.args, names) \in Args
  BY <1>1, FillTypes
<1>4. CASE plug.kind = "reminder"
  <2>1. \A a \in Args : /\ \A d \in AdvancePlugin(SetTime(a), text) : Advanced(d)
                        /\ Advanced(Ask(a, "remind_at"))
    BY FillTypes, PluginAdvanced, SimpleAdvanced, NamesKnown
  <2>2. \A d \in ReminderFollowUp(p, text) : Advanced(d)
    BY <1>1, <1>2, <1>3, <2>1 DEF ReminderFollowUp
  <2>3. QED
    BY <1>4, <2>2 DEF FollowUp
<1>5. CASE plug.kind = "meet"
  <2>1. Advanced(Say(p))
    BY DecisionTypes DEF Advanced, Say
  <2>2. \A d \in RecommendMeetingSlot(p.args) : Advanced(d)
    BY <1>1, SlotAdvanced
  <2>3. \A d \in MeetFollowUp(p, text) : Advanced(d)
    BY <1>2, <2>1, <2>2 DEF MeetFollowUp
  <2>4. QED
    BY <1>5, <2>3 DEF FollowUp
<1>6. CASE plug.kind = "location"
  <2>1. \A a \in Args : \A d \in AdvancePlugin(a, text) : Advanced(d)
    BY PluginAdvanced
  <2>2. QED
    BY <1>6, <2>1, LocationReplies DEF FollowUp
<1>7. CASE plug.kind \notin {"reminder", "meet", "location"}
  BY <1>2, <1>7 DEF FollowUp
<1>8. QED
  BY <1>4, <1>5, <1>6, <1>7

LEMMA AdvancedJustified ==
  ASSUME NEW d, Advanced(d), NEW text
  PROVE  Justified(d, text)
BY DEF Advanced, Justified, Composio

LEMMA HandledJustified ==
  ASSUME plug \in Shapes, NEW p \in Pending, p # NoPending, Recorded(p),
         NEW text, NEW d \in HandlePendingAction(p, text)
  PROVE  Justified(d, text)
<1> USE DEF Pending
<1>1. p.args \in Args /\ p.stage \in Stages
  OBVIOUS
<1>2. CASE p.stage = "ask"
  BY <1>2, FollowUpAdvanced, AdvancedJustified DEF HandlePendingAction
<1>3. Justified(Say(NoPending), text) /\ Justified(Say(p), text)
  BY DecisionTypes DEF Justified, Say, Recorded
<1>4. CASE p.stage = "confirm"
  <2>1. text = "yes" => Justified(Run(p.args), text)
    BY <1>1, <1>4, DecisionTypes DEF Justified, Run, Recorded
  <2>2. d \in Confirmation(p, text)
    BY <1>4 DEF HandlePendingAction
  <2>3. QED
    BY <1>3, <2>1, <2>2 DEF Confirmation
<1>5. CASE p.stage \in Composio
  <2>1. plug.kind = "composio"
    BY <1>5 DEF Recorded
  <2>2. \A a \in Args : Justified(Run(a), text)
    BY <2>1, DecisionTypes DEF Justified, Run, NeedsConfirmation
  <2>3. [p.args EXCEPT !.confirmed = TRUE] \in Args
    BY <1>1, FillTypes
  <2>4. d \in ComposioPending(p, text)
    BY <1>5 DEF HandlePendingAction, Composio
  <2>5. QED
    BY <1>1, <1>3, <2>2, <2>3, <2>4 DEF ComposioPending
<1>6. QED
  BY <1>1, <1>2, <1>4, <1>5 DEF Stages, Composio

LEMMA ClassifiedTypes ==
  ASSUME plug \in Shapes, NEW m \in Msgs, NEW a \in Classified(m)
  PROVE  a \in Args
<1>1. plug.kind \in Kinds
  BY ShapesAssumption
<1>2. \A o \in Operations : ArgNames(plug.kind, o) \subseteq AllArgNames
  BY <1>1 DEF AllArgNames
<1>3. PICK o \in Operations, g \in BOOLEAN, v \in BOOLEAN : a \in ClassifiedAs(m, o, g, v)
  BY DEF Classified, Operations
<1>4. PICK s \in SUBSET ArgNames(plug.kind, o) :
        a = [origin |-> m, op |-> o, missing |-> s, garbled |-> g, vague |-> v,
             wantsSlot |-> FALSE, confirmed |-> FALSE]
  BY <1>3 DEF ClassifiedAs
<1>5. s \in SUBSET AllArgNames
  BY <1>2, <1>4
<1>6. QED
  BY <1>4, <1>5 DEF Args

-----------------------------------------------------------------------------
(* The invariant is inductive.                                             *)

LEMMA IdleTyped == Idle \in Requests
BY DecisionTypes DEF Idle, Requests, Texts, Say, Decisions

\* A step that changes one request, and at most adds recorded prompts,
\* leaves the others sound.
LEMMA OneRequest ==
  ASSUME IInv, NEW m \in Msgs, NEW q \in Requests,
         rq' = [rq EXCEPT ![m] = q],
         plug' = plug, inst' = inst, asked \subseteq asked',
         Sound(q)'
  PROVE  /\ rq' \in [Msgs -> Requests]
         /\ \A n \in Msgs : Sound(rq[n])'
<1>1. rq \in [Msgs -> Requests]
  BY DEF IInv, TypeOK
<1>2. rq' \in [Msgs -> Requests]
  BY <1>1
<1>3. ASSUME NEW n \in Msgs PROVE Sound(rq[n])'
  <2>1. CASE n = m
    <3>1. rq'[n] = q
      BY <1>1, <2>1
    <3>2. QED
      BY <3>1 DEF Sound, Recorded, Justified, NeedsConfirmation
  <2>2. CASE n # m
    <3>1. rq'[n] = rq[n]
      BY <1>1, <2>2
    <3>2. Sound(rq[n])
      BY DEF IInv
    <3>3. QED
      BY <3>1, <3>2 DEF Sound, Recorded, Justified, NeedsConfirmation
  <2>3. QED
    BY <2>1, <2>2
<1>4. QED
  BY <1>2, <1>3

\* The same when the session row and the histories stay as they are.
LEMMA QuietStep ==
  ASSUME IInv, NEW m \in Msgs, NEW q \in Requests, Sound(q),
         rq' = [rq EXCEPT ![m] = q],
         UNCHANGED <<plug, inst, row, ran, asked, refused>>,
         disturbed' \subseteq Msgs
  PROVE  IInv'
<1>1. Sound(q)'
  BY DEF Sound, Recorded, Justified, NeedsConfirmation
<1>2. rq' \in [Msgs -> Requests] /\ \A n \in Msgs : Sound(rq[n])'
  BY <1>1, OneRequest
<1>3. TypeOK'
  BY <1>2 DEF IInv, TypeOK
<1>4. Recorded(row)'
  BY DEF IInv, Recorded
<1>5. RunsAreConfirmed' /\ RunsWhatIsInstalled'
  BY DEF IInv, RunsAreConfirmed, RunsWhatIsInstalled, NeedsConfirmation
<1>6. QED
  BY <1>2, <1>3, <1>4, <1>5 DEF IInv

\* A justified decision keeps a request sound; to run it must be seen.
LEMMA DecideSound ==
  ASSUME IInv, NEW m \in Msgs, NEW d, Justified(d, rq[m].text), d.run => rq[m].seen,
         rq[m].pc \notin {"idle", "over"}
  PROVE  LET q == [rq[m] EXCEPT !.does = d, !.pc = IF d.run THEN "run" ELSE "save"]
         IN  q \in Requests /\ Sound(q)
<1> DEFINE q == [rq[m] EXCEPT !.does = d, !.pc = IF d.run THEN "run" ELSE "save"]
<1>1. rq[m] \in Requests /\ Sound(rq[m]) /\ d \in Decisions
  BY DEF IInv, TypeOK, Justified
<1>2. q \in Requests
  BY <1>1 DEF Requests
<1>3. /\ q.snap = rq[m].snap /\ q.text = rq[m].text /\ q.seen = rq[m].seen
      /\ q.does = d /\ q.pc = IF d.run THEN "run" ELSE "save"
  BY <1>1 DEF Requests
<1>4. Sound(q)
  <2>1. Recorded(q.snap) /\ Justified(q.does, q.text)
    BY <1>1, <1>3 DEF Sound
  <2>2. inst = "eligible" => q.seen
    BY <1>1, <1>3 DEF Sound
  <2>3. QED
    BY <1>3, <2>1, <2>2 DEF Sound
<1>5. QED
  BY <1>2, <1>4

LEMMA InitInv == Init => IInv
<1> SUFFICES ASSUME Init PROVE IInv
  OBVIOUS
<1>1. TypeOK
  BY IdleTyped DEF Init, TypeOK
<1>2. Sound(Idle)
  <2>1. Idle.snap = NoPending /\ Idle.does = Say(NoPending) /\ Idle.pc = "idle"
    BY DEF Idle
  <2>2. Justified(Say(NoPending), Idle.text)
    BY DecisionTypes DEF Justified, Say, Decisions
  <2>3. QED
    BY <2>1, <2>2 DEF Sound, Recorded
<1>3. QED
  BY <1>1, <1>2 DEF Init, IInv, Recorded, RunsAreConfirmed, RunsWhatIsInstalled

LEMMA SendInv ==
  ASSUME IInv, NEW m \in Msgs, NEW text \in Texts, Send(m, text)
  PROVE  IInv'
<1> DEFINE q == [Idle EXCEPT !.pc = "load", !.text = text, !.seen = inst = "eligible"]
<1>1. q \in Requests
  BY IdleTyped DEF Requests
<1>2. /\ q.snap = NoPending /\ q.does = Say(NoPending) /\ q.pc = "load"
      /\ q.seen = (inst = "eligible")
  BY DEF Idle
<1>3. Justified(Say(NoPending), q.text)
  BY DecisionTypes DEF Justified, Say, Decisions
<1>4. Sound(q)
  BY <1>2, <1>3 DEF Sound, Recorded
<1>5. /\ rq' = [rq EXCEPT ![m] = q]
      /\ UNCHANGED <<plug, inst, row, ran, asked, refused, disturbed>>
  BY DEF Send, history
<1>6. disturbed' \subseteq Msgs
  BY <1>5 DEF IInv, TypeOK
<1> HIDE DEF q
<1>7. QED
  BY <1>1, <1>4, <1>5, <1>6, QuietStep

LEMMA LoadInv ==
  ASSUME IInv, NEW m \in Msgs, Load(m)
  PROVE  IInv'
<1> DEFINE q == [rq[m] EXCEPT !.pc = "orchestrate", !.snap = row]
<1>1. rq[m] \in Requests /\ Sound(rq[m]) /\ row \in Pending \cup {NoPending} /\ Recorded(row)
  BY DEF IInv, TypeOK
<1>2. q \in Requests
  BY <1>1 DEF Requests
<1>3. /\ q.snap = row /\ q.text = rq[m].text /\ q.does = rq[m].does
      /\ q.seen = rq[m].seen /\ q.pc = "orchestrate"
  BY <1>1 DEF Requests
<1>4. Sound(q)
  BY <1>1, <1>3 DEF Sound, Load
<1>5. /\ rq' = [rq EXCEPT ![m] = q]
      /\ UNCHANGED <<plug, inst, row, ran, asked, refused>>
  BY <1>1 DEF Load, history, IInv, TypeOK
<1>6. disturbed' \subseteq Msgs
  <2>1. row # NoPending => row.args.origin \in Msgs
    BY <1>1 DEF Pending, Args
  <2>2. QED
    BY <2>1 DEF Load, IInv, TypeOK
<1> HIDE DEF q
<1>7. QED
  BY <1>2, <1>4, <1>5, <1>6, QuietStep

\* A step that records a decision and nothing else.
LEMMA DecideInv ==
  ASSUME IInv, NEW m \in Msgs, NEW d, Decide(m, d),
         Justified(d, rq[m].text), d.run => rq[m].seen,
         rq[m].pc \notin {"idle", "over"},
         UNCHANGED <<plug, inst, row, history, disturbed>>
  PROVE  IInv'
<1> DEFINE q == [rq[m] EXCEPT !.does = d, !.pc = IF d.run THEN "run" ELSE "save"]
<1>1. q \in Requests /\ Sound(q)
  BY DecideSound
<1>2. rq' = [rq EXCEPT ![m] = q]
  BY DEF Decide, IInv, TypeOK
<1>3. disturbed' \subseteq Msgs
  BY DEF IInv, TypeOK
<1> HIDE DEF q
<1>4. QED
  BY <1>1, <1>2, <1>3, QuietStep DEF history

\* So does one that ends the request.
LEMMA EndInv ==
  ASSUME IInv, NEW m \in Msgs, End(m),
         UNCHANGED <<plug, inst, row, history>>, disturbed' \subseteq Msgs
  PROVE  IInv'
<1> DEFINE q == [Idle EXCEPT !.pc = "over"]
<1>1. q \in Requests
  BY IdleTyped DEF Requests
<1>2. q.snap = NoPending /\ q.does = Say(NoPending) /\ q.pc = "over"
  BY DEF Idle
<1>3. Justified(Say(NoPending), q.text)
  BY DecisionTypes DEF Justified, Say, Decisions
<1>4. Sound(q)
  BY <1>2, <1>3 DEF Sound, Recorded
<1>5. rq' = [rq EXCEPT ![m] = q]
  BY DEF End
<1> HIDE DEF q
<1>6. QED
  BY <1>1, <1>4, <1>5, QuietStep DEF history

LEMMA GotoClassifyInv ==
  ASSUME IInv, NEW m \in Msgs, Goto(m, "classify"), rq[m].seen,
         UNCHANGED <<plug, inst, row, history, disturbed>>
  PROVE  IInv'
<1> DEFINE q == [rq[m] EXCEPT !.pc = "classify"]
<1>1. rq[m] \in Requests /\ Sound(rq[m])
  BY DEF IInv, TypeOK
<1>2. q \in Requests
  BY <1>1 DEF Requests
<1>3. /\ q.snap = rq[m].snap /\ q.text = rq[m].text /\ q.does = rq[m].does
      /\ q.seen = rq[m].seen /\ q.pc = "classify"
  BY <1>1 DEF Requests
<1>4. Sound(q)
  BY <1>1, <1>3 DEF Sound
<1>5. rq' = [rq EXCEPT ![m] = q] /\ disturbed' \subseteq Msgs
  BY DEF Goto, IInv, TypeOK
<1> HIDE DEF q
<1>6. QED
  BY <1>2, <1>4, <1>5, QuietStep DEF history

-----------------------------------------------------------------------------
(* One lemma per action that is not a lemma above.                         *)

\* The decision to say something and forget the action is always justified.
LEMMA GiveUpJustified ==
  ASSUME NEW text
  PROVE  Justified(Say(NoPending), text) /\ ~Say(NoPending).run
BY DecisionTypes DEF Justified, Say, Decisions

LEMMA HandlePendingInv ==
  ASSUME IInv, NEW m \in Msgs, HandlePending(m)
  PROVE  IInv'
<1>1. rq[m] \in Requests /\ Sound(rq[m]) /\ plug \in Shapes /\ rq[m].pc = "orchestrate"
  BY DEF IInv, TypeOK, HandlePending
<1>2. CASE inst = "eligible"
  <2>1. PICK d \in HandlePendingAction(rq[m].snap, rq[m].text) : Decide(m, d)
    BY <1>2 DEF HandlePending
  <2>2. rq[m].snap \in Pending /\ rq[m].snap # NoPending /\ Recorded(rq[m].snap)
    BY <1>1 DEF HandlePending, Requests, Sound
  <2>3. Justified(d, rq[m].text)
    BY <1>1, <2>2, HandledJustified
  <2>4. rq[m].seen
    BY <1>1, <1>2 DEF Sound
  <2>5. QED
    BY <1>1, <2>1, <2>3, <2>4, DecideInv DEF HandlePending
<1>3. CASE inst # "eligible"
  <2>1. End(m) /\ UNCHANGED <<plug, inst, row, history>>
    BY <1>3 DEF HandlePending
  <2>2. disturbed' \subseteq Msgs
    BY DEF HandlePending, IInv, TypeOK
  <2>3. QED
    BY <2>1, <2>2, EndInv
<1>4. QED
  BY <1>2, <1>3

LEMMA ListPluginsInv ==
  ASSUME IInv, NEW m \in Msgs, ListPlugins(m)
  PROVE  IInv'
<1>1. rq[m] \in Requests /\ Sound(rq[m]) /\ rq[m].pc = "orchestrate"
  BY DEF IInv, TypeOK, ListPlugins
<1>2. UNCHANGED <<plug, inst, row, history, disturbed>>
  BY DEF ListPlugins
<1>3. CASE inst = "eligible"
  <2>1. Goto(m, "classify") /\ rq[m].seen
    BY <1>1, <1>3 DEF ListPlugins, Sound
  <2>2. QED
    BY <1>2, <2>1, GotoClassifyInv
<1>4. CASE inst # "eligible"
  <2>1. Decide(m, Say(NoPending))
    BY <1>4 DEF ListPlugins
  <2>2. QED
    BY <1>1, <1>2, <2>1, GiveUpJustified, DecideInv
<1>5. QED
  BY <1>3, <1>4

LEMMA ClassifyInv ==
  ASSUME IInv, NEW m \in Msgs, Classify(m)
  PROVE  IInv'
<1>1. Sound(rq[m]) /\ plug \in Shapes /\ rq[m].pc = "classify"
  BY DEF IInv, TypeOK, Classify
<1>2. rq[m].seen
  BY <1>1 DEF Sound
<1>3. UNCHANGED <<plug, inst, row, history, disturbed>>
  BY DEF Classify
<1>4. CASE Decide(m, Say(NoPending))
  BY <1>1, <1>2, <1>3, <1>4, GiveUpJustified, DecideInv
<1>5. ASSUME NEW a \in Classified(m), NEW d \in AdvancePlugin(a, rq[m].text), Decide(m, d)
      PROVE  IInv'
  <2>1. a \in Args
    BY <1>1, ClassifiedTypes
  <2>2. Advanced(d)
    BY <1>1, <2>1, PluginAdvanced
  <2>3. Justified(d, rq[m].text)
    BY <2>2, AdvancedJustified
  <2>4. QED
    BY <1>1, <1>2, <1>3, <1>5, <2>3, DecideInv
<1>6. QED
  BY <1>4, <1>5 DEF Classify

LEMMA QuestionJustified ==
  ASSUME NEW args \in Args, NEW text, NEW d \in ComposioQuestions(args)
  PROVE  Justified(d, text) /\ ~d.run
<1>1. plug.kind = "composio"
  BY DEF ComposioQuestions
<1>2. PICK stage \in Composio : d = Say([args |-> args, stage |-> stage, asks |-> ""])
  BY <1>1 DEF ComposioQuestions, Composio
<1>3. [args |-> args, stage |-> stage, asks |-> ""] \in Pending
  BY <1>2 DEF Pending, Stages, Composio
<1>4. QED
  BY <1>1, <1>2, <1>3, DecisionTypes DEF Justified, Say

LEMMA ExecutePluginInv ==
  ASSUME IInv, NEW m \in Msgs, ExecutePlugin(m)
  PROVE  IInv'
<1>1. rq[m] \in Requests /\ Sound(rq[m]) /\ rq[m].pc = "run"
  BY DEF IInv, TypeOK, ExecutePlugin
<1>2. PICK args \in rq[m].does.args :
        /\ ran' = ran \cup {[msg |-> m, text |-> rq[m].text, seen |-> rq[m].seen, args |-> args]}
        /\ \E d \in {Say(NoPending)} \cup ComposioQuestions(args) : Decide(m, d)
  BY DEF ExecutePlugin
<1>3. PICK d \in {Say(NoPending)} \cup ComposioQuestions(args) : Decide(m, d)
  BY <1>2
<1>4. UNCHANGED <<plug, inst, row, asked, refused, disturbed>>
  BY DEF ExecutePlugin
<1>5. args \in Args
  BY <1>1, <1>2 DEF Requests, Decisions
<1>6. rq[m].seen /\ (NeedsConfirmation(args) => rq[m].text = "yes" /\ args \in asked)
  BY <1>1, <1>2 DEF Sound, Justified
<1>7. Justified(d, rq[m].text) /\ ~d.run
  BY <1>3, <1>5, GiveUpJustified, QuestionJustified
<1> DEFINE r == [msg |-> m, text |-> rq[m].text, seen |-> rq[m].seen, args |-> args]
<1>8. PICK q \in Requests :
        /\ q = [rq[m] EXCEPT !.does = d, !.pc = IF d.run THEN "run" ELSE "save"]
        /\ Sound(q)
  BY <1>1, <1>7, DecideSound
<1>9. rq' = [rq EXCEPT ![m] = q]
  BY <1>3, <1>8 DEF Decide
<1>10. r \in [msg: Msgs, text: Texts, seen: BOOLEAN, args: Args]
  BY <1>1, <1>5 DEF Requests
<1>11. ran' = ran \cup {r} /\ r.seen /\ r.args = args /\ r.text = rq[m].text
  BY <1>2, <1>6
<1> HIDE DEF r
<1>12. Sound(q)'
  BY <1>4, <1>8 DEF Sound, Recorded, Justified, NeedsConfirmation
<1>13. rq' \in [Msgs -> Requests] /\ \A n \in Msgs : Sound(rq[n])'
  BY <1>4, <1>8, <1>9, <1>12, OneRequest
<1>14. TypeOK'
  BY <1>4, <1>10, <1>11, <1>13 DEF IInv, TypeOK
<1>15. Recorded(row)'
  BY <1>4 DEF IInv, Recorded
<1>16. RunsAreConfirmed'
  BY <1>4, <1>6, <1>11 DEF IInv, RunsAreConfirmed, NeedsConfirmation
<1>17. RunsWhatIsInstalled'
  BY <1>11 DEF IInv, RunsWhatIsInstalled
<1>18. QED
  BY <1>13, <1>14, <1>15, <1>16, <1>17 DEF IInv

LEMMA SaveInv ==
  ASSUME IInv, NEW m \in Msgs, Save(m)
  PROVE  IInv'
<1> DEFINE q == [Idle EXCEPT !.pc = "over"]
<1>1. /\ rq[m] \in Requests
      /\ Sound(rq[m])
      /\ row' = rq[m].does.next
      /\ row' \in Pending \cup {NoPending}
  BY DEF IInv, TypeOK, Save, Requests, Decisions
<1>2. /\ UNCHANGED <<plug, inst, ran, disturbed>>
      /\ rq' = [rq EXCEPT ![m] = q]
      /\ asked \subseteq asked'
      /\ row' # NoPending /\ row'.stage = "confirm" => row'.args \in asked'
  BY DEF Save, End
<1>3. asked' \subseteq Args
  <2>1. row' # NoPending => row'.args \in Args
    BY <1>1 DEF Pending
  <2>2. QED
    BY <2>1 DEF Save, IInv, TypeOK
<1>4. refused' \subseteq Msgs
  <2>1. rq[m].snap # NoPending => rq[m].snap.args.origin \in Msgs
    BY <1>1 DEF Requests, Pending, Args
  <2>2. QED
    BY <2>1 DEF Save, IInv, TypeOK
<1>5. Recorded(row)'
  BY <1>1, <1>2 DEF Recorded, Sound, Justified
<1>6. q \in Requests /\ q.snap = NoPending /\ q.does = Say(NoPending) /\ q.pc = "over"
  BY IdleTyped DEF Requests, Idle
<1> HIDE DEF q
<1>7. Sound(q)'
  <2>1. Justified(Say(NoPending), q.text)'
    BY DecisionTypes DEF Justified, Say, Decisions
  <2>2. QED
    BY <1>6, <2>1 DEF Sound, Recorded, Justified
<1>8. rq' \in [Msgs -> Requests] /\ \A n \in Msgs : Sound(rq[n])'
  BY <1>2, <1>6, <1>7, OneRequest
<1>9. TypeOK'
  BY <1>1, <1>2, <1>3, <1>4, <1>8 DEF IInv, TypeOK
<1>10. RunsAreConfirmed' /\ RunsWhatIsInstalled'
  BY <1>2 DEF IInv, RunsAreConfirmed, RunsWhatIsInstalled, NeedsConfirmation
<1>11. QED
  BY <1>5, <1>8, <1>9, <1>10 DEF IInv

LEMMA FailInv ==
  ASSUME IInv, NEW m \in Msgs, Fail(m)
  PROVE  IInv'
<1>1. \A r \in ran : r.args.origin \in Msgs
  BY DEF IInv, TypeOK, Args
<1>2. disturbed' \subseteq Msgs
  BY <1>1 DEF Fail, IInv, TypeOK
<1>3. QED
  BY <1>2, EndInv DEF Fail

LEMMA ChangeInstallInv ==
  ASSUME IInv, ChangeInstall
  PROVE  IInv'
<1>1. UNCHANGED <<plug, row, ran, asked, refused, disturbed>>
  BY DEF ChangeInstall, history
<1>2. inst' \in {"eligible", "disabled", "incomplete", "gone"}
  BY DEF ChangeInstall
<1>3. ASSUME NEW m \in Msgs
      PROVE  rq'[m] \in Requests /\ Sound(rq[m])'
  <2> DEFINE q == [rq[m] EXCEPT !.seen = @ \/ (Active(m) /\ inst' = "eligible")]
  <2>1. rq[m] \in Requests /\ Sound(rq[m]) /\ rq[m].seen \in BOOLEAN
    BY DEF IInv, TypeOK, Requests
  <2>2. rq'[m] = q
    BY DEF ChangeInstall
  <2>3. q \in Requests
    BY <2>1 DEF Requests
  <2>4. /\ q.snap = rq[m].snap /\ q.text = rq[m].text /\ q.does = rq[m].does
        /\ q.pc = rq[m].pc
        /\ q.seen = (rq[m].seen \/ (Active(m) /\ inst' = "eligible"))
    BY <2>1 DEF Requests
  <2> HIDE DEF q
  <2>5. Recorded(rq[m].snap)' /\ Justified(rq[m].does, rq[m].text)'
    BY <1>1, <2>1, <2>2, <2>4 DEF Sound, Recorded, Justified, NeedsConfirmation
  <2>6. rq'[m].pc \notin {"idle", "over"} /\ inst' = "eligible" => rq'[m].seen
    BY <2>2, <2>4 DEF Active
  <2>7. rq'[m].pc \in {"classify", "run"} => rq'[m].seen
    BY <2>1, <2>2, <2>4 DEF Sound
  <2>8. rq'[m].pc = "run" => rq'[m].does.run
    BY <2>1, <2>2, <2>4 DEF Sound
  <2>9. QED
    BY <2>2, <2>3, <2>5, <2>6, <2>7, <2>8 DEF Sound
<1>4. rq' \in [Msgs -> Requests]
  BY <1>3 DEF ChangeInstall
<1>5. TypeOK'
  BY <1>1, <1>2, <1>4 DEF IInv, TypeOK
<1>6. Recorded(row)' /\ RunsAreConfirmed' /\ RunsWhatIsInstalled'
  BY <1>1 DEF IInv, Recorded, RunsAreConfirmed, RunsWhatIsInstalled, NeedsConfirmation
<1>7. QED
  BY <1>3, <1>5, <1>6 DEF IInv

LEMMA StutterInv ==
  ASSUME IInv, UNCHANGED vars
  PROVE  IInv'
BY DEF IInv, vars, TypeOK, Recorded, Sound, Justified, RunsAreConfirmed,
       RunsWhatIsInstalled, NeedsConfirmation

LEMMA NextInv == IInv /\ [Next]_vars => IInv'
<1> SUFFICES ASSUME IInv, [Next]_vars PROVE IInv'
  OBVIOUS
<1>1. plug.kind \in Kinds
  BY ShapesAssumption DEF IInv, TypeOK
<1>2. ASSUME NEW m \in Msgs, NEW text \in TextsFor(plug.kind), Send(m, text) PROVE IInv'
  <2>1. text \in Texts
    BY DEF TextsFor, Texts
  <2>2. QED
    BY <1>2, <2>1, SendInv
<1>3. ASSUME NEW m \in Msgs, Load(m) PROVE IInv'
  BY <1>3, LoadInv
<1>4. ASSUME NEW m \in Msgs, HandlePending(m) PROVE IInv'
  BY <1>4, HandlePendingInv
<1>5. ASSUME NEW m \in Msgs, ListPlugins(m) PROVE IInv'
  BY <1>5, ListPluginsInv
<1>6. ASSUME NEW m \in Msgs, Classify(m) PROVE IInv'
  BY <1>6, ClassifyInv
<1>7. ASSUME NEW m \in Msgs, ExecutePlugin(m) PROVE IInv'
  BY <1>7, ExecutePluginInv
<1>8. ASSUME NEW m \in Msgs, Save(m) PROVE IInv'
  BY <1>8, SaveInv
<1>9. ASSUME NEW m \in Msgs, Fail(m) PROVE IInv'
  BY <1>9, FailInv
<1>10. CASE ChangeInstall
  BY <1>10, ChangeInstallInv
<1>11. CASE UNCHANGED vars
  BY <1>11, StutterInv
<1>12. QED
  BY <1>2, <1>3, <1>4, <1>5, <1>6, <1>7, <1>8, <1>9, <1>10, <1>11 DEF Next

-----------------------------------------------------------------------------
(* The theorems.                                                           *)

\* IInv holds in every reachable state.
THEOREM InductiveInvariant == Spec => []IInv
<1>1. Init => IInv
  BY InitInv
<1>2. IInv /\ [Next]_vars => IInv'
  BY NextInv
<1>3. QED
  BY <1>1, <1>2, PTL DEF Spec

\* Every variable keeps its type, whatever the number of messages: a pending
\* action is always one of the stages the orchestrator can resume, with
\* arguments of the catalog's plugins.
THEOREM TypeCorrect == Spec => []TypeOK
<1>1. IInv => TypeOK
  BY DEF IInv
<1>2. QED
  BY <1>1, InductiveInvariant, PTL

\* For any number of concurrent messages, whatever needs a confirmation runs
\* only for a yes, with exactly the arguments of a prompt that was recorded.
THEOREM ConfirmedBeforeRun == Spec => []RunsAreConfirmed
<1>1. IInv => RunsAreConfirmed
  BY DEF IInv
<1>2. QED
  BY <1>1, InductiveInvariant, PTL

\* For any number of messages and any toggling of the install, a request runs
\* a plugin only if the plugin was eligible at some moment of that request.
THEOREM OnlyInstalledRuns == Spec => []RunsWhatIsInstalled
<1>1. IInv => RunsWhatIsInstalled
  BY DEF IInv
<1>2. QED
  BY <1>1, InductiveInvariant, PTL

-----------------------------------------------------------------------------
(* Many requests in one session.                                            *)

\* the arguments a decision runs or leaves in the session
Given(d) == d.args \cup {p.args : p \in {d.next} \ {NoPending}}

\* what is lost was a doubtful answer, and is asked for
Left(p, args) ==
  /\ p.args.origin = args.origin
  /\ \A name \in p.args.missing \ args.missing :
        name \in Doubts(args) \ Doubts(p.args) /\ p.asks = name
  /\ Doubts(p.args) \subseteq Doubts(args) \cup args.missing

Keeps(d, args) ==
  /\ \A a \in d.args : Less(a, args)
  /\ d.next # NoPending => Left(d.next, args)

-----------------------------------------------------------------------------
(* A turn keeps the action and what was given for it.                      *)

LEMMA FillLess ==
  ASSUME NEW args \in Args
  PROVE  /\ \A names : Less(Fill(args, names), args)
         /\ Less(SetTime(args), args)
         /\ Less([args EXCEPT !.garbled = TRUE], args)
         /\ Less([args EXCEPT !.confirmed = TRUE], args)
         /\ \A b \in BOOLEAN : Less([args EXCEPT !.wantsSlot = b], args)
         /\ Less(args, args)
  BY DEF Less, Fill, SetTime, Args, Doubts

LEMMA KeepsLess ==
  ASSUME NEW args, NEW a, Less(a, args), NEW d, Keeps(d, a)
  PROVE  Keeps(d, args)
<1>1. ASSUME NEW x, Less(x, a) PROVE Less(x, args)
  BY <1>1 DEF Less
<1>2. ASSUME NEW p, Left(p, a) PROVE Left(p, args)
  BY <1>2 DEF Less, Left
<1> QED
  BY <1>1, <1>2 DEF Keeps

LEMMA LessIsLeft ==
  ASSUME NEW args, NEW p, Less(p.args, args)
  PROVE  Left(p, args)
BY DEF Less, Left

LEMMA SimpleKeeps ==
  ASSUME NEW args \in Args
  PROVE  /\ Keeps(Say(NoPending), args) /\ Keeps(Run(args), args)
         /\ Keeps(Confirm(args), args) /\ \A n : Keeps(Ask(args, n), args)
         /\ \A p : p.args = args => Keeps(Say(p), args)
<1>1. \A p : Say(p).args = {} /\ Say(p).next = p
  BY DEF Say
<1>2. Run(args).args = {args} /\ Run(args).next = NoPending
  BY DEF Run
<1>3. Less(args, args)
  BY FillLess
<1>4. \A p : p.args = args => Keeps(Say(p), args)
  BY <1>1, <1>3, LessIsLeft DEF Keeps
<1>5. Keeps(Say(NoPending), args)
  BY <1>1 DEF Keeps
<1>6. Keeps(Confirm(args), args) /\ \A n : Keeps(Ask(args, n), args)
  BY <1>4 DEF Confirm, Ask
<1> QED
  BY <1>2, <1>3, <1>4, <1>5, <1>6 DEF Keeps

LEMMA AskOrGoKeeps ==
  ASSUME NEW args \in Args
  PROVE  Keeps(AskOrGo(args), args)
<1>1. \/ \E n : AskOrGo(args) = Ask(args, n)
      \/ AskOrGo(args) = Confirm(args) \/ AskOrGo(args) = Run(args)
  BY DEF AskOrGo
<1> QED
  BY <1>1, SimpleKeeps

LEMMA ReminderKeeps ==
  ASSUME NEW args \in Args
  PROVE  \A d \in AdvanceReminder(args) : Keeps(d, args)
<1>1. ASSUME NEW a \in Args, Less(a, args)
      PROVE  Keeps(IF a.garbled THEN Ask(a, "remind_at") ELSE AskOrGo(a), args)
  BY <1>1, SimpleKeeps, AskOrGoKeeps, KeepsLess
<1>2. \A d \in AdvanceReminder(args) : \E a \in Args :
        Less(a, args) /\ d = IF a.garbled THEN Ask(a, "remind_at") ELSE AskOrGo(a)
  BY FillTypes, FillLess DEF AdvanceReminder
<1> QED
  BY <1>1, <1>2

LEMMA SlotKeeps ==
  ASSUME NEW args \in Args
  PROVE  \A d \in RecommendMeetingSlot(args) : Keeps(d, args)
<1>1. PICK a \in Args : a = Fill(args, {"start_time"})
  BY FillTypes
<1>2. PICK b \in Args : b = [a EXCEPT !.wantsSlot = FALSE]
  BY FillTypes
<1>3. Less(a, args) /\ Less(b, a)
  <2>1. Less(a, args)
    BY <1>1, FillLess
  <2>2. PICK no \in BOOLEAN : no = FALSE
    OBVIOUS
  <2>3. b = [a EXCEPT !.wantsSlot = no]
    BY <1>2, <2>2
  <2>4. Less(b, a)
    BY <2>3, FillLess
  <2> QED
    BY <2>1, <2>4
<1>4. Keeps(Confirm(b), args)
  BY <1>3, SimpleKeeps, KeepsLess
<1> QED
  BY <1>1, <1>2, <1>4, SimpleKeeps DEF RecommendMeetingSlot

LEMMA MeetKeeps ==
  ASSUME NEW args \in Args, NEW text
  PROVE  \A d \in AdvanceGoogleCalendarMeet(args, text) : Keeps(d, args)
<1>1. PICK a \in Args : a = [args EXCEPT !.wantsSlot = @ \/ text = "suggest"]
  BY DEF Args
<1>2. PICK b \in Args : b = Fill(a, {"start_time"})
  BY FillTypes
<1>3. Less(a, args) /\ Less(b, a)
  <2>1. /\ a.origin = args.origin /\ a.missing = args.missing
        /\ a.vague = args.vague /\ a.op = args.op
    BY <1>1 DEF Args
  <2>2. Doubts(a) = Doubts(args)
    BY <2>1 DEF Doubts
  <2>3. Less(a, args)
    BY <2>1, <2>2 DEF Less
  <2>4. Less(b, a)
    BY <1>2, FillLess
  <2> QED
    BY <2>3, <2>4
<1>4. /\ Keeps(Ask(a, "attendee_email"), args) /\ Keeps(AskOrGo(a), args)
      /\ \A d \in RecommendMeetingSlot(a) : Keeps(d, args)
  BY <1>3, SimpleKeeps, SlotKeeps, AskOrGoKeeps, KeepsLess
<1>5. Keeps(AskOrGo(b), args)
  BY <1>3, AskOrGoKeeps, KeepsLess
<1>6. AdvanceGoogleCalendarMeet(args, text) \subseteq
        {Ask(a, "attendee_email"), AskOrGo(a), AskOrGo(b)} \cup RecommendMeetingSlot(a)
  BY <1>1, <1>2 DEF AdvanceGoogleCalendarMeet
<1> QED
  BY <1>4, <1>5, <1>6

LEMMA LocationKeeps ==
  ASSUME NEW args \in Args
  PROVE  \A d \in AdvanceLocation(args) : Keeps(d, args)
<1>1. ASSUME NEW a \in Args, args.vague,
             a = [args EXCEPT !.missing = @ \cup {"place_query"}, !.vague = FALSE]
      PROVE  Keeps(Ask(a, "place_query"), args)
  <2>1. PICK p : p = [args |-> a, stage |-> "ask", asks |-> "place_query"]
    OBVIOUS
  <2>2. /\ a.origin = args.origin /\ a.missing = args.missing \cup {"place_query"}
        /\ Doubts(a) = {} /\ Doubts(args) = {"place_query"}
    BY <1>1 DEF Args, Doubts
  <2>3. Left(p, args)
    BY <2>1, <2>2 DEF Left
  <2>4. Ask(a, "place_query").args = {} /\ Ask(a, "place_query").next = p
    BY <2>1 DEF Ask, Say
  <2> QED
    BY <2>3, <2>4 DEF Keeps
<1>2. PICK a \in Args : a = Fill(args, {"location_mode"})
  BY FillTypes
<1>3. Less(a, args)
  BY <1>2, FillLess
<1>4. Keeps(AskOrGo(a), args) /\ Keeps(AskOrGo(args), args)
  BY <1>3, AskOrGoKeeps, KeepsLess
<1> QED
  BY <1>1, <1>2, <1>4, LocationIs

LEMMA PluginKeeps ==
  ASSUME NEW args \in Args, NEW text
  PROVE  \A d \in AdvancePlugin(args, text) : Keeps(d, args)
<1>1. CASE plug.kind = "reminder"
  BY <1>1, ReminderKeeps DEF AdvancePlugin
<1>2. CASE plug.kind = "meet"
  BY <1>2, MeetKeeps DEF AdvancePlugin
<1>3. CASE plug.kind = "location"
  BY <1>3, LocationKeeps DEF AdvancePlugin
<1>4. CASE plug.kind \notin {"reminder", "meet", "location"}
  <2>1. AdvancePlugin(args, text) \subseteq {Run(args), AskOrGo(args)}
    BY <1>4 DEF AdvancePlugin
  <2> QED
    BY <2>1, SimpleKeeps, AskOrGoKeeps
<1> QED
  BY <1>1, <1>2, <1>3, <1>4

LEMMA FollowUpKeeps ==
  ASSUME NEW p \in Pending, NEW text
  PROVE  \A d \in FollowUp(p, text) : Keeps(d, p.args)
<1>1. p.args \in Args
  BY DEF Pending
<1>2. \A a \in Args : Less(a, p.args) => \A d \in AdvancePlugin(a, text) : Keeps(d, p.args)
  BY PluginKeeps, KeepsLess
<1>3. \A names : Fill(p.args, names) \in Args /\ Less(Fill(p.args, names), p.args)
  BY <1>1, FillTypes, FillLess
<1>4. \A names : \A d \in AdvancePlugin(Fill(p.args, names), text) : Keeps(d, p.args)
  BY <1>2, <1>3
<1>5. CASE plug.kind = "reminder"
  <2>1. ASSUME NEW a \in Args, Less(a, p.args)
        PROVE  /\ Keeps(Ask(a, "remind_at"), p.args)
               /\ \A d \in AdvancePlugin(SetTime(a), text) : Keeps(d, p.args)
    <3>1. SetTime(a) \in Args /\ Less(SetTime(a), p.args)
      BY <2>1, FillTypes, FillLess DEF Less
    <3>2. Keeps(Ask(a, "remind_at"), p.args)
      BY <2>1, SimpleKeeps, KeepsLess
    <3> QED
      BY <1>2, <3>1, <3>2
  <2>2. Less(p.args, p.args)
    BY <1>1, FillLess
  <2>3. \A d \in ReminderFollowUp(p, text) : Keeps(d, p.args)
    BY <1>1, <1>3, <1>4, <2>1, <2>2 DEF ReminderFollowUp
  <2> QED
    BY <1>5, <2>3 DEF FollowUp
<1>6. CASE plug.kind = "meet"
  <2>1. Keeps(Say(p), p.args) /\ \A d \in RecommendMeetingSlot(p.args) : Keeps(d, p.args)
    BY <1>1, SimpleKeeps, SlotKeeps
  <2>2. \A d \in MeetFollowUp(p, text) : Keeps(d, p.args)
    BY <1>4, <2>1 DEF MeetFollowUp
  <2> QED
    BY <1>6, <2>2 DEF FollowUp
<1>7. CASE plug.kind = "location"
  BY <1>2, <1>7, LocationReplies DEF FollowUp
<1>8. CASE plug.kind \notin {"reminder", "meet", "location"}
  BY <1>4, <1>8 DEF FollowUp
<1> QED
  BY <1>5, <1>6, <1>7, <1>8

LEMMA HandledKeeps ==
  ASSUME NEW p \in Pending, NEW text, NEW d \in HandlePendingAction(p, text)
  PROVE  /\ Keeps(d, p.args)
         /\ p.stage \in {"confirm", "composio_confirm"} /\ text = "no" => d = Say(NoPending)
<1>1. p.args \in Args /\ p.stage \in Stages
  BY DEF Pending
<1>2. PICK sure \in Args : sure = [p.args EXCEPT !.confirmed = TRUE]
  BY <1>1, FillTypes
<1>3. /\ Keeps(Say(NoPending), p.args) /\ Keeps(Say(p), p.args)
      /\ Keeps(Run(p.args), p.args)
  BY <1>1, SimpleKeeps
<1>4. Keeps(Run(sure), p.args)
  <2>1. Keeps(Run(sure), sure)
    BY <1>2, SimpleKeeps
  <2>2. Less(sure, p.args)
    BY <1>1, <1>2, FillLess
  <2> QED
    BY <2>1, <2>2, KeepsLess
<1>5. CASE p.stage = "ask"
  BY <1>5, FollowUpKeeps DEF HandlePendingAction
<1>6. CASE p.stage = "confirm"
  BY <1>3, <1>6 DEF HandlePendingAction, Confirmation
<1>7. CASE p.stage \in Composio
  BY <1>2, <1>3, <1>4, <1>7 DEF HandlePendingAction, ComposioPending, Composio
<1> QED
  BY <1>1, <1>5, <1>6, <1>7 DEF Stages, Composio
-----------------------------------------------------------------------------
(* Who holds which action.  An action is named by the message that began it. *)

\* the action that request m is about, once it has decided
Source(m, q) == IF q.snap = NoPending THEN m ELSE q.snap.args.origin

\* what it decided is about that action, and forgets nothing
Follows(m, q) ==
  /\ \A a \in Given(q.does) : a.origin = Source(m, q)
  /\ q.snap # NoPending => Keeps(q.does, q.snap.args)

Refusal(q) ==
  q.snap # NoPending /\ q.snap.stage \in {"confirm", "composio_confirm"} /\ q.text = "no"

Turn(m, q) ==
  /\ q.pc \in {"idle", "load", "classify", "over"} => q.snap = NoPending
  /\ q.pc \in {"run", "save"} => Follows(m, q)
  /\ q.pc \in {"run", "save"} /\ Refusal(q) => q.pc = "save" /\ q.does.next = NoPending

OneHolder ==
  \A m, n, o \in Msgs :
     m # n /\ Holding(rq[m], o) /\ Holding(rq[n], o) => o \in disturbed

\* a holder's copy is the row, as long as the row has the action
CopyIsRow ==
  \A m, o \in Msgs : Holding(rq[m], o) /\ InRow(o) => o \in disturbed \/ row = rq[m].snap

\* before the message that begins an action is over nobody has heard of the action
Unheard(o) ==
  /\ Nowhere(o) /\ o \notin refused
  /\ \A r \in ran : r.args.origin = o =>
        r.msg = o /\ rq[o].pc = "save" /\ rq[o].snap = NoPending

\* the request that ran r is about to clear the session, or has
Finished(r) ==
  \/ /\ rq[r.msg].pc = "save" /\ Source(r.msg, rq[r.msg]) = r.args.origin
     /\ rq[r.msg].does.next = NoPending
     /\ \A n \in Msgs \ {r.msg} : ~Holding(rq[n], r.args.origin)
  \/ rq[r.msg].pc = "over" /\ Nowhere(r.args.origin)

TurnsInv ==
  /\ \A m \in Msgs : Turn(m, rq[m])
  /\ OneHolder
  /\ CopyIsRow
  /\ \A o \in Msgs : rq[o].pc # "over" => Unheard(o)
  /\ plug.kind # "composio" => \A r \in ran : r.args.origin \in disturbed \/ Finished(r)
  /\ \A o \in refused : o \in disturbed \/ Nowhere(o)
  /\ RunsOnce

\* every action is named by a message
LEMMA Origins ==
  ASSUME TypeOK
  PROVE  /\ \A r \in ran : r.msg \in Msgs /\ r.args.origin \in Msgs
         /\ \A m \in Msgs : rq[m].snap # NoPending => rq[m].snap.args.origin \in Msgs
         /\ row # NoPending => row.args.origin \in Msgs
  BY DEF TypeOK, Requests, Pending, Args

LEMMA TurnsInit == Init => TurnsInv
<1> SUFFICES ASSUME Init PROVE TurnsInv
  OBVIOUS
<1>1. \A m \in Msgs : rq[m].pc = "idle" /\ rq[m].snap = NoPending
  BY DEF Init, Idle
<1>2. row = NoPending /\ ran = {} /\ refused = {}
  BY DEF Init
<1>3. \A m \in Msgs : Turn(m, rq[m])
  BY <1>1 DEF Turn
<1>4. \A o \in Msgs : Unheard(o)
  BY <1>1, <1>2 DEF Unheard, Nowhere, InRow, Holding
<1> QED
  BY <1>1, <1>2, <1>3, <1>4 DEF TurnsInv, OneHolder, CopyIsRow, RunsOnce, Holding

\* a request goes on, and neither ends nor changes a row
LEMMA QuietTurn ==
  ASSUME IInv, TurnsInv, NEW m \in Msgs, NEW q \in Requests,
         rq' = [rq EXCEPT ![m] = q], q.snap = rq[m].snap,
         rq[m].pc \notin {"save", "over"}, q.pc # "over", Turn(m, q),
         UNCHANGED <<plug, row, ran, refused, disturbed>>
  PROVE  TurnsInv'
<1>1. rq'[m] = q /\ \A n \in Msgs \ {m} : rq'[n] = rq[n]
  BY DEF IInv, TypeOK
<1>2. \A n \in Msgs : rq'[n].snap = rq[n].snap
  BY <1>1
<1>3. \A n \in Msgs : Turn(n, rq[n])'
  <2> SUFFICES ASSUME NEW n \in Msgs PROVE Turn(n, rq[n])'
    OBVIOUS
  <2>1. CASE n = m
    BY <1>1, <2>1 DEF Turn, Follows, Source, Refusal, Given, Keeps, Less, Left, Doubts
  <2>2. CASE n # m
    <3>1. Turn(n, rq[n]) /\ rq'[n] = rq[n]
      BY <1>1, <2>2 DEF TurnsInv
    <3> QED
      BY <3>1 DEF Turn, Follows, Source, Refusal, Given, Keeps, Less, Left, Doubts
  <2> QED
    BY <2>1, <2>2
<1>4. OneHolder' /\ CopyIsRow' /\ \A o : Nowhere(o) => Nowhere(o)'
  BY <1>2 DEF TurnsInv, OneHolder, CopyIsRow, Nowhere, Holding, InRow
<1>5. \A o \in Msgs : rq'[o].pc # "over" => Unheard(o)'
  <2> SUFFICES ASSUME NEW o \in Msgs, rq'[o].pc # "over" PROVE Unheard(o)'
    OBVIOUS
  <2>1. Unheard(o) /\ (o = m => \A r \in ran : r.args.origin # o)
    BY <1>1 DEF TurnsInv, Unheard
  <2> QED
    BY <1>1, <1>4, <2>1 DEF Unheard
<1>6. ASSUME plug'.kind # "composio", NEW r \in ran', r.args.origin \notin disturbed'
      PROVE  Finished(r)'
  <2>1. Finished(r) /\ r.msg \in Msgs
    BY <1>6, Origins DEF TurnsInv, IInv
  <2>2. r.msg # m /\ rq'[r.msg] = rq[r.msg]
    BY <1>1, <2>1 DEF Finished
  <2> QED
    BY <1>2, <1>4, <2>1, <2>2 DEF Finished, Source, Holding
<1>7. \A o \in refused' : o \in disturbed' \/ Nowhere(o)'
  BY <1>4 DEF TurnsInv
<1>8. RunsOnce'
  BY DEF TurnsInv, RunsOnce
<1> QED
  BY <1>3, <1>4, <1>5, <1>6, <1>7, <1>8 DEF TurnsInv
-----------------------------------------------------------------------------
(* The steps of a request, first those that only think.                    *)

LEMMA SendTurn ==
  ASSUME IInv, TurnsInv, NEW m \in Msgs, NEW text \in Texts, Send(m, text)
  PROVE  TurnsInv'
<1>1. PICK q \in Requests :
        q = [Idle EXCEPT !.pc = "load", !.text = text, !.seen = inst = "eligible"]
  BY IdleTyped DEF Requests
<1>2. q.pc = "load" /\ q.snap = NoPending
  BY <1>1 DEF Idle
<1>3. Turn(m, q)
  BY <1>2 DEF Turn
<1>4. rq[m].pc = "idle" /\ rq[m].snap = NoPending
  BY DEF Send, TurnsInv, Turn
<1>5. rq' = [rq EXCEPT ![m] = q] /\ UNCHANGED <<plug, row, ran, refused, disturbed>>
  BY <1>1 DEF Send, history
<1> QED
  BY <1>2, <1>3, <1>4, <1>5, QuietTurn

\* a decision about the action a request has in hand, or about one it begins
LEMMA DecideTurn ==
  ASSUME IInv, TurnsInv, NEW m \in Msgs, NEW d \in Decisions, Decide(m, d),
         rq[m].pc \in {"orchestrate", "classify"}, NEW args, Keeps(d, args),
         args.origin = Source(m, rq[m]),
         rq[m].snap # NoPending => args = rq[m].snap.args,
         Refusal(rq[m]) => d = Say(NoPending),
         UNCHANGED <<plug, row, ran, refused, disturbed>>
  PROVE  TurnsInv'
<1>1. rq[m] \in Requests
  BY DEF IInv, TypeOK
<1>2. PICK q \in Requests : q = [rq[m] EXCEPT !.does = d, !.pc = IF d.run THEN "run" ELSE "save"]
  BY <1>1 DEF Requests
<1>3. /\ q.does = d /\ q.snap = rq[m].snap /\ q.text = rq[m].text
      /\ q.pc = IF d.run THEN "run" ELSE "save"
  BY <1>1, <1>2 DEF Requests
<1>4. rq' = [rq EXCEPT ![m] = q]
  BY <1>1, <1>2 DEF Decide, Requests, IInv, TypeOK
<1>5. Follows(m, q)
  BY <1>3 DEF Follows, Keeps, Less, Left, Given, Source
<1>6. Refusal(q) => q.pc = "save" /\ q.does.next = NoPending
  BY <1>3 DEF Refusal, Say
<1>7. Turn(m, q)
  BY <1>3, <1>5, <1>6 DEF Turn
<1> QED
  BY <1>3, <1>4, <1>7, QuietTurn

LEMMA ListPluginsTurn ==
  ASSUME IInv, TurnsInv, NEW m \in Msgs, ListPlugins(m)
  PROVE  TurnsInv'
<1>1. /\ rq[m].pc = "orchestrate" /\ rq[m].snap = NoPending /\ rq[m] \in Requests
      /\ UNCHANGED <<plug, row, ran, refused, disturbed>>
  BY DEF ListPlugins, history, IInv, TypeOK
<1>2. CASE inst = "eligible"
  <2>1. PICK q \in Requests : q = [rq[m] EXCEPT !.pc = "classify"]
    BY <1>1 DEF Requests
  <2>2. q.pc = "classify" /\ q.snap = NoPending
    BY <1>1, <2>1 DEF Requests
  <2>3. rq' = [rq EXCEPT ![m] = q]
    BY <1>1, <1>2, <2>1 DEF ListPlugins, Goto, Requests, IInv, TypeOK
  <2>4. Turn(m, q)
    BY <2>2 DEF Turn
  <2> QED
    BY <1>1, <2>2, <2>3, <2>4, QuietTurn
<1>3. CASE inst # "eligible"
  <2>1. Decide(m, Say(NoPending))
    BY <1>3 DEF ListPlugins
  <2>2. PICK d \in Decisions : d = Say(NoPending)
    BY GiveUpJustified DEF Justified
  <2>3. PICK args : args = [origin |-> m]
    OBVIOUS
  <2>4. d.args = {} /\ d.next = NoPending
    BY <2>2 DEF Say
  <2>5. Keeps(d, args) /\ args.origin = Source(m, rq[m])
    BY <1>1, <2>3, <2>4 DEF Keeps, Source
  <2>6. Decide(m, d)
    BY <2>1, <2>2
  <2> QED
    BY <1>1, <2>2, <2>5, <2>6, DecideTurn
<1> QED
  BY <1>2, <1>3

LEMMA ClassifyTurn ==
  ASSUME IInv, TurnsInv, NEW m \in Msgs, Classify(m)
  PROVE  TurnsInv'
<1>1. /\ rq[m].pc = "classify" /\ rq[m] \in Requests /\ plug \in Shapes
      /\ UNCHANGED <<plug, row, ran, refused, disturbed>>
  BY DEF Classify, history, IInv, TypeOK
<1>2. rq[m].snap = NoPending
  BY <1>1 DEF TurnsInv, Turn
<1>3. ASSUME NEW d, Decide(m, d), d \in Decisions, NEW args, args.origin = m, Keeps(d, args)
      PROVE  TurnsInv'
  <2>1. args.origin = Source(m, rq[m]) /\ ~Refusal(rq[m])
    BY <1>2, <1>3 DEF Source, Refusal
  <2> QED
    BY <1>1, <1>2, <1>3, <2>1, DecideTurn
<1>4. ASSUME Decide(m, Say(NoPending)) PROVE TurnsInv'
  <2>1. PICK args : args = [origin |-> m]
    OBVIOUS
  <2>2. PICK d : d = Say(NoPending)
    OBVIOUS
  <2>3. d.args = {} /\ d.next = NoPending /\ d \in Decisions
    BY <2>2, GiveUpJustified DEF Say, Justified
  <2>4. Keeps(d, args) /\ Decide(m, d)
    BY <1>4, <2>2, <2>3 DEF Keeps
  <2> QED
    BY <1>3, <2>1, <2>3, <2>4
<1>5. ASSUME NEW a \in Classified(m), NEW d \in AdvancePlugin(a, rq[m].text), Decide(m, d)
      PROVE  TurnsInv'
  <2>1. a \in Args /\ a.origin = m
    BY <1>1, ClassifiedTypes DEF Classified, ClassifiedAs
  <2>2. Keeps(d, a) /\ d \in Decisions
    BY <1>1, <2>1, PluginKeeps, PluginAdvanced DEF Advanced
  <2> QED
    BY <1>3, <1>5, <2>1, <2>2
<1> QED
  BY <1>4, <1>5 DEF Classify

\* a step that leaves every request at its turn
LEMMA SameTurns ==
  ASSUME IInv, TurnsInv, UNCHANGED <<plug, row, ran, refused, disturbed>>,
         \A m \in Msgs : /\ rq'[m].pc = rq[m].pc /\ rq'[m].snap = rq[m].snap
                         /\ rq'[m].text = rq[m].text /\ rq'[m].does = rq[m].does
  PROVE  TurnsInv'
<1>1. \A r \in ran : r.msg \in Msgs
  BY Origins DEF IInv
<1>2. \A m \in Msgs : Turn(m, rq[m])'
  BY DEF TurnsInv, Turn, Follows, Source, Refusal, Given, Keeps, Less, Left, Doubts
<1>3. OneHolder' /\ CopyIsRow' /\ \A o : Nowhere(o) => Nowhere(o)'
  BY DEF TurnsInv, OneHolder, CopyIsRow, Nowhere, Holding, InRow
<1>4. \A o \in Msgs : rq'[o].pc # "over" => Unheard(o)'
  BY <1>3 DEF TurnsInv, Unheard
<1>5. ASSUME plug'.kind # "composio", NEW r \in ran', r.args.origin \notin disturbed'
      PROVE  Finished(r)'
  <2>1. Finished(r) /\ r.msg \in Msgs
    BY <1>1, <1>5 DEF TurnsInv
  <2> QED
    BY <1>3, <2>1 DEF Finished, Source, Holding
<1>6. (\A o \in refused' : o \in disturbed' \/ Nowhere(o)') /\ RunsOnce'
  BY <1>3 DEF TurnsInv, RunsOnce
<1> QED
  BY <1>2, <1>3, <1>4, <1>5, <1>6 DEF TurnsInv

LEMMA ChangeInstallTurn ==
  ASSUME IInv, TurnsInv, ChangeInstall
  PROVE  TurnsInv'
<1>1. ASSUME NEW m \in Msgs
      PROVE  /\ rq'[m].pc = rq[m].pc /\ rq'[m].snap = rq[m].snap
             /\ rq'[m].text = rq[m].text /\ rq'[m].does = rq[m].does
  <2>1. rq[m] \in Requests
    BY DEF IInv, TypeOK
  <2>2. rq'[m] = [rq[m] EXCEPT !.seen = @ \/ (Active(m) /\ inst' = "eligible")]
    BY DEF ChangeInstall
  <2> QED
    BY <2>1, <2>2 DEF Requests
<1>2. UNCHANGED <<plug, row, ran, refused, disturbed>>
  BY DEF ChangeInstall, history
<1> QED
  BY <1>1, <1>2, SameTurns

LEMMA HandlePendingDecides ==
  ASSUME IInv, TurnsInv, NEW m \in Msgs, HandlePending(m), inst = "eligible"
  PROVE  TurnsInv'
<1>1. /\ rq[m].pc = "orchestrate" /\ rq[m].snap # NoPending /\ rq[m] \in Requests
      /\ UNCHANGED <<plug, row, ran, refused, disturbed>> /\ plug \in Shapes
  BY DEF HandlePending, history, IInv, TypeOK
<1>2. PICK p \in Pending : p = rq[m].snap
  BY <1>1 DEF Requests
<1>3. PICK d \in HandlePendingAction(p, rq[m].text) : Decide(m, d)
  BY <1>2 DEF HandlePending
<1>4. Recorded(p)
  BY <1>2 DEF IInv, Sound
<1>5. d \in Decisions
  BY <1>1, <1>2, <1>3, <1>4, HandledJustified DEF Justified
<1>6. Keeps(d, p.args) /\ (Refusal(rq[m]) => d = Say(NoPending))
  BY <1>2, <1>3, HandledKeeps DEF Refusal
<1>7. PICK args : args = p.args
  OBVIOUS
<1>8. args.origin = Source(m, rq[m]) /\ args = rq[m].snap.args /\ Keeps(d, args)
  BY <1>1, <1>2, <1>6, <1>7 DEF Source
<1> QED
  BY <1>1, <1>3, <1>5, <1>6, <1>8, DecideTurn

-----------------------------------------------------------------------------
(* A request ends, loads the session, runs the plugin, saves the session.  *)

\* what ends without saving leaves no run behind that nobody counts as disturbed
LEMMA EndTurn ==
  ASSUME IInv, TurnsInv, NEW m \in Msgs, End(m), Active(m),
         disturbed \subseteq disturbed',
         rq[m].pc = "save" => \A r \in ran : r.msg = m => r.args.origin \in disturbed',
         UNCHANGED <<plug, row, ran, refused>>
  PROVE  TurnsInv'
<1>1. PICK q \in Requests : q = [Idle EXCEPT !.pc = "over"]
  BY IdleTyped DEF Requests
<1>2. q.pc = "over" /\ q.snap = NoPending
  BY <1>1 DEF Idle
<1>3. rq'[m] = q /\ \A n \in Msgs \ {m} : rq'[n] = rq[n]
  BY <1>1 DEF End, IInv, TypeOK
<1>4. \A n \in Msgs : \A o : Holding(rq[n], o)' => n # m /\ Holding(rq[n], o)
  BY <1>2, <1>3 DEF Holding
<1>5. \A n \in Msgs : Turn(n, rq[n])'
  <2> SUFFICES ASSUME NEW n \in Msgs PROVE Turn(n, rq[n])'
    OBVIOUS
  <2>1. CASE n = m
    BY <1>2, <1>3, <2>1 DEF Turn
  <2>2. CASE n # m
    <3>1. Turn(n, rq[n]) /\ rq'[n] = rq[n]
      BY <1>3, <2>2 DEF TurnsInv
    <3> QED
      BY <3>1 DEF Turn, Follows, Source, Refusal, Given, Keeps, Less, Left, Doubts
  <2> QED
    BY <2>1, <2>2
<1>6. OneHolder' /\ \A o : Nowhere(o) => Nowhere(o)'
  BY <1>4 DEF TurnsInv, OneHolder, Nowhere, InRow
<1>7. CopyIsRow'
  <2> SUFFICES ASSUME NEW n \in Msgs, NEW o \in Msgs, Holding(rq[n], o)', InRow(o)',
                      o \notin disturbed'
               PROVE  row' = rq'[n].snap
    BY DEF CopyIsRow
  <2> QED
    BY <1>3, <1>4 DEF TurnsInv, CopyIsRow, InRow
<1>8. \A o \in Msgs : rq'[o].pc # "over" => Unheard(o)'
  <2> SUFFICES ASSUME NEW o \in Msgs, rq'[o].pc # "over" PROVE Unheard(o)'
    OBVIOUS
  <2>1. o # m /\ rq'[o] = rq[o] /\ Unheard(o)
    BY <1>2, <1>3 DEF TurnsInv
  <2> QED
    BY <1>6, <2>1 DEF Unheard
<1>9. ASSUME plug'.kind # "composio", NEW r \in ran', r.args.origin \notin disturbed'
      PROVE  Finished(r)'
  <2>1. Finished(r) /\ r.msg \in Msgs /\ (r.msg = m => rq[m].pc # "save")
    BY <1>9, Origins DEF TurnsInv, IInv
  <2>2. r.msg # m /\ rq'[r.msg] = rq[r.msg]
    BY <1>3, <2>1 DEF Finished, Active
  <2> QED
    BY <1>4, <1>6, <2>1, <2>2 DEF Finished, Source
<1>10. (\A o \in refused' : o \in disturbed' \/ Nowhere(o)') /\ RunsOnce'
  BY <1>6 DEF TurnsInv, RunsOnce
<1> QED
  BY <1>5, <1>6, <1>7, <1>8, <1>9, <1>10 DEF TurnsInv

LEMMA HandlePendingTurn ==
  ASSUME IInv, TurnsInv, NEW m \in Msgs, HandlePending(m)
  PROVE  TurnsInv'
<1>1. CASE inst = "eligible"
  BY <1>1, HandlePendingDecides
<1>2. CASE inst # "eligible"
  <2>1. /\ End(m) /\ Active(m) /\ rq[m].pc = "orchestrate"
        /\ UNCHANGED <<plug, row, ran, refused, disturbed>>
    BY <1>2 DEF HandlePending, history, Active
  <2> QED
    BY <2>1, EndTurn
<1> QED
  BY <1>1, <1>2

LEMMA FailTurn ==
  ASSUME IInv, TurnsInv, NEW m \in Msgs, Fail(m)
  PROVE  TurnsInv'
<1>1. End(m) /\ Active(m) /\ UNCHANGED <<plug, row, ran, refused>>
  BY DEF Fail, history
<1>2. disturbed \subseteq disturbed'
  BY DEF Fail
<1>3. rq[m].pc = "save" => \A r \in ran : r.msg = m => r.args.origin \in disturbed'
  BY DEF Fail
<1> QED
  BY <1>1, <1>2, <1>3, EndTurn
LEMMA LoadTurn ==
  ASSUME IInv, TurnsInv, NEW m \in Msgs, Load(m)
  PROVE  TurnsInv'
<1>1. /\ rq[m].pc = "load" /\ rq[m] \in Requests /\ row \in Pending \cup {NoPending}
      /\ UNCHANGED <<plug, row, ran, refused>> /\ disturbed \subseteq disturbed'
  BY DEF Load, history, IInv, TypeOK
<1>2. PICK q \in Requests : q = [rq[m] EXCEPT !.pc = "orchestrate", !.snap = row]
  BY <1>1 DEF Requests
<1>3. q.pc = "orchestrate" /\ q.snap = row
  BY <1>1, <1>2 DEF Requests
<1>4. rq'[m] = q /\ \A n \in Msgs \ {m} : rq'[n] = rq[n]
  BY <1>1, <1>2 DEF Load, IInv, TypeOK, Requests
<1>5. \A o : Holding(rq[m], o)' = InRow(o)
  BY <1>3, <1>4 DEF Holding, InRow
<1>6. \A n \in Msgs \ {m} : \A o : Holding(rq[n], o)' => Holding(rq[n], o)
  BY <1>4 DEF Holding
<1>7. ASSUME NEW n \in Msgs, NEW o \in Msgs, Holding(rq[n], o), InRow(o) PROVE o \in disturbed'
  <2>1. Active(n)
    BY <1>7 DEF TurnsInv, Turn, Holding, Active
  <2>2. row # NoPending /\ rq[n].snap # NoPending /\ rq[n].snap.args.origin = row.args.origin
        /\ row.args.origin = o
    BY <1>7 DEF Holding, InRow
  <2> QED
    BY <2>1, <2>2 DEF Load
<1>8. \A n \in Msgs : Turn(n, rq[n])'
  <2> SUFFICES ASSUME NEW n \in Msgs PROVE Turn(n, rq[n])'
    OBVIOUS
  <2>1. CASE n = m
    BY <1>3, <1>4, <2>1 DEF Turn
  <2>2. CASE n # m
    <3>1. Turn(n, rq[n]) /\ rq'[n] = rq[n]
      BY <1>4, <2>2 DEF TurnsInv
    <3> QED
      BY <3>1 DEF Turn, Follows, Source, Refusal, Given, Keeps, Less, Left, Doubts
  <2> QED
    BY <2>1, <2>2
<1>9. OneHolder'
  <2> SUFFICES ASSUME NEW n \in Msgs, NEW k \in Msgs, NEW o \in Msgs, n # k,
                      Holding(rq[n], o)', Holding(rq[k], o)'
               PROVE  o \in disturbed'
    BY DEF OneHolder
  <2>1. CASE n = m
    BY <1>5, <1>6, <1>7, <2>1
  <2>2. CASE k = m
    BY <1>5, <1>6, <1>7, <2>2
  <2>3. CASE n # m /\ k # m
    BY <1>1, <1>6, <2>3 DEF TurnsInv, OneHolder
  <2> QED
    BY <2>1, <2>2, <2>3
<1>10. CopyIsRow'
  <2> SUFFICES ASSUME NEW n \in Msgs, NEW o \in Msgs, Holding(rq[n], o)', InRow(o)',
                      o \notin disturbed'
               PROVE  row' = rq'[n].snap
    BY DEF CopyIsRow
  <2>1. InRow(o)
    BY <1>1 DEF InRow
  <2>2. n = m
    BY <1>6, <1>7, <2>1
  <2> QED
    BY <1>1, <1>3, <1>4, <2>2
<1>11. \A o : Nowhere(o) => Nowhere(o)'
  <2> SUFFICES ASSUME NEW o, Nowhere(o) PROVE Nowhere(o)'
    OBVIOUS
  <2>1. ~InRow(o) /\ ~InRow(o)' /\ \A n \in Msgs : ~Holding(rq[n], o)
    BY <1>1 DEF Nowhere, InRow
  <2> QED
    BY <1>5, <1>6, <2>1 DEF Nowhere
<1>12. \A o \in Msgs : rq'[o].pc # "over" => Unheard(o)'
  <2> SUFFICES ASSUME NEW o \in Msgs, rq'[o].pc # "over" PROVE Unheard(o)'
    OBVIOUS
  <2>1. Unheard(o) /\ (o = m => \A r \in ran : r.args.origin # o)
    BY <1>1, <1>4 DEF TurnsInv, Unheard
  <2> QED
    BY <1>1, <1>4, <1>11, <2>1 DEF Unheard
<1>13. ASSUME plug'.kind # "composio", NEW r \in ran', r.args.origin \notin disturbed'
      PROVE  Finished(r)'
  <2>1. Finished(r) /\ r.msg \in Msgs /\ r.args.origin \in Msgs
    BY <1>1, <1>13, Origins DEF TurnsInv, IInv
  <2>2. r.msg # m /\ rq'[r.msg] = rq[r.msg]
    BY <1>1, <1>4, <2>1 DEF Finished
  <2>3. CASE rq[r.msg].pc = "over" /\ Nowhere(r.args.origin)
    BY <1>11, <2>2, <2>3 DEF Finished
  <2>4. CASE /\ rq[r.msg].pc = "save" /\ Source(r.msg, rq[r.msg]) = r.args.origin
             /\ rq[r.msg].does.next = NoPending
             /\ \A n \in Msgs \ {r.msg} : ~Holding(rq[n], r.args.origin)
    <3>1. ~InRow(r.args.origin)
      <4>1. CASE rq[r.msg].snap = NoPending
        BY <2>1, <2>4, <4>1 DEF Source, TurnsInv, Unheard, Nowhere
      <4>2. CASE rq[r.msg].snap # NoPending
        <5>1. Holding(rq[r.msg], r.args.origin)
          BY <2>4, <4>2 DEF Source, Holding
        <5> QED
          BY <1>7, <1>13, <2>1, <5>1
      <4> QED
        BY <4>1, <4>2
    <3>2. \A n \in Msgs \ {r.msg} : ~Holding(rq[n], r.args.origin)'
      BY <1>5, <1>6, <2>4, <3>1
    <3> QED
      BY <2>2, <2>4, <3>2 DEF Finished, Source
  <2> QED
    BY <2>1, <2>3, <2>4 DEF Finished
<1>14. (\A o \in refused' : o \in disturbed' \/ Nowhere(o)') /\ RunsOnce'
  BY <1>1, <1>11 DEF TurnsInv, RunsOnce
<1> QED
  BY <1>8, <1>9, <1>10, <1>12, <1>13, <1>14 DEF TurnsInv

\* while a request is about an action nobody else is, unless it is disturbed
LEMMA OnlyOne ==
  ASSUME IInv, TurnsInv, NEW m \in Msgs, rq[m].pc \in {"run", "save"},
         NEW o \in Msgs, o = Source(m, rq[m]), o \notin disturbed
  PROVE  /\ \A n \in Msgs \ {m} : ~Holding(rq[n], o)
         /\ o # m => rq[o].pc = "over" /\ Holding(rq[m], o)
         /\ o = m => rq[m].snap = NoPending /\ ~InRow(o) /\ o \notin refused
<1>1. CASE rq[m].snap = NoPending
  <2>1. o = m /\ Unheard(o)
    BY <1>1 DEF Source, TurnsInv
  <2> QED
    BY <1>1, <2>1 DEF Unheard, Nowhere
<1>2. CASE rq[m].snap # NoPending
  <2>1. Holding(rq[m], o)
    BY <1>2 DEF Source, Holding
  <2>2. rq[o].pc = "over"
    BY <2>1 DEF TurnsInv, Unheard, Nowhere
  <2> QED
    BY <2>1, <2>2 DEF TurnsInv, OneHolder
<1> QED
  BY <1>1, <1>2
LEMMA NotRunYet ==
  ASSUME IInv, TurnsInv, NEW m \in Msgs, rq[m].pc = "run", plug.kind # "composio",
         NEW o \in Msgs, o = Source(m, rq[m]), o \notin disturbed, NEW r \in ran
  PROVE  r.args.origin # o
<1> SUFFICES ASSUME r.args.origin = o PROVE FALSE
  OBVIOUS
<1>1. Finished(r)
  BY DEF TurnsInv
<1>2. r.msg # m
  BY <1>1 DEF Finished
<1>3. ~Holding(rq[m], o)
  BY <1>1, <1>2 DEF Finished, Nowhere
<1>4. o = m
  BY <1>3, OnlyOne
<1>5. Unheard(m)
  BY DEF TurnsInv
<1> QED
  BY <1>2, <1>4, <1>5 DEF Unheard

LEMMA ExecutePluginTurn ==
  ASSUME IInv, TurnsInv, NEW m \in Msgs, ExecutePlugin(m)
  PROVE  /\ TurnsInv'
         /\ \A r \in ran' \ ran : r.args.origin \in refused => r.args.origin \in disturbed
<1>1. /\ rq[m].pc = "run" /\ rq[m] \in Requests
      /\ UNCHANGED <<plug, row, refused, disturbed>>
  BY DEF ExecutePlugin, IInv, TypeOK
<1>2. PICK args \in rq[m].does.args :
        /\ ran' = ran \cup {[msg |-> m, text |-> rq[m].text, seen |-> rq[m].seen, args |-> args]}
        /\ \E d \in {Say(NoPending)} \cup ComposioQuestions(args) : Decide(m, d)
  BY DEF ExecutePlugin
<1>3. PICK d \in {Say(NoPending)} \cup ComposioQuestions(args) : Decide(m, d)
  BY <1>2
<1>4. PICK new : new = [msg |-> m, text |-> rq[m].text, seen |-> rq[m].seen, args |-> args]
  OBVIOUS
<1>5. ran' = ran \cup {new} /\ new.msg = m /\ new.args = args
  BY <1>2, <1>4
<1>6. /\ args \in Args /\ args.origin \in Msgs /\ args.origin = Source(m, rq[m])
      /\ rq[m].snap # NoPending => Less(args, rq[m].snap.args)
  <2>1. Follows(m, rq[m]) /\ args \in Given(rq[m].does)
    BY <1>1, <1>2 DEF TurnsInv, Turn, Given
  <2> QED
    BY <1>1, <1>2, <2>1 DEF Follows, Keeps, Requests, Decisions, Args
<1>7. /\ d \in Decisions /\ ~d.run /\ Given(d) \subseteq {args}
      /\ d.args = {} /\ (d.next # NoPending => d.next.args = args)
      /\ plug.kind # "composio" => d.next = NoPending
  <2>1. d \in Decisions /\ ~d.run
    BY <1>3, <1>6, GiveUpJustified, QuestionJustified DEF Justified
  <2>2. Given(d) \subseteq {args} /\ d.args = {} /\ (d.next # NoPending => d.next.args = args)
    <3>1. d.args = {} /\ (d.next # NoPending => d.next.args = args)
      <4>1. \E p : d = Say(p) /\ (p # NoPending => p.args = args)
        <5>1. CASE d = Say(NoPending)
          BY <5>1
        <5>2. CASE d \in ComposioQuestions(args)
          <6>1. PICK stage \in Composio :
                  d = Say([args |-> args, stage |-> stage, asks |-> ""])
            BY <5>2 DEF ComposioQuestions, Composio
          <6>2. [args |-> args, stage |-> stage, asks |-> ""].args = args
            OBVIOUS
          <6> QED
            BY <6>1, <6>2
        <5> QED
          BY <1>3, <5>1, <5>2
      <4> QED
        BY <4>1 DEF Say
    <3> QED
      BY <3>1 DEF Given
  <2>3. plug.kind # "composio" => d.next = NoPending
    BY <1>3 DEF Say, ComposioQuestions
  <2> QED
    BY <2>1, <2>2, <2>3
<1>8. PICK q \in Requests : q = [rq[m] EXCEPT !.does = d, !.pc = IF d.run THEN "run" ELSE "save"]
  BY <1>1, <1>7 DEF Requests
<1>9. q.does = d /\ q.snap = rq[m].snap /\ q.text = rq[m].text /\ q.pc = "save"
  BY <1>1, <1>7, <1>8 DEF Requests
<1>10. rq'[m] = q /\ \A n \in Msgs \ {m} : rq'[n] = rq[n]
  BY <1>1, <1>3, <1>8 DEF Decide, Requests, IInv, TypeOK
<1>11. \A n \in Msgs : rq'[n].snap = rq[n].snap
  BY <1>9, <1>10
<1>12. \A n \in Msgs : Turn(n, rq[n])'
  <2>1. Turn(m, q)
    <3>1. Follows(m, q)
      <4>1. rq[m].snap # NoPending => Keeps(d, rq[m].snap.args)
        BY <1>6, <1>7, LessIsLeft DEF Keeps
      <4> QED
        BY <1>6, <1>7, <1>9, <4>1 DEF Follows, Source
    <3>2. ~Refusal(q)
      BY <1>1, <1>9 DEF TurnsInv, Turn, Refusal
    <3> QED
      BY <1>9, <3>1, <3>2 DEF Turn
  <2> SUFFICES ASSUME NEW n \in Msgs PROVE Turn(n, rq[n])'
    OBVIOUS
  <2>2. CASE n = m
    BY <1>10, <2>1, <2>2 DEF Turn, Follows, Source, Refusal, Given, Keeps, Less, Left, Doubts
  <2>3. CASE n # m
    <3>1. Turn(n, rq[n]) /\ rq'[n] = rq[n]
      BY <1>10, <2>3 DEF TurnsInv
    <3> QED
      BY <3>1 DEF Turn, Follows, Source, Refusal, Given, Keeps, Less, Left, Doubts
  <2> QED
    BY <2>2, <2>3
<1>13. OneHolder' /\ CopyIsRow' /\ \A o : Nowhere(o) => Nowhere(o)'
  BY <1>1, <1>11 DEF TurnsInv, OneHolder, CopyIsRow, Nowhere, Holding, InRow
<1>14. \A o \in Msgs : rq'[o].pc # "over" => Unheard(o)'
  <2> SUFFICES ASSUME NEW o \in Msgs, rq'[o].pc # "over" PROVE Unheard(o)'
    OBVIOUS
  <2>1. Unheard(o) /\ (o = m => \A r \in ran : r.args.origin # o)
    BY <1>1, <1>10 DEF TurnsInv, Unheard
  <2>2. args.origin = o => o = m /\ rq[m].snap = NoPending
    BY <1>6, <2>1 DEF Source, Unheard, Nowhere, Holding
  <2>3. ASSUME NEW r \in ran', r.args.origin = o
        PROVE  r.msg = o /\ rq'[o].pc = "save" /\ rq'[o].snap = NoPending
    <3>1. CASE r = new
      BY <1>5, <1>9, <1>10, <2>2, <2>3, <3>1
    <3>2. CASE r # new
      <4>1. r \in ran
        BY <1>5, <3>2
      <4>2. o # m /\ rq'[o] = rq[o]
        BY <1>10, <2>1, <2>3, <4>1
      <4> QED
        BY <2>1, <2>3, <4>1, <4>2 DEF Unheard
    <3> QED
      BY <3>1, <3>2
  <2>4. Nowhere(o)' /\ o \notin refused'
    BY <1>1, <1>13, <2>1 DEF Unheard
  <2> QED
    BY <2>3, <2>4 DEF Unheard
<1>15. ASSUME plug'.kind # "composio", NEW r \in ran', r.args.origin \notin disturbed'
       PROVE  Finished(r)'
  <2>1. CASE r = new
    <3>1. \A n \in Msgs \ {m} : ~Holding(rq[n], args.origin)
      BY <1>1, <1>5, <1>6, <1>15, <2>1, OnlyOne
    <3>2. \A n \in Msgs \ {m} : ~Holding(rq[n], args.origin)'
      BY <1>10, <3>1 DEF Holding
    <3>3. rq'[m].pc = "save" /\ rq'[m].does.next = NoPending /\ Source(m, rq[m])' = args.origin
      BY <1>1, <1>6, <1>7, <1>9, <1>10, <1>15 DEF Source
    <3> QED
      BY <1>5, <2>1, <3>2, <3>3 DEF Finished, Source
  <2>2. CASE r # new
    <3>1. r \in ran /\ Finished(r) /\ r.msg \in Msgs
      BY <1>1, <1>5, <1>15, <2>2, Origins DEF TurnsInv, IInv
    <3>2. r.msg # m /\ rq'[r.msg] = rq[r.msg]
      BY <1>1, <1>10, <3>1 DEF Finished
    <3> QED
      BY <1>11, <1>13, <3>1, <3>2 DEF Finished, Source, Holding
  <2> QED
    BY <2>1, <2>2
<1>16. \A o \in refused' : o \in disturbed' \/ Nowhere(o)'
  BY <1>1, <1>13 DEF TurnsInv
<1>17. RunsOnce'
  <2> SUFFICES ASSUME plug.kind # "composio", NEW r \in ran', NEW k \in ran', r # k,
                      r.args.origin = k.args.origin, r.args.origin \notin disturbed
               PROVE  FALSE
    BY <1>1 DEF RunsOnce
  <2>1. CASE r \in ran /\ k \in ran
    BY <2>1 DEF TurnsInv, RunsOnce
  <2>2. CASE r = new \/ k = new
    <3>1. \A x \in ran : x.args.origin # args.origin
      BY <1>1, <1>5, <1>6, <2>2, NotRunYet
    <3> QED
      BY <1>5, <2>2, <3>1
  <2> QED
    BY <1>5, <2>1, <2>2
<1>18. ASSUME NEW r \in ran' \ ran, r.args.origin \in refused
       PROVE  r.args.origin \in disturbed
  <2> SUFFICES ASSUME r.args.origin \notin disturbed PROVE FALSE
    OBVIOUS
  <2>1. r.args = args
    BY <1>5
  <2>2. args.origin # m /\ Holding(rq[m], args.origin)
    BY <1>1, <1>6, <1>18, <2>1, OnlyOne
  <2>3. Nowhere(args.origin)
    BY <1>18, <2>1 DEF TurnsInv
  <2> QED
    BY <2>2, <2>3 DEF Nowhere
<1> QED
  BY <1>12, <1>13, <1>14, <1>15, <1>16, <1>17, <1>18 DEF TurnsInv
LEMMA SaveTurn ==
  ASSUME IInv, TurnsInv, NEW m \in Msgs, Save(m)
  PROVE  /\ TurnsInv'
         /\ \/ ~(row # NoPending /\ row' # NoPending
                 /\ row'.args.origin = row.args.origin
                 /\ row.args.origin \notin disturbed')
            \/ Left(row', row.args)
<1>1. /\ rq[m].pc = "save" /\ rq[m] \in Requests /\ row' = rq[m].does.next
      /\ UNCHANGED <<plug, ran, disturbed>>
      /\ refused \subseteq refused'
  BY DEF Save, IInv, TypeOK
<1>2. PICK q \in Requests : q = [Idle EXCEPT !.pc = "over"]
  BY IdleTyped DEF Requests
<1>3. q.pc = "over" /\ q.snap = NoPending
  BY <1>2 DEF Idle
<1>4. rq'[m] = q /\ \A n \in Msgs \ {m} : rq'[n] = rq[n]
  BY <1>2 DEF Save, End, IInv, TypeOK
<1>5. \A n \in Msgs : \A o : Holding(rq[n], o)' => n # m /\ Holding(rq[n], o)
  BY <1>3, <1>4 DEF Holding
<1>6. PICK s : s = Source(m, rq[m])
  OBVIOUS
<1>7. s \in Msgs
  BY <1>6, Origins DEF IInv, Source
<1>8. /\ \A o : InRow(o)' => o = s
      /\ row' # NoPending /\ rq[m].snap # NoPending => Left(row', rq[m].snap.args)
  <2>1. Follows(m, rq[m])
    BY <1>1 DEF TurnsInv, Turn
  <2>2. row' # NoPending => row'.args \in Given(rq[m].does)
    BY <1>1 DEF Given
  <2> QED
    BY <1>1, <1>6, <2>1, <2>2 DEF Follows, Keeps, InRow
<1>9. \A o : Nowhere(o) /\ o # s => Nowhere(o)'
  BY <1>5, <1>8 DEF Nowhere
\* nobody who has not begun, and nobody at the end, can be about this action
<1>10. ASSUME NEW o, Nowhere(o), o # m PROVE o # s
  BY <1>6, <1>10 DEF Source, Nowhere, Holding
<1>11. /\ Unheard(m)
       /\ s \notin disturbed => \A n \in Msgs \ {m} : ~Holding(rq[n], s)
  BY <1>1, <1>6, <1>7, OnlyOne DEF TurnsInv
<1>12. \A o \in refused' \ refused :
          o = s /\ o # m /\ row' = NoPending /\ Holding(rq[m], o) /\ rq[o].pc = "over"
  <2> SUFFICES ASSUME NEW o \in refused' \ refused
               PROVE  o = s /\ o # m /\ row' = NoPending /\ Holding(rq[m], o) /\ rq[o].pc = "over"
    OBVIOUS
  <2>1. Refusal(rq[m]) /\ o = rq[m].snap.args.origin /\ o \in Msgs
    BY Origins DEF Save, Refusal, IInv
  <2>2. Holding(rq[m], o) /\ o = s
    BY <1>6, <2>1 DEF Holding, Source, Refusal
  <2>3. row' = NoPending
    BY <1>1, <2>1 DEF TurnsInv, Turn
  <2>4. rq[o].pc = "over"
    BY <2>1, <2>2 DEF TurnsInv, Unheard, Nowhere
  <2> QED
    BY <1>1, <2>2, <2>3, <2>4
<1>13. \A n \in Msgs : Turn(n, rq[n])'
  <2> SUFFICES ASSUME NEW n \in Msgs PROVE Turn(n, rq[n])'
    OBVIOUS
  <2>1. CASE n = m
    BY <1>3, <1>4, <2>1 DEF Turn
  <2>2. CASE n # m
    <3>1. Turn(n, rq[n]) /\ rq'[n] = rq[n]
      BY <1>4, <2>2 DEF TurnsInv
    <3> QED
      BY <3>1 DEF Turn, Follows, Source, Refusal, Given, Keeps, Less, Left, Doubts
  <2> QED
    BY <2>1, <2>2
<1>14. OneHolder'
  BY <1>1, <1>5 DEF TurnsInv, OneHolder
<1>15. CopyIsRow'
  <2> SUFFICES ASSUME NEW n \in Msgs, NEW o \in Msgs, Holding(rq[n], o)', InRow(o)',
                      o \notin disturbed'
               PROVE  FALSE
    BY DEF CopyIsRow
  <2> QED
    BY <1>1, <1>5, <1>8, <1>11
<1>16. \A o \in Msgs : rq'[o].pc # "over" => Unheard(o)'
  <2> SUFFICES ASSUME NEW o \in Msgs, rq'[o].pc # "over" PROVE Unheard(o)'
    OBVIOUS
  <2>1. o # m /\ rq'[o] = rq[o] /\ Unheard(o)
    BY <1>3, <1>4 DEF TurnsInv
  <2>2. Nowhere(o)'
    BY <1>9, <1>10, <2>1 DEF Unheard
  <2>3. o \notin refused'
    BY <1>12, <2>1 DEF Unheard, Nowhere
  <2> QED
    BY <1>1, <2>1, <2>2, <2>3 DEF Unheard
<1>17. ASSUME plug'.kind # "composio", NEW r \in ran', r.args.origin \notin disturbed'
       PROVE  Finished(r)'
  <2>1. Finished(r) /\ r.msg \in Msgs
    BY <1>1, <1>17, Origins DEF TurnsInv, IInv
  <2>2. CASE r.msg = m
    <3>1. row' = NoPending /\ \A n \in Msgs \ {m} : ~Holding(rq[n], r.args.origin)
      BY <1>1, <2>1, <2>2 DEF Finished
    <3>2. Nowhere(r.args.origin)'
      BY <1>5, <3>1 DEF Nowhere, InRow
    <3> QED
      BY <1>3, <1>4, <2>2, <3>2 DEF Finished
  <2>3. CASE r.msg # m
    <3>1. rq'[r.msg] = rq[r.msg]
      BY <1>4, <2>1, <2>3
    <3>2. CASE rq[r.msg].pc = "over" /\ Nowhere(r.args.origin)
      <4>1. r.args.origin # m
        BY <1>1, <1>11, <2>3, <3>2 DEF Unheard
      <4>2. Nowhere(r.args.origin)'
        BY <1>9, <1>10, <3>2, <4>1
      <4> QED
        BY <3>1, <3>2, <4>2 DEF Finished
    <3>3. CASE /\ rq[r.msg].pc = "save" /\ Source(r.msg, rq[r.msg]) = r.args.origin
               /\ rq[r.msg].does.next = NoPending
               /\ \A n \in Msgs \ {r.msg} : ~Holding(rq[n], r.args.origin)
      BY <1>5, <3>1, <3>3 DEF Finished, Source
    <3> QED
      BY <2>1, <3>2, <3>3 DEF Finished
  <2> QED
    BY <2>2, <2>3
<1>18. \A o \in refused' : o \in disturbed' \/ Nowhere(o)'
  <2> SUFFICES ASSUME NEW o \in refused', o \notin disturbed PROVE Nowhere(o)'
    BY <1>1
  <2>1. CASE o \in refused
    <3>1. Nowhere(o) /\ o # m
      BY <1>11, <2>1 DEF TurnsInv, Unheard
    <3> QED
      BY <1>9, <1>10, <3>1
  <2>2. CASE o \notin refused
    <3>1. o = s /\ row' = NoPending
      BY <1>12, <2>2
    <3> QED
      BY <1>5, <1>11, <3>1 DEF Nowhere, InRow
  <2> QED
    BY <2>1, <2>2
<1>19. RunsOnce'
  BY <1>1 DEF TurnsInv, RunsOnce
<1>20. ASSUME row # NoPending, row' # NoPending, row'.args.origin = row.args.origin,
              row.args.origin \notin disturbed'
       PROVE  Left(row', row.args)
  <2>1. InRow(s) /\ s \notin disturbed
    BY <1>1, <1>8, <1>20 DEF InRow
  <2>2. Holding(rq[m], s)
    BY <1>1, <1>6, <1>7, <2>1, OnlyOne
  <2>3. row = rq[m].snap
    BY <1>7, <2>1, <2>2 DEF TurnsInv, CopyIsRow
  <2> QED
    BY <1>8, <1>20, <2>2, <2>3 DEF Holding
<1> QED
  BY <1>13, <1>14, <1>15, <1>16, <1>17, <1>18, <1>19, <1>20 DEF TurnsInv
-----------------------------------------------------------------------------
LEMMA TurnsNext ==
  ASSUME IInv, TurnsInv, [Next]_vars
  PROVE  TurnsInv'
<1>1. plug.kind \in Kinds
  BY ShapesAssumption DEF IInv, TypeOK
<1>2. ASSUME NEW m \in Msgs, NEW text \in TextsFor(plug.kind), Send(m, text) PROVE TurnsInv'
  <2>1. text \in Texts
    BY DEF TextsFor, Texts
  <2> QED
    BY <1>2, <2>1, SendTurn
<1>3. ASSUME NEW m \in Msgs,
             \/ Load(m) \/ HandlePending(m) \/ ListPlugins(m) \/ Classify(m)
             \/ ExecutePlugin(m) \/ Save(m) \/ Fail(m)
      PROVE  TurnsInv'
  BY <1>3, LoadTurn, HandlePendingTurn, ListPluginsTurn, ClassifyTurn,
     ExecutePluginTurn, SaveTurn, FailTurn
<1>4. CASE ChangeInstall
  BY <1>4, ChangeInstallTurn
<1>5. CASE UNCHANGED vars
  BY <1>5, SameTurns DEF vars
<1> QED
  BY <1>2, <1>3, <1>4, <1>5 DEF Next

\* IInv and TurnsInv hold together in every reachable state.
THEOREM TurnsInvariant == Spec => [](IInv /\ TurnsInv)
<1>1. Init => TurnsInv
  BY TurnsInit
<1>2. IInv /\ TurnsInv /\ [Next]_vars => TurnsInv'
  BY TurnsNext
<1> QED
  BY <1>1, <1>2, InductiveInvariant, PTL DEF Spec

\* For any number of concurrent messages an action that was begun once runs
\* once, unless two requests held it at once or the one that ran it failed
\* before it saved the session.
THEOREM ActionsRunOnce == Spec => []RunsOnce
<1>1. TurnsInv => RunsOnce
  BY DEF TurnsInv
<1> QED
  BY <1>1, TurnsInvariant, PTL

\* For any number of concurrent messages what was refused does not run later,
\* unless another request held the same action.
THEOREM RefusalIsFinal == Spec => RefusedStaysRefused
<1>1. ASSUME IInv, TurnsInv, [Next]_vars
      PROVE  [\A r \in ran' \ ran : r.args.origin \in refused => r.args.origin \in disturbed]_vars
  <2>1. ASSUME NEW m \in Msgs, ExecutePlugin(m)
        PROVE  \A r \in ran' \ ran : r.args.origin \in refused => r.args.origin \in disturbed
    BY <1>1, <2>1, ExecutePluginTurn
  <2>2. \A m \in Msgs : \A text :
           /\ Send(m, text) \/ Load(m) => ran' = ran
           /\ HandlePending(m) \/ ListPlugins(m) \/ Classify(m) => ran' = ran
           /\ Save(m) \/ Fail(m) => ran' = ran
    BY DEF Send, Load, HandlePending, ListPlugins, Classify, Save, Fail, history
  <2>3. ChangeInstall \/ UNCHANGED vars => ran' = ran
    BY DEF ChangeInstall, history, vars
  <2>4. (\E m \in Msgs : ExecutePlugin(m)) \/ ran' = ran
    BY <1>1, <2>2, <2>3 DEF Next
  <2> QED
    BY <2>1, <2>4
<1> QED
  BY <1>1, TurnsInvariant, PTL DEF Spec, RefusedStaysRefused

\* For any number of concurrent messages and any shape of plugin an answer that was
\* given is not lost while its action stays in the session, unless an older copy is
\* written back; only a place too vague for an address is given up, and asked for.
THEOREM AnswersStay == Spec => AnswersAreKept
<1>1. ASSUME IInv, TurnsInv, [Next]_vars
      PROVE  [(/\ row # NoPending /\ row' # NoPending
               /\ row'.args.origin = row.args.origin
               /\ row.args.origin \notin disturbed')
               => \A name \in row'.args.missing \ row.args.missing :
                     name \in Doubts(row.args) \ Doubts(row'.args) /\ row'.asks = name]_vars
  <2> DEFINE stays == /\ row # NoPending /\ row' # NoPending
                      /\ row'.args.origin = row.args.origin
                      /\ row.args.origin \notin disturbed'
             kept == \A name \in row'.args.missing \ row.args.missing :
                        name \in Doubts(row.args) \ Doubts(row'.args) /\ row'.asks = name
  <2>1. ASSUME NEW m \in Msgs, Save(m)
        PROVE  stays => kept
    <3>1. disturbed' = disturbed
      BY <2>1 DEF Save
    <3> QED
      BY <1>1, <2>1, <3>1, SaveTurn DEF Left
  <2>2. \A m \in Msgs : \A text :
           /\ Send(m, text) \/ Load(m) => row' = row
           /\ HandlePending(m) \/ ListPlugins(m) \/ Classify(m) => row' = row
           /\ ExecutePlugin(m) \/ Fail(m) => row' = row
    BY DEF Send, Load, HandlePending, ListPlugins, Classify, ExecutePlugin, Fail
  <2>3. ChangeInstall \/ UNCHANGED vars => row' = row
    BY DEF ChangeInstall, vars
  <2>4. (\E m \in Msgs : Save(m)) \/ row' = row
    BY <1>1, <2>2, <2>3 DEF Next
  <2>5. row' = row => kept
    OBVIOUS
  <2> HIDE DEF stays, kept
  <2>6. stays => kept
    BY <2>1, <2>4, <2>5
  <2> QED
    BY <2>6 DEF stays, kept
<1> QED
  BY <1>1, TurnsInvariant, PTL DEF Spec, AnswersAreKept
-----------------------------------------------------------------------------
(* The promise: what each step does to the stage of every action.           *)

\* who ran an action is about to save what it says of that action, and did not
\* run what it was told to refuse
RunsFollow ==
  \A r \in ran :
     \/ rq[r.msg].pc = "over"
     \/ /\ rq[r.msg].pc = "save" /\ ~Refusal(rq[r.msg])
        /\ r.args.origin = Source(r.msg, rq[r.msg])

\* a decision moves the request on and leaves what it has in hand alone
LEMMA DecideKeeps ==
  ASSUME TypeOK, NEW m \in Msgs, NEW d, Decide(m, d)
  PROVE  /\ rq'[m].snap = rq[m].snap /\ rq'[m].text = rq[m].text
         /\ rq'[m].seen = rq[m].seen /\ rq'[m].does = d
         /\ rq'[m].pc = (IF d.run THEN "run" ELSE "save")
         /\ \A n \in Msgs \ {m} : rq'[n] = rq[n]
<1>1. rq \in [Msgs -> Requests] /\ rq[m] \in Requests
  BY DEF TypeOK
<1>2. PICK pc : pc = IF d.run THEN "run" ELSE "save"
  OBVIOUS
<1>3. rq' = [rq EXCEPT ![m].does = d, ![m].pc = pc]
  BY <1>2 DEF Decide
<1>4. rq'[m] = [rq[m] EXCEPT !.does = d, !.pc = pc]
  BY <1>1, <1>3
<1>5. /\ rq'[m].snap = rq[m].snap /\ rq'[m].text = rq[m].text
      /\ rq'[m].seen = rq[m].seen /\ rq'[m].does = d /\ rq'[m].pc = pc
  BY <1>1, <1>4 DEF Requests
<1>6. \A n \in Msgs \ {m} : rq'[n] = rq[n]
  BY <1>1, <1>3
<1> QED
  BY <1>2, <1>5, <1>6

\* so do the steps of a request that only think
LEMMA ThinkKeeps ==
  ASSUME IInv, TurnsInv, NEW m \in Msgs, NEW text,
         \/ Send(m, text) \/ ListPlugins(m) \/ Classify(m)
         \/ HandlePending(m) /\ inst = "eligible"
  PROVE  /\ rq'[m].snap = rq[m].snap
         /\ rq[m].pc \in {"idle", "orchestrate", "classify"}
         /\ rq'[m].pc # "over"
         /\ \A n \in Msgs \ {m} : rq'[n] = rq[n]
         /\ UNCHANGED <<plug, row, ran, refused, disturbed>>
<1>1. TypeOK /\ rq \in [Msgs -> Requests] /\ rq[m] \in Requests
  BY DEF IInv, TypeOK
<1>2. CASE Send(m, text)
  <2>1. PICK q : q = [Idle EXCEPT !.pc = "load", !.text = text, !.seen = inst = "eligible"]
    OBVIOUS
  <2>2. q.pc = "load" /\ q.snap = NoPending
    BY <2>1 DEF Idle
  <2>3. rq[m].pc = "idle" /\ rq' = [rq EXCEPT ![m] = q]
    BY <1>2, <2>1 DEF Send
  <2>4. rq[m].snap = NoPending
    BY <2>3 DEF TurnsInv, Turn
  <2>5. UNCHANGED <<plug, row, ran, refused, disturbed>>
    BY <1>2 DEF Send, history
  <2> QED
    BY <1>1, <2>2, <2>3, <2>4, <2>5
<1>3. ASSUME NEW d, Decide(m, d), rq[m].pc \in {"orchestrate", "classify"},
             UNCHANGED <<plug, row, history, disturbed>>
      PROVE  /\ rq'[m].snap = rq[m].snap /\ rq'[m].pc # "over"
             /\ \A n \in Msgs \ {m} : rq'[n] = rq[n]
             /\ UNCHANGED <<plug, row, ran, refused, disturbed>>
  <2>1. /\ rq'[m].snap = rq[m].snap /\ rq'[m].pc \in {"run", "save"}
        /\ \A n \in Msgs \ {m} : rq'[n] = rq[n]
    BY <1>1, <1>3, DecideKeeps
  <2> QED
    BY <1>3, <2>1 DEF history
<1>4. CASE ListPlugins(m)
  <2>1. CASE inst = "eligible"
    <3>1. rq' = [rq EXCEPT ![m].pc = "classify"] /\ rq[m].pc = "orchestrate"
      BY <1>4, <2>1 DEF ListPlugins, Goto
    <3>2. rq'[m] = [rq[m] EXCEPT !.pc = "classify"]
      BY <1>1, <3>1
    <3>3. rq'[m].snap = rq[m].snap /\ rq'[m].pc = "classify"
      BY <1>1, <3>2 DEF Requests
    <3>4. \A n \in Msgs \ {m} : rq'[n] = rq[n]
      BY <1>1, <3>1
    <3> QED
      BY <1>4, <3>1, <3>3, <3>4 DEF ListPlugins, history
  <2>2. CASE inst # "eligible"
    BY <1>3, <1>4, <2>2 DEF ListPlugins
  <2> QED
    BY <2>1, <2>2
<1>5. CASE Classify(m)
  BY <1>3, <1>5 DEF Classify
<1>6. CASE HandlePending(m) /\ inst = "eligible"
  BY <1>3, <1>6 DEF HandlePending
<1> QED
  BY <1>2, <1>4, <1>5, <1>6

\* what an execution adds
LEMMA ExecutionIs ==
  ASSUME IInv, TurnsInv, NEW m \in Msgs, ExecutePlugin(m)
  PROVE  /\ rq[m].pc = "run" /\ ~Refusal(rq[m])
         /\ rq'[m].snap = rq[m].snap /\ rq'[m].text = rq[m].text
         /\ rq'[m].pc = "save"
         /\ \A n \in Msgs \ {m} : rq'[n] = rq[n]
         /\ UNCHANGED <<plug, row, refused, disturbed>>
         /\ \E r : /\ ran' = ran \cup {r} /\ r.msg = m
                   /\ r.args.origin = Source(m, rq[m])
<1>1. /\ TypeOK /\ rq[m].pc = "run" /\ rq[m] \in Requests
      /\ UNCHANGED <<plug, row, refused, disturbed>>
  BY DEF ExecutePlugin, IInv, TypeOK
<1>2. PICK args \in rq[m].does.args :
        /\ ran' = ran \cup {[msg |-> m, text |-> rq[m].text, seen |-> rq[m].seen, args |-> args]}
        /\ \E d \in {Say(NoPending)} \cup ComposioQuestions(args) : Decide(m, d)
  BY DEF ExecutePlugin
<1>3. PICK d \in {Say(NoPending)} \cup ComposioQuestions(args) : Decide(m, d)
  BY <1>2
<1>4. ~d.run
  <2>1. PICK p : d = Say(p)
    BY <1>3 DEF ComposioQuestions
  <2> QED
    BY <2>1 DEF Say
<1>5. /\ rq'[m].snap = rq[m].snap /\ rq'[m].text = rq[m].text /\ rq'[m].pc = "save"
      /\ \A n \in Msgs \ {m} : rq'[n] = rq[n]
  BY <1>1, <1>3, <1>4, DecideKeeps
<1>6. Turn(m, rq[m])
  BY DEF TurnsInv
<1>7. ~Refusal(rq[m]) /\ args.origin = Source(m, rq[m])
  BY <1>1, <1>2, <1>6 DEF Turn, Follows, Given
<1>8. PICK r : r = [msg |-> m, text |-> rq[m].text, seen |-> rq[m].seen, args |-> args]
  OBVIOUS
<1>9. ran' = ran \cup {r} /\ r.msg = m /\ r.args.origin = Source(m, rq[m])
  BY <1>2, <1>7, <1>8
<1> QED
  BY <1>1, <1>5, <1>7, <1>9

\* a request that is over has nothing in hand
LEMMA EndIs ==
  ASSUME TypeOK, NEW m \in Msgs, End(m)
  PROVE  /\ rq'[m].pc = "over" /\ rq'[m].snap = NoPending
         /\ \A n \in Msgs \ {m} : rq'[n] = rq[n]
<1>1. PICK q : q = [Idle EXCEPT !.pc = "over"]
  OBVIOUS
<1>2. q.pc = "over" /\ q.snap = NoPending
  BY <1>1 DEF Idle
<1>3. rq' = [rq EXCEPT ![m] = q]
  BY <1>1 DEF End
<1> QED
  BY <1>2, <1>3 DEF TypeOK
\* a step that leaves rows, executions and copies alone, and ends no request
LEMMA SameStages ==
  ASSUME UNCHANGED <<plug, row, ran, refused, disturbed>>,
         \A n \in Msgs : /\ rq'[n].snap = rq[n].snap
                         /\ rq'[n].pc = "over" <=> rq[n].pc = "over"
  PROVE  UNCHANGED Promise!vars
<1>1. \A n \in Msgs : \A o : Holding(rq[n], o)' <=> Holding(rq[n], o)
  BY DEF Holding
<1>2. \A o : (InRow(o)' <=> InRow(o)) /\ (Nowhere(o)' <=> Nowhere(o))
  BY <1>1 DEF InRow, Nowhere
<1>3. \A o \in Msgs : Stage(o)' = Stage(o)
  BY <1>2 DEF Stage
<1>4. ASSUME NEW o \in Msgs PROVE Lacks(o)' = Lacks(o)
  <2>1. UNION {rq'[n].snap.args.missing : n \in {n \in Msgs : Holding(rq[n], o)'}}
          = UNION {rq[n].snap.args.missing : n \in {n \in Msgs : Holding(rq[n], o)}}
    BY <1>1
  <2> QED
    BY <1>2, <2>1 DEF Lacks
<1>5. ASSUME NEW o \in Msgs PROVE Doubtful(o)' = Doubtful(o)
  <2>1. UNION {Doubts(rq'[n].snap.args) : n \in {n \in Msgs : Holding(rq[n], o)'}}
          = UNION {Doubts(rq[n].snap.args) : n \in {n \in Msgs : Holding(rq[n], o)}}
    BY <1>1
  <2> QED
    BY <1>2, <2>1 DEF Doubtful, Doubts
<1>6. {o \in Msgs : InRow(o)}' = {o \in Msgs : InRow(o)}
  BY <1>2
<1> QED
  BY <1>3, <1>4, <1>5, <1>6 DEF Promise!vars

LEMMA PromiseInit == Init => Promise!Init
<1> SUFFICES ASSUME Init PROVE Promise!Init
  OBVIOUS
<1>1. \A n \in Msgs : rq[n].pc = "idle" /\ \A o : ~Holding(rq[n], o)
  BY DEF Init, Idle, Holding
<1>2. \A o : ~InRow(o) /\ Nowhere(o)
  BY <1>1 DEF Init, InRow, Nowhere
<1>3. \A o \in Msgs : Stage(o) = "new"
  BY <1>1, <1>2 DEF Stage, Init
<1>4. ASSUME NEW o \in Msgs PROVE Lacks(o) = {} /\ Doubtful(o) = {}
  BY <1>1, <1>2 DEF Lacks, Doubtful
<1>5. {o \in Msgs : InRow(o)} = {} /\ {<<r.msg, r.args.origin>> : r \in ran} = {}
  BY <1>2 DEF Init
<1> QED
  BY <1>3, <1>4, <1>5 DEF Promise!Init

\* an execution runs an action that is new or open
LEMMA PromiseRuns ==
  ASSUME IInv, TurnsInv, NEW m \in Msgs, ExecutePlugin(m)
  PROVE  Promise!Next
<1>1. /\ rq[m].pc = "run" /\ rq'[m].snap = rq[m].snap /\ rq'[m].pc = "save"
      /\ \A n \in Msgs \ {m} : rq'[n] = rq[n]
      /\ UNCHANGED <<plug, row, refused, disturbed>>
  BY ExecutionIs
<1>2. PICK s \in Msgs : s = Source(m, rq[m])
  BY Origins DEF IInv, Source
<1>3. PICK r : ran' = ran \cup {r} /\ r.msg = m /\ r.args.origin = s
  BY <1>2, ExecutionIs
<1>4. \A n \in Msgs : rq'[n].snap = rq[n].snap /\ (rq'[n].pc = "over" <=> rq[n].pc = "over")
  BY <1>1
<1>5. \A n \in Msgs : \A o : Holding(rq[n], o)' <=> Holding(rq[n], o)
  BY <1>4 DEF Holding
<1>6. \A o : (InRow(o)' <=> InRow(o)) /\ (Nowhere(o)' <=> Nowhere(o))
  BY <1>1, <1>5 DEF InRow, Nowhere
<1>7. ASSUME NEW o \in Msgs PROVE Lacks(o)' = Lacks(o)
  <2>1. UNION {rq'[n].snap.args.missing : n \in {n \in Msgs : Holding(rq[n], o)'}}
          = UNION {rq[n].snap.args.missing : n \in {n \in Msgs : Holding(rq[n], o)}}
    BY <1>4, <1>5
  <2> QED
    BY <1>1, <1>6, <2>1 DEF Lacks
<1>8. \A o \in Msgs \ {s} : Stage(o)' = Stage(o)
  BY <1>1, <1>3, <1>4, <1>6 DEF Stage
<1>9. s \in refused => s \in disturbed
  <2> SUFFICES ASSUME s \in refused, s \notin disturbed PROVE FALSE
    OBVIOUS
  <2>1. Nowhere(s) /\ s # m
    BY <1>1 DEF TurnsInv, Unheard
  <2>2. Holding(rq[m], s)
    BY <1>2, <2>1 DEF Source, Holding
  <2> QED
    BY <2>1, <2>2 DEF Nowhere
<1>10. Stage(s)' = IF Stage(s) = "disturbed" THEN "disturbed" ELSE "ran"
  BY <1>1, <1>3, <1>9 DEF Stage
<1>11. Promise!Lives(s)
  <2>1. CASE s \in disturbed
    BY <2>1 DEF Stage, Promise!Lives
  <2>2. CASE s \notin disturbed /\ \E x \in ran : x.args.origin = s
    <3>1. plug.kind = "composio"
      BY <1>1, <1>2, <2>2, NotRunYet
    <3>2. Stage(s) = "ran"
      BY <1>9, <2>2 DEF Stage
    <3> QED
      BY <3>1, <3>2 DEF Promise!Lives
  <2>3. CASE s \notin disturbed /\ ~\E x \in ran : x.args.origin = s
    <3>1. CASE Nowhere(s)
      <4>1. s = m
        BY <1>2, <3>1 DEF Source, Nowhere, Holding
      <4>2. Stage(s) = "new"
        BY <1>1, <1>9, <2>3, <3>1, <4>1 DEF Stage
      <4> QED
        BY <4>2 DEF Promise!Lives
    <3>2. CASE ~Nowhere(s)
      <4>1. Stage(s) = "open"
        BY <1>9, <2>3, <3>2 DEF Stage
      <4> QED
        BY <4>1 DEF Promise!Lives
    <3> QED
      BY <3>1, <3>2
  <2> QED
    BY <2>1, <2>2, <2>3
<1>12. /\ {o \in Msgs : InRow(o)}' = {o \in Msgs : InRow(o)}
       /\ {<<x.msg, x.args.origin>> : x \in ran}'
            = {<<x.msg, x.args.origin>> : x \in ran} \cup {<<m, s>>}
  BY <1>3, <1>6
<1>13. [o \in Msgs |-> Lacks(o)]' = [o \in Msgs |-> Lacks(o)]
  BY <1>7
<1>14. ASSUME NEW o \in Msgs PROVE Doubtful(o)' = Doubtful(o)
  <2>1. UNION {Doubts(rq'[n].snap.args) : n \in {n \in Msgs : Holding(rq[n], o)'}}
          = UNION {Doubts(rq[n].snap.args) : n \in {n \in Msgs : Holding(rq[n], o)}}
    BY <1>4, <1>5
  <2> QED
    BY <1>1, <1>6, <2>1 DEF Doubtful, Doubts
<1>15. [o \in Msgs |-> Doubtful(o)]' = [o \in Msgs |-> Doubtful(o)]
  BY <1>14
<1>16. Promise!Run(m, s)
  BY <1>1, <1>8, <1>10, <1>11, <1>12, <1>13, <1>15 DEF Promise!Run
<1> QED
  BY <1>16 DEF Promise!Next

\* a request takes up what the session remembers, alone or as a second one
LEMMA PromiseLoads ==
  ASSUME IInv, TurnsInv, NEW m \in Msgs, Load(m)
  PROVE  Promise!Next \/ UNCHANGED Promise!vars
<1>1. /\ rq[m].pc = "load" /\ rq[m] \in Requests
      /\ UNCHANGED <<plug, row, ran, refused>>
  BY DEF Load, history, IInv, TypeOK
<1>2. PICK q : q = [rq[m] EXCEPT !.pc = "orchestrate", !.snap = row]
  OBVIOUS
<1>3. q.pc = "orchestrate" /\ q.snap = row
  BY <1>1, <1>2 DEF Requests
<1>4. rq'[m] = q /\ \A n \in Msgs \ {m} : rq'[n] = rq[n]
  BY <1>1, <1>2 DEF Load, IInv, TypeOK, Requests
<1>5. \A n \in Msgs : rq'[n].pc = "over" <=> rq[n].pc = "over"
  BY <1>1, <1>3, <1>4
<1>6. \A o : ~Holding(rq[m], o) /\ (Holding(rq[m], o)' <=> InRow(o))
  BY <1>1, <1>3, <1>4 DEF Holding, InRow, TurnsInv, Turn
<1>7. \A n \in Msgs \ {m} : \A o : Holding(rq[n], o)' <=> Holding(rq[n], o)
  BY <1>4 DEF Holding
<1>8. \A o : (InRow(o)' <=> InRow(o)) /\ (Nowhere(o)' <=> Nowhere(o))
  BY <1>1, <1>6, <1>7 DEF InRow, Nowhere
<1>9. ASSUME NEW o \in Msgs PROVE Lacks(o)' = Lacks(o)
  <2>1. CASE InRow(o)
    BY <1>1, <1>8, <2>1 DEF Lacks
  <2>2. CASE ~InRow(o)
    <3>1. \A n \in Msgs : Holding(rq[n], o)' <=> n # m /\ Holding(rq[n], o)
      BY <1>6, <1>7, <2>2
    <3>2. UNION {rq'[n].snap.args.missing : n \in {n \in Msgs : Holding(rq[n], o)'}}
            = UNION {rq[n].snap.args.missing : n \in {n \in Msgs : Holding(rq[n], o)}}
      BY <1>4, <1>6, <3>1
    <3> QED
      BY <1>8, <2>2, <3>2 DEF Lacks
  <2> QED
    BY <2>1, <2>2
<1>10. \A o \in Msgs : (o \in disturbed' <=> o \in disturbed) => Stage(o)' = Stage(o)
  BY <1>1, <1>5, <1>8 DEF Stage
<1>11. {o \in Msgs : InRow(o)}' = {o \in Msgs : InRow(o)}
  BY <1>8
<1>12. [o \in Msgs |-> Lacks(o)]' = [o \in Msgs |-> Lacks(o)]
  BY <1>9
<1>13. ASSUME NEW o \in Msgs PROVE Doubtful(o)' = Doubtful(o)
  <2>1. CASE InRow(o)
    BY <1>1, <1>8, <2>1 DEF Doubtful, Doubts
  <2>2. CASE ~InRow(o)
    <3>1. \A n \in Msgs : Holding(rq[n], o)' <=> n # m /\ Holding(rq[n], o)
      BY <1>6, <1>7, <2>2
    <3>2. UNION {Doubts(rq'[n].snap.args) : n \in {n \in Msgs : Holding(rq[n], o)'}}
            = UNION {Doubts(rq[n].snap.args) : n \in {n \in Msgs : Holding(rq[n], o)}}
      BY <1>4, <1>6, <3>1
    <3> QED
      BY <1>8, <2>2, <3>2 DEF Doubtful, Doubts
  <2> QED
    BY <2>1, <2>2
<1>14. [o \in Msgs |-> Doubtful(o)]' = [o \in Msgs |-> Doubtful(o)]
  BY <1>13
<1>15. CASE disturbed' = disturbed
  BY <1>1, <1>10, <1>11, <1>12, <1>14, <1>15 DEF Promise!vars
<1>16. CASE disturbed' # disturbed
  <2>1. PICK o : o \in disturbed' \ disturbed
    BY <1>16 DEF Load
  <2>2. o = row.args.origin /\ row # NoPending /\ disturbed' = disturbed \cup {o}
    BY <2>1 DEF Load
  <2>3. o \in Msgs /\ InRow(o)
    BY <2>2, Origins DEF IInv, InRow
  <2>4. Stage(o)' = "disturbed"
    BY <2>1 DEF Stage
  <2>5. \A x \in Msgs \ {o} : Stage(x)' = Stage(x)
    BY <1>10, <2>2
  <2>6. Promise!Share(o)
    BY <1>1, <1>11, <1>12, <1>14, <2>3, <2>4, <2>5 DEF Promise!Share
  <2> QED
    BY <2>3, <2>6 DEF Promise!Next
<1> QED
  BY <1>15, <1>16
LEMMA RunsFollowNext ==
  ASSUME IInv, TurnsInv, RunsFollow, [Next]_vars
  PROVE  RunsFollow'
<1>1. \A r \in ran : r.msg \in Msgs /\ rq[r.msg].pc \in {"save", "over"}
  BY Origins DEF IInv, RunsFollow
<1>2. ASSUME ran' = ran,
             \A n \in Msgs : \/ rq'[n].pc = "over"
                             \/ rq[n].pc \notin {"save", "over"}
                             \/ /\ rq'[n].pc = rq[n].pc /\ rq'[n].snap = rq[n].snap
                                /\ rq'[n].text = rq[n].text
      PROVE  RunsFollow'
  <2> SUFFICES ASSUME NEW r \in ran, rq'[r.msg].pc # "over"
               PROVE  /\ rq'[r.msg].pc = "save" /\ ~Refusal(rq'[r.msg])
                      /\ r.args.origin = Source(r.msg, rq'[r.msg])
    BY <1>2 DEF RunsFollow, Refusal, Source
  <2>1. /\ rq'[r.msg].pc = rq[r.msg].pc /\ rq'[r.msg].snap = rq[r.msg].snap
        /\ rq'[r.msg].text = rq[r.msg].text
    BY <1>1, <1>2
  <2> QED
    BY <2>1 DEF RunsFollow, Refusal, Source
<1>3. ASSUME NEW m \in Msgs, NEW text,
             \/ Send(m, text) \/ ListPlugins(m) \/ Classify(m)
             \/ HandlePending(m) /\ inst = "eligible"
      PROVE  RunsFollow'
  <2>1. /\ rq[m].pc \in {"idle", "orchestrate", "classify"} /\ ran' = ran
        /\ \A n \in Msgs \ {m} : rq'[n] = rq[n]
    BY <1>3, ThinkKeeps
  <2> QED
    BY <1>2, <2>1
<1>4. ASSUME NEW m \in Msgs, Load(m) PROVE RunsFollow'
  <2>1. rq[m].pc = "load" /\ ran' = ran
    BY <1>4 DEF Load, history
  <2>2. \A n \in Msgs \ {m} : rq'[n] = rq[n]
    BY <1>4 DEF Load, IInv, TypeOK
  <2> QED
    BY <1>2, <2>1, <2>2
<1>5. ASSUME NEW m \in Msgs, End(m), ran' = ran PROVE RunsFollow'
  <2>1. rq'[m].pc = "over" /\ \A n \in Msgs \ {m} : rq'[n] = rq[n]
    BY <1>5, EndIs DEF IInv
  <2> QED
    BY <1>2, <1>5, <2>1
<1>6. ASSUME NEW m \in Msgs, ExecutePlugin(m) PROVE RunsFollow'
  <2>1. /\ rq[m].pc = "run" /\ ~Refusal(rq[m])
        /\ rq'[m].snap = rq[m].snap /\ rq'[m].text = rq[m].text
        /\ rq'[m].pc = "save"
        /\ \A n \in Msgs \ {m} : rq'[n] = rq[n]
    BY <1>6, ExecutionIs
  <2>2. PICK new : /\ ran' = ran \cup {new} /\ new.msg = m
                   /\ new.args.origin = Source(m, rq[m])
    BY <1>6, ExecutionIs
  <2>3. ~Refusal(rq'[m]) /\ Source(m, rq'[m]) = Source(m, rq[m])
    BY <2>1 DEF Refusal, Source
  <2>4. ASSUME NEW r \in ran
        PROVE  \/ rq'[r.msg].pc = "over"
               \/ /\ rq'[r.msg].pc = "save" /\ ~Refusal(rq'[r.msg])
                  /\ r.args.origin = Source(r.msg, rq'[r.msg])
    <3>1. rq'[r.msg] = rq[r.msg]
      BY <1>1, <2>1
    <3> QED
      BY <3>1 DEF RunsFollow
  <2>5. \A r \in ran' :
           \/ rq'[r.msg].pc = "over"
           \/ /\ rq'[r.msg].pc = "save" /\ ~Refusal(rq'[r.msg])
              /\ r.args.origin = Source(r.msg, rq'[r.msg])
    BY <2>1, <2>2, <2>3, <2>4
  <2> QED
    BY <2>5 DEF RunsFollow, Refusal, Source
<1>7. CASE ChangeInstall
  <2>1. ASSUME NEW n \in Msgs
        PROVE  /\ rq'[n].pc = rq[n].pc /\ rq'[n].snap = rq[n].snap
               /\ rq'[n].text = rq[n].text
    <3>1. rq[n] \in Requests
      BY DEF IInv, TypeOK
    <3>2. rq'[n] = [rq[n] EXCEPT !.seen = @ \/ (Active(n) /\ inst' = "eligible")]
      BY <1>7 DEF ChangeInstall
    <3> QED
      BY <3>1, <3>2 DEF Requests
  <2>2. ran' = ran
    BY <1>7 DEF ChangeInstall, history
  <2> QED
    BY <1>2, <2>1, <2>2
<1>8. CASE UNCHANGED vars
  BY <1>2, <1>8 DEF vars
<1>9. ASSUME NEW m \in Msgs, HandlePending(m) PROVE RunsFollow'
  <2>1. CASE inst = "eligible"
    BY <1>3, <1>9, <2>1
  <2>2. CASE inst # "eligible"
    BY <1>5, <1>9, <2>2 DEF HandlePending, history
  <2> QED
    BY <2>1, <2>2
<1>10. ASSUME NEW m \in Msgs, Save(m) \/ Fail(m) PROVE RunsFollow'
  BY <1>5, <1>10 DEF Save, Fail, history
<1> QED
  BY <1>3, <1>4, <1>6, <1>7, <1>8, <1>9, <1>10 DEF Next

\* of an undisturbed action that is refused nobody has anything any more
LEMMA RefusedIsNobodys ==
  ASSUME IInv, TurnsInv, NEW m \in Msgs, rq[m].pc # "over",
         NEW s \in Msgs, s = Source(m, rq[m]), s \in refused
  PROVE  s \in disturbed
<1> SUFFICES ASSUME s \notin disturbed PROVE FALSE
  OBVIOUS
<1>1. Nowhere(s) /\ s # m
  BY DEF TurnsInv, Unheard
<1>2. Holding(rq[m], s)
  BY <1>1 DEF Source, Holding
<1> QED
  BY <1>1, <1>2 DEF Nowhere

\* what is missing or doubtful has its type
LEMMA LacksTyped ==
  ASSUME TypeOK', NEW o \in Msgs
  PROVE  Lacks(o)' \in SUBSET AllArgNames /\ Doubtful(o)' \in SUBSET AllArgNames
<1>1. InRow(o)' => row'.args.missing \subseteq AllArgNames
  BY DEF TypeOK, InRow, Pending, Args
<1>2. \A n \in Msgs : Holding(rq[n], o)' => rq'[n].snap.args.missing \subseteq AllArgNames
  BY DEF TypeOK, Holding, Requests, Pending, Args
<1>3. UNION {rq'[n].snap.args.missing : n \in {n \in Msgs : Holding(rq[n], o)'}}
        \subseteq AllArgNames
  BY <1>2
<1>4. \A args : Doubts(args) \subseteq AllArgNames
  BY NamesKnown DEF Doubts
<1>5. Doubtful(o)' \subseteq AllArgNames
  <2>1. CASE InRow(o)'
    <3>1. Doubtful(o)' = Doubts(row'.args)
      BY <2>1 DEF Doubtful, Doubts
    <3> QED
      BY <1>4, <3>1
  <2>2. CASE ~InRow(o)'
    <3>1. Doubtful(o)' = UNION {Doubts(rq'[n].snap.args) : n \in {n \in Msgs : Holding(rq[n], o)'}}
      BY <2>2 DEF Doubtful, Doubts
    <3> QED
      BY <1>4, <3>1
  <2> QED
    BY <2>1, <2>2
<1> QED
  BY <1>1, <1>3, <1>5 DEF Lacks

\* a request that ends without a save leaves the session its action
LEMMA PromiseEnds ==
  ASSUME IInv, TurnsInv, RunsFollow, TypeOK', NEW m \in Msgs, End(m), Active(m),
         UNCHANGED <<plug, row, ran, refused>>,
         \/ disturbed' = disturbed
         \/ /\ rq[m].pc = "save"
            /\ disturbed' = disturbed \cup {r.args.origin : r \in {r \in ran : r.msg = m}}
  PROVE  Promise!Next
<1>1. /\ rq'[m].pc = "over" /\ rq'[m].snap = NoPending
      /\ \A n \in Msgs \ {m} : rq'[n] = rq[n]
  BY EndIs DEF IInv
<1>2. PICK s \in Msgs : s = Source(m, rq[m])
  BY Origins DEF IInv, Source
<1>3. \A n \in Msgs : \A o : Holding(rq[n], o)' <=> n # m /\ Holding(rq[n], o)
  BY <1>1 DEF Holding
<1>4. \A o : InRow(o)' <=> InRow(o)
  BY DEF InRow
<1>5. \A o : Holding(rq[m], o) => o = s
  BY <1>2 DEF Holding, Source
<1>6. \A o : Nowhere(o)' <=> Nowhere(o) \/ (~InRow(o) /\ \A n \in Msgs \ {m} : ~Holding(rq[n], o))
  BY <1>3, <1>4 DEF Nowhere
<1>7. rq[m].pc # "over" /\ Unheard(m)
  BY DEF Active, TurnsInv
<1>8. \A o \in disturbed' \ disturbed : o = s /\ \E r \in ran : r.args.origin = o
  BY <1>2 DEF RunsFollow, Active
<1>9. ASSUME NEW o \in Msgs
      PROVE  \/ Stage(o)' = Stage(o)
             \/ /\ o \in {m, s} /\ ~InRow(o)
                /\ Stage(o) \in {"new", "open"} /\ Stage(o)' = "dropped"
             \/ o = s /\ Stage(o) = "ran" /\ Stage(o)' = "disturbed"
  <2>1. CASE o \in disturbed
    <3>1. o \in disturbed'
      BY <2>1
    <3> QED
      BY <2>1, <3>1 DEF Stage
  <2>2. CASE o \in disturbed' \ disturbed
    <3>1. o = s /\ \E r \in ran : r.args.origin = o
      BY <1>8, <2>2
    <3>2. o \notin refused
      BY <1>2, <1>7, <2>2, <3>1, RefusedIsNobodys
    <3> QED
      BY <2>2, <3>1, <3>2 DEF Stage
  <2>3. CASE o \notin disturbed' /\ (o \in refused \/ \E r \in ran : r.args.origin = o)
    <3>1. o \notin disturbed
      BY <2>3
    <3> QED
      BY <2>3, <3>1 DEF Stage
  <2>4. CASE o \notin disturbed' /\ o \notin refused /\ ~\E r \in ran : r.args.origin = o
    <3>0. o \notin disturbed
      BY <2>4
    <3>1. CASE ~Nowhere(o)'
      <4>1. ~Nowhere(o)
        BY <1>6, <3>1
      <4> QED
        BY <2>4, <3>0, <3>1, <4>1 DEF Stage
    <3>2. CASE Nowhere(o)' /\ ~Nowhere(o)
      <4>1. o = s /\ ~InRow(o)
        BY <1>5, <1>6, <3>2 DEF Nowhere
      <4>2. rq[o].pc = "over"
        BY <3>2 DEF TurnsInv, Unheard
      <4>3. rq'[o].pc = "over"
        BY <1>1, <4>2
      <4> QED
        BY <2>4, <3>0, <3>2, <4>1, <4>3 DEF Stage
    <3>3. CASE Nowhere(o)' /\ Nowhere(o)
      <4>1. CASE o = m
        <5>1. Stage(o) = "new" /\ Stage(o)' = "dropped" /\ ~InRow(o)
          BY <1>1, <1>7, <2>4, <3>0, <3>3, <4>1 DEF Stage, Nowhere
        <5> QED
          BY <4>1, <5>1
      <4>2. CASE o # m
        BY <1>1, <2>4, <3>0, <3>3, <4>2 DEF Stage
      <4> QED
        BY <4>1, <4>2
    <3> QED
      BY <3>1, <3>2, <3>3
  <2> QED
    BY <2>1, <2>2, <2>3, <2>4
<1>10. ASSUME NEW o \in Msgs PROVE Lacks(o)' \subseteq Lacks(o) /\ Doubtful(o)' \subseteq Doubtful(o)
  <2>1. UNION {rq'[n].snap.args.missing : n \in {n \in Msgs : Holding(rq[n], o)'}}
          \subseteq UNION {rq[n].snap.args.missing : n \in {n \in Msgs : Holding(rq[n], o)}}
    BY <1>1, <1>3
  <2>2. UNION {Doubts(rq'[n].snap.args) : n \in {n \in Msgs : Holding(rq[n], o)'}}
          \subseteq UNION {Doubts(rq[n].snap.args) : n \in {n \in Msgs : Holding(rq[n], o)}}
    BY <1>1, <1>3
  <2>3. Lacks(o)' \subseteq Lacks(o)
    BY <1>4, <2>1 DEF Lacks
  <2>4. Doubtful(o)' \subseteq Doubtful(o)
    BY <1>4, <2>2 DEF Doubtful, Doubts
  <2> QED
    BY <2>3, <2>4
<1>11. \A o \in Msgs : Stage(o)' \in Promise!Stages
  BY DEF Stage, Promise!Stages
<1>12. \A o \in Msgs : Lacks(o)' \in SUBSET AllArgNames /\ Doubtful(o)' \in SUBSET AllArgNames
  BY LacksTyped
<1>13. {o \in Msgs : InRow(o)}' = {o \in Msgs : InRow(o)}
  BY <1>4
<1>14. Promise!End(m, s)
  BY <1>9, <1>10, <1>11, <1>12, <1>13
     DEF Promise!End, Promise!Drops, Promise!Answers
<1> QED
  BY <1>2, <1>14 DEF Promise!Next

\* what a save does to the rows and the copies
LEMMA SaveIs ==
  ASSUME IInv, TurnsInv, NEW m \in Msgs, Save(m), NEW s, s = Source(m, rq[m])
  PROVE  /\ rq[m].pc = "save" /\ s \in Msgs
         /\ rq'[m].pc = "over" /\ rq'[m].snap = NoPending
         /\ \A n \in Msgs \ {m} : rq'[n] = rq[n]
         /\ UNCHANGED <<plug, ran, disturbed>> /\ refused \subseteq refused'
         /\ row' # NoPending =>
              /\ row'.args.origin = s
              /\ rq[m].snap # NoPending => Left(row', rq[m].snap.args)
         /\ \A o \in refused' \ refused :
              o = s /\ row' = NoPending /\ Holding(rq[m], o) /\ Refusal(rq[m])
<1>1. /\ rq[m].pc = "save" /\ row' = rq[m].does.next /\ End(m)
      /\ UNCHANGED <<plug, ran, disturbed>> /\ refused \subseteq refused'
  BY DEF Save
<1>2. /\ rq'[m].pc = "over" /\ rq'[m].snap = NoPending
      /\ \A n \in Msgs \ {m} : rq'[n] = rq[n]
  BY <1>1, EndIs DEF IInv
<1>3. s \in Msgs
  BY Origins DEF IInv, Source
<1>4. Turn(m, rq[m])
  BY DEF TurnsInv
<1>5. row' # NoPending => row'.args \in Given(rq[m].does)
  BY <1>1 DEF Given
<1>6. row' # NoPending =>
        /\ row'.args.origin = s
        /\ rq[m].snap # NoPending => Left(row', rq[m].snap.args)
  BY <1>1, <1>4, <1>5 DEF Turn, Follows, Keeps
<1>7. ASSUME NEW o \in refused' \ refused
      PROVE  o = s /\ row' = NoPending /\ Holding(rq[m], o) /\ Refusal(rq[m])
  <2>1. Refusal(rq[m]) /\ o = rq[m].snap.args.origin
    BY DEF Save, Refusal
  <2>2. Holding(rq[m], o) /\ o = s
    BY <2>1 DEF Holding, Source, Refusal
  <2>3. row' = NoPending
    BY <1>1, <1>4, <2>1 DEF Turn
  <2> QED
    BY <2>1, <2>2, <2>3
<1> QED
  BY <1>1, <1>2, <1>3, <1>6, <1>7

\* an action that a save leaves in the session is alive, and open
LEMMA SavedLives ==
  ASSUME IInv, TurnsInv, NEW m \in Msgs, Save(m),
         NEW s, s = Source(m, rq[m]), row' # NoPending
  PROVE  /\ Promise!Lives(s)
         /\ Stage(s)' = IF Stage(s) = "new" THEN "open" ELSE Stage(s)
<1>1. /\ rq[m].pc = "save" /\ s \in Msgs /\ UNCHANGED <<plug, ran, disturbed>>
      /\ refused \subseteq refused' /\ row'.args.origin = s /\ s \notin refused' \ refused
  BY SaveIs
<1>2. row' = rq[m].does.next
  BY DEF Save
<1>3. ~Nowhere(s)'
  BY <1>1 DEF Nowhere, InRow
<1>4. CASE s \in disturbed
  BY <1>1, <1>4 DEF Stage, Promise!Lives
<1>5. CASE s \notin disturbed /\ \E r \in ran : r.args.origin = s
  <2>1. s \notin refused /\ s \notin refused'
    BY <1>1, <1>5, RefusedIsNobodys
  <2>2. Stage(s) = "ran" /\ Stage(s)' = "ran"
    BY <1>1, <1>5, <2>1 DEF Stage
  <2>3. plug.kind = "composio"
    <3> SUFFICES ASSUME plug.kind # "composio" PROVE FALSE
      OBVIOUS
    <3>1. PICK r \in ran : r.args.origin = s
      BY <1>5
    <3>2. Finished(r)
      BY <1>5, <3>1 DEF TurnsInv
    <3>3. r.msg # m
      BY <1>1, <1>2, <3>2 DEF Finished
    <3>4. ~Holding(rq[m], s)
      BY <3>1, <3>2, <3>3 DEF Finished, Nowhere
    <3>5. s = m
      BY <3>4 DEF Source, Holding
    <3>6. Unheard(m)
      BY <1>1 DEF TurnsInv
    <3> QED
      BY <3>1, <3>3, <3>5, <3>6 DEF Unheard
  <2>4. Promise!Lives(s)
    BY <1>1, <2>2, <2>3 DEF Promise!Lives
  <2>5. Stage(s)' = IF Stage(s) = "new" THEN "open" ELSE Stage(s)
    BY <2>2
  <2> QED
    BY <2>4, <2>5
<1>6. CASE s \notin disturbed /\ ~\E r \in ran : r.args.origin = s
  <2>1. s \notin refused /\ s \notin refused'
    BY <1>1, <1>6, RefusedIsNobodys
  <2>2. Stage(s)' = "open"
    BY <1>1, <1>3, <1>6, <2>1 DEF Stage
  <2>3. Nowhere(s) => s = m
    BY DEF Source, Nowhere, Holding
  <2>4. Stage(s) \in {"new", "open"}
    BY <1>1, <1>6, <2>1, <2>3 DEF Stage
  <2>5. Promise!Lives(s)
    BY <1>1, <2>4 DEF Promise!Lives
  <2>6. Stage(s)' = IF Stage(s) = "new" THEN "open" ELSE Stage(s)
    BY <2>2, <2>4
  <2> QED
    BY <2>5, <2>6
<1> QED
  BY <1>4, <1>5, <1>6

\* any other stays where it is, is refused, or loses its last place
LEMMA SaveDrops ==
  ASSUME IInv, TurnsInv, RunsFollow, NEW m \in Msgs, Save(m),
         NEW s, s = Source(m, rq[m]), NEW o \in Msgs, ~InRow(o)'
  PROVE  \/ Stage(o)' = Stage(o)
         \/ /\ o \in {m, s} \/ InRow(o)
            /\ Stage(o) \in {"new", "open"} /\ Stage(o)' = "dropped"
         \/ /\ o = s /\ Stage(o)' = "refused"
            /\ \/ Stage(o) = "open"
               \/ Stage(o) = "ran" /\ plug.kind = "composio"
<1>1. /\ rq[m].pc = "save" /\ UNCHANGED <<plug, ran, disturbed>>
      /\ refused \subseteq refused'
      /\ rq'[m].pc = "over" /\ rq'[m].snap = NoPending
      /\ \A n \in Msgs \ {m} : rq'[n] = rq[n]
      /\ o \in refused' \ refused =>
           o = s /\ row' = NoPending /\ Holding(rq[m], o) /\ Refusal(rq[m])
  BY SaveIs
<1>2. \A n \in Msgs : Holding(rq[n], o)' <=> n # m /\ Holding(rq[n], o)
  BY <1>1 DEF Holding
<1>3. Nowhere(o)' <=> \A n \in Msgs \ {m} : ~Holding(rq[n], o)
  BY <1>2 DEF Nowhere
<1>4. Unheard(m)
  BY <1>1 DEF TurnsInv
<1>5. CASE o \in disturbed \/ o \in refused
  BY <1>1, <1>5 DEF Stage
<1>6. CASE o \notin disturbed /\ o \in refused' \ refused
  <2>1. o = s /\ Holding(rq[m], o) /\ Refusal(rq[m]) /\ ~Nowhere(o)
    BY <1>1, <1>6 DEF Nowhere
  <2>2. Stage(o)' = "refused"
    BY <1>1, <1>6 DEF Stage
  <2>3. CASE \E r \in ran : r.args.origin = o
    <3>1. PICK r \in ran : r.args.origin = o
      BY <2>3
    <3>2. r.msg # m
      BY <1>1, <2>1 DEF RunsFollow
    <3>3. ~Finished(r)
      BY <2>1, <3>1, <3>2 DEF Finished
    <3>4. plug.kind = "composio"
      BY <1>6, <3>1, <3>3 DEF TurnsInv
    <3>5. Stage(o) = "ran"
      BY <1>6, <2>3 DEF Stage
    <3> QED
      BY <2>1, <2>2, <3>4, <3>5
  <2>4. CASE ~\E r \in ran : r.args.origin = o
    <3>1. o \notin disturbed /\ o \notin refused
      BY <1>6
    <3>2. Stage(o) = "open"
      BY <2>1, <2>4, <3>1 DEF Stage
    <3> QED
      BY <2>1, <2>2, <3>2
  <2> QED
    BY <2>3, <2>4
<1>7. CASE o \notin disturbed /\ o \notin refused' /\ \E r \in ran : r.args.origin = o
  BY <1>1, <1>7 DEF Stage
<1>8. CASE o \notin disturbed /\ o \notin refused' /\ ~\E r \in ran : r.args.origin = o
  <2>0. o \notin refused /\ o \notin disturbed'
    BY <1>1, <1>8
  <2>1. CASE ~Nowhere(o)'
    <3>1. ~Nowhere(o)
      BY <1>3, <2>1 DEF Nowhere
    <3> QED
      BY <1>1, <1>8, <2>0, <2>1, <3>1 DEF Stage
  <2>2. CASE Nowhere(o)' /\ ~Nowhere(o)
    <3>1. InRow(o) \/ Holding(rq[m], o)
      BY <1>3, <2>2 DEF Nowhere
    <3>2. o = s \/ InRow(o)
      BY <3>1 DEF Holding, Source
    <3>3. rq[o].pc = "over"
      BY <2>2 DEF TurnsInv, Unheard
    <3>4. rq'[o].pc = "over"
      BY <1>1, <3>3
    <3> QED
      BY <1>1, <1>8, <2>0, <2>2, <3>2, <3>4 DEF Stage
  <2>3. CASE Nowhere(o)' /\ Nowhere(o)
    <3>1. CASE o = m
      <4>1. Stage(o) = "new" /\ Stage(o)' = "dropped"
        BY <1>1, <1>8, <2>0, <2>3, <3>1 DEF Stage
      <4> QED
        BY <3>1, <4>1
    <3>2. CASE o # m
      BY <1>1, <1>8, <2>0, <2>3, <3>2 DEF Stage
    <3> QED
      BY <3>1, <3>2
  <2> QED
    BY <2>1, <2>2, <2>3
<1> QED
  BY <1>1, <1>5, <1>6, <1>7, <1>8

\* of an undisturbed action what a copy has is what the promise says of it
LEMMA CopyCounts ==
  ASSUME TurnsInv, NEW n \in Msgs, NEW o \in Msgs, o \notin disturbed, Holding(rq[n], o)
  PROVE  /\ rq[n].snap.args.missing \subseteq Lacks(o)
         /\ Doubts(rq[n].snap.args) \subseteq Doubtful(o)
<1>1. CASE InRow(o)
  <2>1. row = rq[n].snap
    BY <1>1 DEF TurnsInv, CopyIsRow
  <2> QED
    BY <1>1, <2>1 DEF Lacks, Doubtful
<1>2. CASE ~InRow(o)
  <2>1. rq[n].snap.args.missing \subseteq Lacks(o)
    BY <1>2 DEF Lacks
  <2>2. Doubts(rq[n].snap.args) \subseteq Doubtful(o)
    BY <1>2 DEF Doubtful
  <2> QED
    BY <2>1, <2>2
<1> QED
  BY <1>1, <1>2

\* no answer is lost by a save but a doubtful one: nobody but its author had the action
LEMMA SaveAnswers ==
  ASSUME IInv, TurnsInv, NEW m \in Msgs, Save(m), NEW o \in Msgs, Stage(o) = "open"
  PROVE  /\ Lacks(o)' \subseteq Lacks(o) \cup (Doubtful(o) \ Doubtful(o)')
         /\ Doubtful(o)' \subseteq Doubtful(o) \cup Lacks(o)
<1>1. PICK s \in Msgs : s = Source(m, rq[m])
  BY Origins DEF IInv, Source
<1>2. /\ rq[m].pc = "save" /\ rq'[m].snap = NoPending
      /\ \A n \in Msgs \ {m} : rq'[n] = rq[n]
      /\ row' # NoPending =>
           /\ row'.args.origin = s
           /\ rq[m].snap # NoPending => Left(row', rq[m].snap.args)
  BY <1>1, SaveIs
<1>3. o \notin disturbed /\ ~Nowhere(o)
  BY DEF Stage
<1>4. \A n \in Msgs : Holding(rq[n], o)' <=> n # m /\ Holding(rq[n], o)
  BY <1>2 DEF Holding
<1>5. CASE InRow(o)'
  <2>1. o = s /\ row' # NoPending /\ Lacks(o)' = row'.args.missing
    BY <1>2, <1>5 DEF InRow, Lacks
  <2>2. Doubtful(o)' = Doubts(row'.args)
    BY <1>5 DEF Doubtful, Doubts
  <2>3. o # m
    BY <1>2, <1>3 DEF TurnsInv, Unheard
  <2>4. Holding(rq[m], o)
    BY <1>1, <2>1, <2>3 DEF Source, Holding
  <2>5. Left(row', rq[m].snap.args)
    BY <1>2, <2>1, <2>4 DEF Holding
  <2>6. /\ rq[m].snap.args.missing \subseteq Lacks(o)
        /\ Doubts(rq[m].snap.args) \subseteq Doubtful(o)
    BY <1>3, <2>4, CopyCounts
  <2> QED
    BY <2>1, <2>2, <2>5, <2>6 DEF Left
<1>6. CASE ~InRow(o)'
  <2>1. ASSUME NEW n \in Msgs \ {m}, Holding(rq[n], o)
        PROVE  /\ rq[n].snap.args.missing \subseteq Lacks(o)
               /\ Doubts(rq[n].snap.args) \subseteq Doubtful(o)
    BY <1>3, <2>1, CopyCounts
  <2>2. Lacks(o)' = UNION {rq'[n].snap.args.missing : n \in {n \in Msgs : Holding(rq[n], o)'}}
    BY <1>6 DEF Lacks
  <2>3. Doubtful(o)' = UNION {Doubts(rq'[n].snap.args) : n \in {n \in Msgs : Holding(rq[n], o)'}}
    BY <1>6 DEF Doubtful, Doubts
  <2>4. \A n \in Msgs : Holding(rq[n], o)' => /\ rq'[n].snap.args.missing \subseteq Lacks(o)
                                              /\ Doubts(rq'[n].snap.args) \subseteq Doubtful(o)
    BY <1>2, <1>4, <2>1
  <2>5. Lacks(o)' \subseteq Lacks(o)
    BY <2>2, <2>4
  <2>6. Doubtful(o)' \subseteq Doubtful(o)
    BY <2>3, <2>4
  <2> QED
    BY <2>5, <2>6
<1> QED
  BY <1>5, <1>6

LEMMA PromiseSaves ==
  ASSUME IInv, TurnsInv, RunsFollow, TypeOK', NEW m \in Msgs, Save(m)
  PROVE  Promise!Next
<1>1. PICK s \in Msgs : s = Source(m, rq[m])
  BY Origins DEF IInv, Source
<1>2. /\ UNCHANGED <<plug, ran, disturbed>>
      /\ row' # NoPending => row'.args.origin = s
  BY <1>1, SaveIs
<1>3. \A o : InRow(o)' => o = s /\ row' # NoPending
  BY <1>2 DEF InRow
<1>4. {o \in Msgs : InRow(o)}' \in {{}, {s}}
  BY <1>3
<1>5. \A o \in Msgs : InRow(o)' =>
        Promise!Lives(o) /\ Stage(o)' = IF Stage(o) = "new" THEN "open" ELSE Stage(o)
  BY <1>1, <1>3, SavedLives
<1>6. \A o \in Msgs : ~InRow(o)' =>
         \/ Stage(o)' = Stage(o)
         \/ /\ o \in {m, s} \/ InRow(o)
            /\ Stage(o) \in {"new", "open"} /\ Stage(o)' = "dropped"
         \/ /\ o = s /\ Stage(o)' = "refused"
            /\ \/ Stage(o) = "open"
               \/ Stage(o) = "ran" /\ plug.kind = "composio"
  BY <1>1, SaveDrops
<1>7. \A o \in Msgs : Stage(o) = "open" =>
         /\ Lacks(o)' \subseteq Lacks(o) \cup (Doubtful(o) \ Doubtful(o)')
         /\ Doubtful(o)' \subseteq Doubtful(o) \cup Lacks(o)
  BY SaveAnswers
<1>8. \A o \in Msgs : Stage(o)' \in Promise!Stages
  BY DEF Stage, Promise!Stages
<1>9. \A o \in Msgs : Lacks(o)' \in SUBSET AllArgNames /\ Doubtful(o)' \in SUBSET AllArgNames
  BY LacksTyped
<1>10. Promise!Answers
  BY <1>7, <1>9 DEF Promise!Answers
<1>11. Promise!Save(m, s)
  BY <1>2, <1>4, <1>5, <1>6, <1>8, <1>10
     DEF Promise!Save, Promise!Drops, Promise!Refuses
<1> QED
  BY <1>1, <1>11 DEF Promise!Next

LEMMA PromiseStep ==
  ASSUME IInv, TurnsInv, RunsFollow, TypeOK', [Next]_vars
  PROVE  Promise!Next \/ UNCHANGED Promise!vars
<1>1. ASSUME NEW m \in Msgs, NEW text,
             \/ Send(m, text) \/ ListPlugins(m) \/ Classify(m)
             \/ HandlePending(m) /\ inst = "eligible"
      PROVE  UNCHANGED Promise!vars
  <2>1. /\ rq'[m].snap = rq[m].snap
        /\ rq[m].pc \in {"idle", "orchestrate", "classify"}
        /\ rq'[m].pc # "over"
        /\ \A n \in Msgs \ {m} : rq'[n] = rq[n]
        /\ UNCHANGED <<plug, row, ran, refused, disturbed>>
    BY <1>1, ThinkKeeps
  <2> QED
    BY <2>1, SameStages
<1>2. ASSUME NEW m \in Msgs, HandlePending(m)
      PROVE  Promise!Next \/ UNCHANGED Promise!vars
  <2>1. CASE inst = "eligible"
    BY <1>1, <1>2, <2>1
  <2>2. CASE inst # "eligible"
    <3>1. End(m)
      BY <1>2, <2>2 DEF HandlePending
    <3>2. Active(m)
      BY <1>2 DEF HandlePending, Active
    <3>3. UNCHANGED <<plug, row, ran, refused>> /\ disturbed' = disturbed
      BY <1>2, <2>2 DEF HandlePending, history
    <3>4. Promise!Next
      BY <3>1, <3>2, <3>3, PromiseEnds
    <3> QED
      BY <3>4
  <2> QED
    BY <2>1, <2>2
<1>3. ASSUME NEW m \in Msgs, Fail(m) PROVE Promise!Next
  <2>1. End(m) /\ Active(m) /\ UNCHANGED <<plug, row, ran, refused>>
    BY <1>3 DEF Fail, history
  <2>2. CASE rq[m].pc = "save"
    <3>1. disturbed' = disturbed \cup {r.args.origin : r \in {r \in ran : r.msg = m}}
      BY <1>3, <2>2 DEF Fail
    <3> QED
      BY <2>1, <2>2, <3>1, PromiseEnds
  <2>3. CASE rq[m].pc # "save"
    <3>1. disturbed' = disturbed \cup {}
      BY <1>3, <2>3 DEF Fail
    <3>2. disturbed' = disturbed
      BY <3>1
    <3> QED
      BY <2>1, <3>2, PromiseEnds
  <2> QED
    BY <2>2, <2>3
<1>4. CASE ChangeInstall
  <2>1. ASSUME NEW n \in Msgs
        PROVE  rq'[n].pc = rq[n].pc /\ rq'[n].snap = rq[n].snap
    <3>1. rq[n] \in Requests
      BY DEF IInv, TypeOK
    <3>2. rq'[n] = [rq[n] EXCEPT !.seen = @ \/ (Active(n) /\ inst' = "eligible")]
      BY <1>4 DEF ChangeInstall
    <3> QED
      BY <3>1, <3>2 DEF Requests
  <2> QED
    BY <1>4, <2>1, SameStages DEF ChangeInstall, history
<1>5. CASE UNCHANGED vars
  BY <1>5, SameStages DEF vars
<1> QED
  BY <1>1, <1>2, <1>3, <1>4, <1>5, PromiseRuns, PromiseLoads, PromiseSaves DEF Next

\* For any number of concurrent messages and any plugin shapes each action goes
\* through its stages as the promise allows.
THEOREM SessionImplements == Spec => ImplementsPromise
<1>1. Init => RunsFollow
  BY DEF Init, RunsFollow
<1>2. IInv /\ TurnsInv /\ RunsFollow /\ [Next]_vars => RunsFollow'
  BY RunsFollowNext
<1>3. IInv /\ TurnsInv /\ RunsFollow /\ IInv' /\ [Next]_vars
        => [Promise!Next]_(Promise!vars)
  BY PromiseStep DEF IInv
<1> QED
  BY <1>1, <1>2, <1>3, PromiseInit, TurnsInvariant, PTL
     DEF Spec, ImplementsPromise, Promise!Spec

-----------------------------------------------------------------------------
(* What a request does without its plugin.                                  *)

\* a request about to save has met the plugin, or found nothing to act on
Met ==
  \A m \in Msgs : rq[m].pc = "save" =>
    rq[m].seen \/ (rq[m].snap = NoPending /\ rq[m].does.next = NoPending)

LEMMA MetNext ==
  ASSUME IInv, Met, [Next]_vars
  PROVE  Met'
<1>0. TypeOK /\ rq \in [Msgs -> Requests] /\ \A m \in Msgs : Sound(rq[m])
  BY DEF IInv, TypeOK
<1>1. ASSUME NEW m \in Msgs, rq'[m].pc # "save", \A n \in Msgs \ {m} : rq'[n] = rq[n]
      PROVE  Met'
  BY <1>1 DEF Met
<1>2. ASSUME NEW m \in Msgs, NEW d, Decide(m, d),
             rq[m].seen \/ (rq[m].snap = NoPending /\ d.next = NoPending)
      PROVE  Met'
  <2>1. /\ rq'[m].snap = rq[m].snap /\ rq'[m].seen = rq[m].seen /\ rq'[m].does = d
        /\ \A n \in Msgs \ {m} : rq'[n] = rq[n]
    BY <1>0, <1>2, DecideKeeps
  <2> QED
    BY <1>2, <2>1 DEF Met
<1>3. ASSUME NEW m \in Msgs, End(m) PROVE Met'
  BY <1>0, <1>1, <1>3, EndIs
<1>4. ASSUME NEW m \in Msgs, NEW text, Send(m, text) PROVE Met'
  <2>1. PICK q : q = [Idle EXCEPT !.pc = "load", !.text = text, !.seen = inst = "eligible"]
    OBVIOUS
  <2>2. q.pc = "load"
    BY <2>1 DEF Idle
  <2>3. rq' = [rq EXCEPT ![m] = q]
    BY <1>4, <2>1 DEF Send
  <2> QED
    BY <1>0, <1>1, <2>2, <2>3
<1>5. ASSUME NEW m \in Msgs, Load(m) PROVE Met'
  <2>1. rq' = [rq EXCEPT ![m].pc = "orchestrate", ![m].snap = row]
    BY <1>5 DEF Load
  <2>2. rq'[m] = [rq[m] EXCEPT !.pc = "orchestrate", !.snap = row]
    BY <1>0, <2>1
  <2>3. rq'[m].pc = "orchestrate"
    BY <1>0, <2>2 DEF Requests
  <2>4. \A n \in Msgs \ {m} : rq'[n] = rq[n]
    BY <1>0, <2>1
  <2> QED
    BY <1>1, <2>3, <2>4
<1>6. ASSUME NEW m \in Msgs, HandlePending(m) PROVE Met'
  <2>1. CASE inst = "eligible"
    <3>1. rq[m].seen
      BY <1>0, <1>6, <2>1 DEF Sound, HandlePending
    <3> QED
      BY <1>2, <1>6, <2>1, <3>1 DEF HandlePending
  <2>2. CASE inst # "eligible"
    BY <1>3, <1>6, <2>2 DEF HandlePending
  <2> QED
    BY <2>1, <2>2
<1>7. ASSUME NEW m \in Msgs, ListPlugins(m) PROVE Met'
  <2>1. CASE inst = "eligible"
    <3>1. rq' = [rq EXCEPT ![m].pc = "classify"]
      BY <1>7, <2>1 DEF ListPlugins, Goto
    <3>2. rq'[m] = [rq[m] EXCEPT !.pc = "classify"]
      BY <1>0, <3>1
    <3>3. rq'[m].pc = "classify"
      BY <1>0, <3>2 DEF Requests
    <3>4. \A n \in Msgs \ {m} : rq'[n] = rq[n]
      BY <1>0, <3>1
    <3> QED
      BY <1>1, <3>3, <3>4
  <2>2. CASE inst # "eligible"
    <3>1. rq[m].snap = NoPending /\ Decide(m, Say(NoPending))
      BY <1>7, <2>2 DEF ListPlugins
    <3>2. Say(NoPending).next = NoPending
      BY DEF Say
    <3> QED
      BY <1>2, <3>1, <3>2
  <2> QED
    BY <2>1, <2>2
<1>8. ASSUME NEW m \in Msgs, Classify(m) PROVE Met'
  <2>1. rq[m].seen
    BY <1>0, <1>8 DEF Sound, Classify
  <2> QED
    BY <1>2, <1>8, <2>1 DEF Classify
<1>9. ASSUME NEW m \in Msgs, ExecutePlugin(m) PROVE Met'
  <2>1. rq[m].seen
    BY <1>0, <1>9 DEF Sound, ExecutePlugin
  <2>2. PICK d : Decide(m, d)
    BY <1>9 DEF ExecutePlugin
  <2> QED
    BY <1>2, <2>1, <2>2
<1>10. CASE ChangeInstall
  <2> SUFFICES ASSUME NEW n \in Msgs, rq'[n].pc = "save"
               PROVE  rq'[n].seen \/ (rq'[n].snap = NoPending /\ rq'[n].does.next = NoPending)
    BY DEF Met
  <2>1. rq[n] \in Requests
    BY <1>0
  <2>2. PICK b : b = (rq[n].seen \/ (Active(n) /\ inst' = "eligible"))
    OBVIOUS
  <2>3. rq'[n] = [rq[n] EXCEPT !.seen = b]
    BY <1>10, <2>2 DEF ChangeInstall
  <2>4. /\ rq'[n].pc = rq[n].pc /\ rq'[n].snap = rq[n].snap /\ rq'[n].does = rq[n].does
        /\ rq'[n].seen = b
    BY <2>1, <2>3 DEF Requests
  <2> QED
    BY <2>2, <2>4 DEF Met
<1>11. CASE UNCHANGED vars
  BY <1>11 DEF Met, vars
<1> QED
  BY <1>3, <1>4, <1>5, <1>6, <1>7, <1>8, <1>9, <1>10, <1>11 DEF Next, Save, Fail

\* only a save changes what the session remembers
LEMMA RowChanges ==
  ASSUME [Next]_vars, row' # row
  PROVE  \E m \in Msgs : Save(m)
BY DEF Next, Send, Load, HandlePending, ListPlugins, Classify, ExecutePlugin, Fail,
       ChangeInstall, history, vars

\* For any number of concurrent messages and any toggling of the install,
\* while the plugin is away nothing runs and a pending action waits: a request
\* that has not met the plugin at most clears a session it found empty.
THEOREM WaitsForItsPlugin == Spec => ActsWithItsPlugin
<1> DEFINE A == /\ \A r \in ran' \ ran : r.seen
                /\ row' # row => \E m \in Msgs :
                     /\ rq[m].pc = "save" /\ rq'[m].pc = "over"
                     /\ rq[m].seen \/ (rq[m].snap = NoPending /\ row' = NoPending)
<1>1. ASSUME IInv, Met, IInv', [Next]_vars PROVE A
  <2>1. \A r \in ran' \ ran : r.seen
    BY <1>1 DEF IInv, RunsWhatIsInstalled
  <2>2. ASSUME row' # row
        PROVE  \E m \in Msgs :
                 /\ rq[m].pc = "save" /\ rq'[m].pc = "over"
                 /\ rq[m].seen \/ (rq[m].snap = NoPending /\ row' = NoPending)
    <3>1. PICK m \in Msgs : Save(m)
      BY <1>1, <2>2, RowChanges
    <3>2. rq[m].pc = "save" /\ row' = rq[m].does.next /\ End(m)
      BY <3>1 DEF Save
    <3>3. rq'[m].pc = "over"
      BY <1>1, <3>2, EndIs DEF IInv
    <3> QED
      BY <1>1, <3>2, <3>3 DEF Met
  <2> QED
    BY <2>1, <2>2
<1>2. Init => Met
  BY DEF Init, Met, Idle
<1>3. IInv /\ Met /\ [Next]_vars => Met'
  BY MetNext
<1>4. IInv /\ Met /\ IInv' /\ [Next]_vars => [A]_vars
  BY <1>1
<1> QED
  BY <1>2, <1>3, <1>4, InductiveInvariant, PTL DEF Spec, ActsWithItsPlugin
=============================================================================
