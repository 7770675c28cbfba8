------------------------ MODULE PluginExecutionProofs ------------------------
(***************************************************************************)
(* For any number of messages, sessions, steps, calendars and speakers:    *)
(* what the executors behind a plugin promise.  The three parts share      *)
(* nothing but the clock, and each has an inductive invariant of its own.  *)
(***************************************************************************)
EXTENDS PluginExecution, WellFoundedInduction, TLAPS

-----------------------------------------------------------------------------
(* The agent of Composio: what one goroutine carries.                      *)

\* the session a message is about
Held(t) == IF t.snap # NoSession THEN t.snap.session ELSE t.session

\* a question that carries a yes comes from a session with a yes
Agreed(q) == q # NoSession => (q.confirmed => q.session \in agreed)

Carried(t) ==
    /\ t \in Turn
    /\ t.pc \in {"unsent", "over"} => t.snap = NoSession /\ t.session = NoSession
    /\ t.snap # NoSession => t.session \in {NoSession, t.snap.session}
    /\ t.pc # "save" => t.session = Held(t)
    /\ t.pc \in {"search", "plan", "act"} => t.session # NoSession
    /\ t.pc \in {"unsent", "start", "search", "plan", "act"} => t.step < MaxSteps
    /\ t.next # NoSession => t.next.session = Held(t)

Concluded(t) ==
    /\ t.pc # "save" => t.told = "none" /\ t.asked = {} /\ ~t.failing /\ t.next = NoSession
    /\ t.told = "text" => t.snap # NoSession /\ t.next = NoSession
    /\ t.asked # {} => /\ t.told = "question" /\ t.next.kind \in t.asked
                       /\ t.next.session = t.session
    /\ t.told = "succeeded" => ~t.failing

Given(t) == Agreed(t.next) /\ (t.flag => t.session \in agreed)

(* What the messages are to one another. *)

\* a session that a message has opened itself is its own until it is saved
Own(m) ==
    (turn[m].snap = NoSession /\ turn[m].session # NoSession) =>
       /\ turn[m].session \notin shared \cup refused
       /\ asking # NoSession => asking.session # turn[m].session
       /\ \A n \in Messages \ {m} : Held(turn[n]) # turn[m].session

\* two messages hold a question only as shared says
Apart(m) ==
    \A n \in Messages \ {m} :
       (Held(turn[m]) # NoSession /\ Held(turn[n]) = Held(turn[m])) => Held(turn[m]) \in shared

\* a session whose question was answered with no is held by nobody
Left(m) == Held(turn[m]) \in refused => Held(turn[m]) \in shared

Known(m) == Held(turn[m]) # NoSession => Held(turn[m]) \in 1..opened

AgentInv ==
    /\ AgentTypeOK
    /\ \A m \in Messages : /\ Carried(turn[m]) /\ Concluded(turn[m]) /\ Given(turn[m])
                           /\ Own(m) /\ Apart(m) /\ Left(m) /\ Known(m)
    /\ Agreed(asking)
    /\ asking # NoSession => /\ asking.session \in refused => asking.session \in shared
                             /\ asking.session \in 1..opened
    /\ refused \cup shared \subseteq 1..opened

-----------------------------------------------------------------------------
(* What the executor makes of a step's outcome.                            *)

\* An element of a set that is at most all of them is the one Min picks.
LEMMA MinIs ==
  ASSUME NEW S, S \subseteq Int, NEW k \in S, \A j \in S : k <= j
  PROVE  Min(S) = k
<1> DEFINE least(i) == \A j \in S : i <= j
<1>1. \A i \in S : least(i) => i = k
  OBVIOUS
<1>2. least(k)
  OBVIOUS
<1>3. Min(S) = CHOOSE i \in S : least(i)
  BY DEF Min
<1> HIDE DEF least
<1> QED
  BY <1>1, <1>2, <1>3

\* Of the signals the first that says something counts.
LEMMA FirstSignal ==
  ASSUME NEW r \in Result, NEW s, s = Signals(r)
  PROVE  /\ s[1] # "none" => Interpret(r) = s[1]
         /\ s[1] = "none" /\ s[2] # "none" => Interpret(r) = s[2]
         /\ s[1] = "none" /\ s[2] = "none" /\ s[3] # "none" => Interpret(r) = s[3]
         /\ s[1] = "none" /\ s[2] = "none" /\ s[3] = "none" /\ s[4] # "none" => Interpret(r) = s[4]
         /\ s[1] = "none" /\ s[2] = "none" /\ s[3] = "none" /\ s[4] = "none" /\ s[5] # "none"
               => Interpret(r) = s[5]
         /\ s[1] = "none" /\ s[2] = "none" /\ s[3] = "none" /\ s[4] = "none" /\ s[5] = "none"
               => Interpret(r) = "nothing"
<1>1. DOMAIN s = 1..5
  BY DEF Signals
<1>2. PICK heard : heard = {i \in DOMAIN s : s[i] # "none"}
  OBVIOUS
<1>3. Interpret(r) = IF heard = {} THEN "nothing" ELSE s[Min(heard)]
  BY <1>2 DEF Interpret
<1>4. heard = {i \in 1..5 : s[i] # "none"}
  BY <1>1, <1>2
<1>5. ASSUME NEW k \in heard, \A j \in heard : k <= j PROVE Interpret(r) = s[k]
  <2>1. heard \subseteq Int
    BY <1>4
  <2>2. Min(heard) = k
    BY <1>5, <2>1, MinIs
  <2> QED
    BY <1>3, <1>5, <2>2
<1>6. ASSUME NEW k \in 1..5, s[k] # "none", \A j \in 1..5 : j < k => s[j] = "none"
      PROVE  Interpret(r) = s[k]
  <2>1. k \in heard
    BY <1>4, <1>6
  <2>2. ASSUME NEW j \in heard PROVE k <= j
    <3>1. j \in 1..5 /\ s[j] # "none"
      BY <1>4
    <3>2. ~(j < k)
      BY <1>6, <3>1
    <3> QED
      BY <1>6, <3>1, <3>2
  <2> QED
    BY <1>5, <2>1, <2>2
<1>7. s[1] # "none" => Interpret(r) = s[1]
  BY <1>6
<1>8. s[1] = "none" /\ s[2] # "none" => Interpret(r) = s[2]
  BY <1>6
<1>9. s[1] = "none" /\ s[2] = "none" /\ s[3] # "none" => Interpret(r) = s[3]
  BY <1>6
<1>10. s[1] = "none" /\ s[2] = "none" /\ s[3] = "none" /\ s[4] # "none" => Interpret(r) = s[4]
  BY <1>6
<1>11. s[1] = "none" /\ s[2] = "none" /\ s[3] = "none" /\ s[4] = "none" /\ s[5] # "none" =>
          Interpret(r) = s[5]
  BY <1>6
<1>12. s[1] = "none" /\ s[2] = "none" /\ s[3] = "none" /\ s[4] = "none" /\ s[5] = "none"
         => Interpret(r) = "nothing"
  BY <1>3, <1>4
<1> QED
  BY <1>7, <1>8, <1>9, <1>10, <1>11, <1>12

\* A question is understood, and nothing else is taken for one; a failure is never
\* taken for a success.
LEMMA Interpreted ==
  ASSUME NEW r \in SoundResults
  PROVE  /\ Interpret(r) \in Kinds \cup {"nothing", "failed", "succeeded"}
         /\ AsksFor(r) # {} => Interpret(r) \in AsksFor(r)
         /\ Interpret(r) = "succeeded" => ~WentWrong(r)
<1> PICK s : s = Signals(r)
  OBVIOUS
<1>1. r \in Result /\ Sound(r)
  BY DEF SoundResults
<1>2. /\ s[1] = r.status /\ s[2] = r.type /\ s[3] = LinkSays(r) /\ s[4] = ErrorSays(r)
      /\ s[5] = TextSays(r)
  BY DEF Signals
<1>3. /\ r.status \in Kinds \cup {"none", "failed", "succeeded"}
      /\ r.type \in {"none", "input", "confirmation"}
      /\ r.error \in {"none", "input", "confirmation", "busy", "other"}
      /\ r.url \in {"none", "connect", "page"} /\ r.text \in BOOLEAN
  BY <1>1 DEF Result
<1>4. /\ r.url # "none" => LinkSays(r) = "auth"
      /\ r.url = "none" => LinkSays(r) = "none"
      /\ r.text => TextSays(r) = "succeeded"
      /\ ~r.text => TextSays(r) = "none"
  BY DEF LinkSays, TextSays
<1>5. /\ r.error = "none" => ErrorSays(r) = "none"
      /\ r.error = "busy" => ErrorSays(r) = "failed"
      /\ r.error = "other" => ErrorSays(r) = "nothing"
      /\ r.error \in {"input", "confirmation"} => ErrorSays(r) = r.error
  BY DEF ErrorSays
<1>6. /\ AsksFor(r) # {} => r.status \notin {"failed", "succeeded"} /\ r.error # "busy"
      /\ r.url = "page" => r.error \notin Kinds
  BY <1>1 DEF Sound
<1>7. \A k \in Kinds : k \in AsksFor(r) <=>
         (r.status = k \/ r.type = k \/ r.error = k \/ (r.url = "connect" /\ k = "auth"))
  BY DEF AsksFor
<1>8. AsksFor(r) \subseteq Kinds
  BY DEF AsksFor
<1>9. /\ s[1] # "none" => Interpret(r) = s[1]
      /\ s[1] = "none" /\ s[2] # "none" => Interpret(r) = s[2]
      /\ s[1] = "none" /\ s[2] = "none" /\ s[3] # "none" => Interpret(r) = s[3]
      /\ s[1] = "none" /\ s[2] = "none" /\ s[3] = "none" /\ s[4] # "none" => Interpret(r) = s[4]
      /\ s[1] = "none" /\ s[2] = "none" /\ s[3] = "none" /\ s[4] = "none" /\ s[5] # "none"
            => Interpret(r) = s[5]
      /\ s[1] = "none" /\ s[2] = "none" /\ s[3] = "none" /\ s[4] = "none" /\ s[5] = "none"
            => Interpret(r) = "nothing"
  BY <1>1, FirstSignal
<1>10. Interpret(r) \in Kinds \cup {"nothing", "failed", "succeeded"}
  BY <1>2, <1>3, <1>4, <1>5, <1>9 DEF Kinds
<1>11. ASSUME AsksFor(r) # {} PROVE Interpret(r) \in AsksFor(r)
  <2>1. PICK k \in Kinds : r.status = k \/ r.type = k \/ r.error = k \/ (r.url = "connect" /\ k = "auth")
    BY <1>7, <1>8, <1>11
  <2>2. r.status \in Kinds \cup {"none"}
    BY <1>3, <1>6, <1>11
  <2>3. ASSUME r.status = "none", r.type = "none", r.url # "none"
        PROVE  Interpret(r) \in AsksFor(r)
    <3>1. r.url # "page"
      <4>1. r.error \in Kinds \/ r.url = "connect"
        BY <2>1, <2>3 DEF Kinds
      <4> QED
        BY <1>6, <4>1
    <3>2. r.url = "connect"
      BY <1>3, <2>3, <3>1
    <3> QED
      BY <3>2, <2>3, <1>2, <1>4, <1>7, <1>9 DEF Kinds
  <2>4. ASSUME r.status = "none", r.type = "none", r.url = "none"
        PROVE  Interpret(r) \in AsksFor(r)
    BY <2>1, <2>4, <1>2, <1>3, <1>4, <1>5, <1>7, <1>9 DEF Kinds
  <2>5. ASSUME r.status # "none" \/ r.type # "none"
        PROVE  Interpret(r) \in AsksFor(r)
    BY <2>2, <2>5, <1>2, <1>3, <1>7, <1>9 DEF Kinds
  <2> QED
    BY <1>3, <2>3, <2>4, <2>5
<1>12. Interpret(r) = "succeeded" => ~WentWrong(r)
  BY <1>2, <1>3, <1>4, <1>5, <1>9 DEF Kinds, WentWrong
<1> QED
  BY <1>10, <1>11, <1>12

-----------------------------------------------------------------------------
(* The steps of the agent.                                                 *)

LEMMA QuietCarried ==
  /\ Quiet \in Turn /\ Quiet.pc = "unsent" /\ Quiet.snap = NoSession
  /\ Quiet.session = NoSession /\ Quiet.next = NoSession /\ Quiet.told = "none"
  /\ Quiet.asked = {} /\ ~Quiet.failing /\ ~Quiet.flag /\ Quiet.step = 0 /\ 0 < MaxSteps
  BY AgentAssumption DEF Quiet, Turn

\* A step of one goroutine that leaves the row and the sessions alone: what it
\* holds stays, or is let go.
LEMMA LocalStep ==
  ASSUME AgentInv, NEW m \in Messages, NEW t,
         turn' = [turn EXCEPT ![m] = t],
         Carried(t), Concluded(t),
         \/ t.snap = turn[m].snap /\ t.session = turn[m].session
         \/ t.snap = NoSession /\ t.session = NoSession,
         t.flag => turn[m].flag /\ t.session = turn[m].session,
         Agreed(t.next),
         UNCHANGED <<opened, asking, agreed, refused, shared>>
  PROVE  AgentInv'
<1>1. turn'[m] = t /\ \A n \in Messages \ {m} : turn'[n] = turn[n]
  BY DEF AgentInv, AgentTypeOK
<1>2. Held(t) = Held(turn[m]) \/ Held(t) = NoSession
  BY DEF Held
<1>3. AgentTypeOK'
  BY <1>1 DEF AgentInv, AgentTypeOK, Carried
<1>4. \A n \in Messages : /\ Carried(turn[n])' /\ Concluded(turn[n])' /\ Given(turn[n])'
  <2>1. \A n \in Messages \ {m} : Carried(turn[n]) /\ Concluded(turn[n]) /\ Given(turn[n])
    BY DEF AgentInv
  <2>2. Given(t)
    BY DEF AgentInv, Given
  <2> QED
    BY <1>1, <2>1, <2>2 DEF Carried, Concluded, Given, Agreed, Held
<1>5. \A n \in Messages : Held(turn'[n]) \in {Held(turn[n]), NoSession}
  BY <1>1, <1>2
<1>6. \A n \in Messages : Apart(n)' /\ Left(n)' /\ Known(n)'
  <2> SUFFICES ASSUME NEW n \in Messages
               PROVE  Apart(n)' /\ Left(n)' /\ Known(n)'
    OBVIOUS
  <2>1. Apart(n) /\ Left(n) /\ Known(n)
    BY DEF AgentInv
  <2>2. Apart(n)'
    BY <1>5, <2>1 DEF Apart
  <2>3. Left(n)' /\ Known(n)'
    <3>1. NoSession \notin refused
      BY AgentAssumption DEF AgentInv, AgentTypeOK, RouterSessions
    <3> QED
      BY <1>5, <2>1, <3>1 DEF Left, Known
  <2> QED
    BY <2>2, <2>3
<1>7. \A n \in Messages : Own(n)'
  <2> SUFFICES ASSUME NEW n \in Messages, turn'[n].snap = NoSession,
                      turn'[n].session # NoSession
               PROVE  Own(n)'
    BY DEF Own
  <2>1. turn[n].snap = NoSession /\ turn[n].session = turn'[n].session
    BY <1>1
  <2>2. Own(n)
    BY DEF AgentInv
  <2>3. \A k \in Messages \ {n} : Held(turn'[k]) # turn'[n].session
    BY <1>5, <2>1, <2>2 DEF Own
  <2> QED
    BY <2>1, <2>2, <2>3 DEF Own, Held
<1> QED
  BY <1>3, <1>4, <1>6, <1>7 DEF AgentInv, Agreed

LEMMA NewTaskStep ==
  ASSUME AgentInv, NEW m \in Messages, NewTask(m)
  PROVE  AgentInv'
<1> PICK t : t = [turn[m] EXCEPT !.pc = "start"]
  OBVIOUS
<1>1. turn[m] \in Turn /\ Carried(turn[m]) /\ Concluded(turn[m]) /\ Given(turn[m])
  BY DEF AgentInv, AgentTypeOK
<1>2. turn[m].pc = "unsent" /\ turn' = [turn EXCEPT ![m] = t]
  BY <1>1 DEF NewTask, ComesNext, AgentInv, AgentTypeOK
<1>3. t \in Turn /\ t.pc = "start"
  BY <1>1 DEF Turn
<1>4. /\ t.snap = turn[m].snap /\ t.session = turn[m].session /\ t.flag = turn[m].flag
      /\ t.step = turn[m].step /\ t.next = turn[m].next /\ t.told = turn[m].told
      /\ t.asked = turn[m].asked /\ t.failing = turn[m].failing
  BY <1>1 DEF Turn
<1>5. Carried(t) /\ Concluded(t)
  BY <1>1, <1>2, <1>3, <1>4 DEF Carried, Concluded, Held
<1>6. Agreed(t.next)
  BY <1>1, <1>4 DEF Given
<1> QED
  BY <1>2, <1>4, <1>5, <1>6, LocalStep DEF NewTask

\* A request that ends lets go of what it held.
LEMMA OverCarried ==
  ASSUME NEW t, t = [Quiet EXCEPT !.pc = "over"]
  PROVE  /\ Carried(t) /\ Concluded(t) /\ Agreed(t.next)
         /\ t.snap = NoSession /\ t.session = NoSession /\ ~t.flag
<1>1. t \in Turn /\ t.pc = "over"
  BY QuietCarried DEF Turn
<1>2. /\ t.snap = NoSession /\ t.session = NoSession /\ t.next = NoSession /\ t.told = "none"
      /\ t.asked = {} /\ ~t.failing /\ ~t.flag
  BY QuietCarried DEF Turn
<1> QED
  BY <1>1, <1>2 DEF Carried, Concluded, Agreed, Held

LEMMA AbortStep ==
  ASSUME AgentInv, NEW m \in Messages, Abort(m)
  PROVE  AgentInv'
<1> PICK t : t = [Quiet EXCEPT !.pc = "over"]
  OBVIOUS
<1>1. /\ Carried(t) /\ Concluded(t) /\ Agreed(t.next)
      /\ t.snap = NoSession /\ t.session = NoSession /\ ~t.flag
  BY OverCarried
<1> QED
  BY <1>1, LocalStep DEF Abort

\* What a request concludes with before a step has run.
LEMMA ConcludeStep ==
  ASSUME AgentInv, NEW m \in Messages, turn[m].pc \in {"start", "search", "plan"},
         NEW told \in {"failed", "done"}, Conclude(m, told, NoSession),
         UNCHANGED <<opened, asking, agreed, refused, shared>>
  PROVE  AgentInv'
<1> PICK t : t = [turn[m] EXCEPT !.pc = "save", !.told = told, !.next = NoSession]
  OBVIOUS
<1>1. turn[m] \in Turn /\ Carried(turn[m]) /\ Concluded(turn[m])
  BY DEF AgentInv, AgentTypeOK
<1>2. turn' = [turn EXCEPT ![m] = t]
  BY <1>1 DEF Conclude, AgentInv, AgentTypeOK
<1>3. t \in Turn /\ t.pc = "save" /\ t.told = told /\ t.next = NoSession
  BY <1>1 DEF Turn
<1>4. /\ t.snap = turn[m].snap /\ t.session = turn[m].session /\ t.flag = turn[m].flag
      /\ t.step = turn[m].step /\ t.asked = turn[m].asked /\ t.failing = turn[m].failing
  BY <1>1 DEF Turn
<1>5. Carried(t) /\ Concluded(t) /\ Agreed(t.next)
  BY <1>1, <1>3, <1>4 DEF Carried, Concluded, Agreed
<1> QED
  BY <1>2, <1>4, <1>5, LocalStep

\* A call that goes well and tells the user nothing.
LEMMA GoesOnStep ==
  ASSUME AgentInv, NEW m \in Messages, turn[m].pc \in {"start", "search", "plan"},
         turn[m].session # NoSession, NEW pc \in {"plan", "act"},
         turn' = [turn EXCEPT ![m].pc = pc],
         UNCHANGED <<opened, asking, agreed, refused, shared>>
  PROVE  AgentInv'
<1> PICK t : t = [turn[m] EXCEPT !.pc = pc]
  OBVIOUS
<1>1. turn[m] \in Turn /\ Carried(turn[m]) /\ Concluded(turn[m]) /\ Given(turn[m])
  BY DEF AgentInv, AgentTypeOK
<1>2. turn' = [turn EXCEPT ![m] = t]
  BY <1>1 DEF AgentInv, AgentTypeOK
<1>3. t \in Turn /\ t.pc = pc
  BY <1>1 DEF Turn
<1>4. /\ t.snap = turn[m].snap /\ t.session = turn[m].session /\ t.flag = turn[m].flag
      /\ t.step = turn[m].step /\ t.next = turn[m].next /\ t.told = turn[m].told
      /\ t.asked = turn[m].asked /\ t.failing = turn[m].failing
  BY <1>1 DEF Turn
<1>5. Carried(t) /\ Concluded(t)
  BY <1>1, <1>3, <1>4 DEF Carried, Concluded, Held
<1>6. Agreed(t.next)
  BY <1>1, <1>4 DEF Given
<1> QED
  BY <1>2, <1>4, <1>5, <1>6, LocalStep

\* A step of a tool or a meta tool: a question is kept with its session and the
\* flag of the task, and the reply says what came of it.
LEMMA ActStep ==
  ASSUME AgentInv, NEW m \in Messages, Act(m)
  PROVE  AgentInv'
<1> PICK old : old = turn[m]
  OBVIOUS
<1>1. old \in Turn /\ Carried(old) /\ Concluded(old) /\ Given(old) /\ old.pc = "act"
  BY DEF AgentInv, AgentTypeOK, Act
<1>2. /\ old.session \in RouterSessions /\ old.session = Held(old) /\ old.step < MaxSteps
      /\ old.told = "none" /\ old.asked = {} /\ ~old.failing /\ old.next = NoSession
  BY <1>1 DEF Carried, Concluded, Held, Turn
<1>c. UNCHANGED <<opened, asking, agreed, refused, shared>>
  BY DEF Act
<1>3. PICK r \in SoundResults :
        LET meant == Interpret(r)
            heard == [old EXCEPT !.asked = AsksFor(r), !.failing = WentWrong(r)]
        IN  turn' = [turn EXCEPT ![m] =
               IF meant \in Kinds
               THEN [heard EXCEPT !.pc = "save", !.told = "question",
                                  !.next = QuestionOf(old, meant)]
               ELSE IF meant = "nothing" THEN GoOn([old EXCEPT !.asked = AsksFor(r)])
               ELSE [heard EXCEPT !.pc = "save", !.told = meant]]
  BY DEF Act
<1> DEFINE meant == Interpret(r)
           heard == [old EXCEPT !.asked = AsksFor(r), !.failing = WentWrong(r)]
<1>4. /\ meant \in Kinds \cup {"nothing", "failed", "succeeded"}
      /\ AsksFor(r) # {} => meant \in AsksFor(r)
      /\ meant = "succeeded" => ~WentWrong(r)
      /\ AsksFor(r) \subseteq Kinds
  BY Interpreted DEF AsksFor
<1> HIDE DEF meant
<1>h. PICK h \in Turn : /\ h = heard /\ h.asked = AsksFor(r) /\ h.next = old.next
                        /\ h.snap = old.snap /\ h.session = old.session /\ h.flag = old.flag
                        /\ h.failing <=> WentWrong(r)
  <2>1. PICK b \in BOOLEAN : b = WentWrong(r)
    BY DEF WentWrong
  <2>2. PICK g : g = [old EXCEPT !.asked = AsksFor(r)]
    OBVIOUS
  <2>3. /\ g \in Turn /\ g.asked = AsksFor(r) /\ g.next = old.next
        /\ g.snap = old.snap /\ g.session = old.session /\ g.flag = old.flag
    BY <1>1, <1>4, <2>2 DEF Turn
  <2>4. PICK h : h = [g EXCEPT !.failing = b]
    OBVIOUS
  <2>5. /\ h \in Turn /\ h.asked = g.asked /\ h.next = g.next /\ h.snap = g.snap
        /\ h.session = g.session /\ h.flag = g.flag /\ h.failing = b
    BY <2>3, <2>4 DEF Turn
  <2>6. h = heard
    BY <1>1, <2>1, <2>2, <2>4 DEF Turn
  <2> QED
    <3>1. h.failing <=> WentWrong(r)
      BY <2>1, <2>5
    <3> QED
      BY <2>3, <2>5, <2>6, <3>1
<1> HIDE DEF heard
<1>5. CASE meant \in Kinds
  <2> PICK t : t = [heard EXCEPT !.pc = "save", !.told = "question",
                                 !.next = QuestionOf(old, meant)]
    OBVIOUS
  <2>1. turn' = [turn EXCEPT ![m] = t]
    BY <1>3, <1>5 DEF meant, heard
  <2>2. /\ QuestionOf(old, meant) \in Question /\ QuestionOf(old, meant).session = old.session
        /\ QuestionOf(old, meant).kind = meant /\ QuestionOf(old, meant).confirmed = old.flag
    BY <1>1, <1>2, <1>5 DEF QuestionOf, Question, Turn
  <2>q. PICK q \in Question : q = QuestionOf(old, meant)
    BY <2>2
  <2>i. t = [h EXCEPT !.pc = "save", !.told = "question", !.next = q]
    BY <1>h, <2>q
  <2>g. PICK g : g = [h EXCEPT !.pc = "save", !.told = "question"]
    OBVIOUS
  <2>k. /\ g \in Turn /\ g.pc = "save" /\ g.told = "question" /\ g.snap = h.snap
        /\ g.session = h.session /\ g.flag = h.flag /\ g.asked = h.asked
    BY <1>h, <2>g DEF Turn
  <2>t. t = [g EXCEPT !.next = q]
    BY <2>g, <2>i
  <2>s. /\ t \in Turn /\ t.next = q /\ t.pc = g.pc /\ t.told = g.told /\ t.snap = g.snap
        /\ t.session = g.session /\ t.flag = g.flag /\ t.asked = g.asked
    BY <2>k, <2>q, <2>t DEF Turn
  <2>3. t \in Turn /\ t.pc = "save" /\ t.told = "question" /\ t.next = QuestionOf(old, meant)
    BY <2>k, <2>q, <2>s
  <2>4. /\ t.snap = old.snap /\ t.session = old.session /\ t.flag = old.flag
        /\ t.asked = AsksFor(r)
    BY <1>h, <2>k, <2>s
  <2>5. Carried(t)
    BY <1>1, <1>2, <2>2, <2>3, <2>4 DEF Carried, Held
  <2>6. Concluded(t)
    BY <1>4, <2>2, <2>3, <2>4 DEF Concluded
  <2>7. Agreed(t.next)
    BY <1>1, <2>2, <2>3 DEF Agreed, Given
  <2> QED
    BY <1>c, <2>1, <2>4, <2>5, <2>6, <2>7, LocalStep
<1>6. CASE meant = "nothing"
  <2>1. AsksFor(r) = {}
    BY <1>4, <1>6 DEF Kinds
  <2>2. [old EXCEPT !.asked = AsksFor(r)] = old
    BY <1>1, <1>2, <2>1 DEF Turn
  <2> PICK t : t = GoOn(old)
    OBVIOUS
  <2>3. turn' = [turn EXCEPT ![m] = t]
    BY <1>3, <1>4, <1>6, <2>2 DEF meant, Kinds
  <2>4. old.step + 1 \in 0..MaxSteps
    BY <1>1, <1>2, AgentAssumption DEF Turn
  <2>5. /\ t \in Turn /\ t.snap = old.snap /\ t.session = old.session /\ t.flag = old.flag
        /\ t.next = NoSession /\ t.asked = {} /\ ~t.failing
        /\ \/ t.pc = "plan" /\ t.step < MaxSteps /\ t.told = "none"
           \/ t.pc = "save" /\ t.told = "failed"
    <3>1. PICK g : g = [old EXCEPT !.step = old.step + 1]
      OBVIOUS
    <3>2. /\ g \in Turn /\ g.step = old.step + 1 /\ g.snap = old.snap
          /\ g.session = old.session /\ g.flag = old.flag /\ g.next = old.next
          /\ g.asked = old.asked /\ g.told = old.told /\ (g.failing <=> old.failing)
      BY <1>1, <2>4, <3>1 DEF Turn
    <3>3. CASE old.step + 1 < MaxSteps
      <4>1. t = [g EXCEPT !.pc = "plan"]
        BY <3>1, <3>3 DEF GoOn
      <4>2. /\ t \in Turn /\ t.step = g.step /\ t.pc = "plan" /\ t.snap = g.snap
            /\ t.session = g.session /\ t.flag = g.flag /\ t.next = g.next
            /\ t.asked = g.asked /\ t.told = g.told /\ (t.failing <=> g.failing)
        BY <3>2, <4>1 DEF Turn
      <4> QED
        BY <1>2, <3>2, <3>3, <4>2
    <3>4. CASE ~(old.step + 1 < MaxSteps)
      <4>1. PICK e : e = [g EXCEPT !.pc = "save"]
        OBVIOUS
      <4>2. t = [e EXCEPT !.told = "failed"]
        BY <3>1, <3>4, <4>1 DEF GoOn
      <4>3. /\ e \in Turn /\ e.pc = "save" /\ e.snap = g.snap
            /\ e.session = g.session /\ e.flag = g.flag /\ e.next = g.next
            /\ e.asked = g.asked /\ (e.failing <=> g.failing)
        BY <3>2, <4>1 DEF Turn
      <4>4. /\ t \in Turn /\ t.pc = "save" /\ t.snap = e.snap
            /\ t.session = e.session /\ t.flag = e.flag /\ t.next = e.next
            /\ t.asked = e.asked /\ t.told = "failed" /\ (t.failing <=> e.failing)
        BY <4>2, <4>3 DEF Turn
      <4> QED
        BY <1>2, <3>2, <4>3, <4>4
    <3> QED
      BY <3>3, <3>4
  <2>7. Carried(t) /\ Concluded(t) /\ Agreed(t.next)
    BY <1>1, <1>2, <2>5 DEF Carried, Concluded, Agreed, Held
  <2> QED
    BY <1>c, <2>3, <2>5, <2>7, LocalStep
<1>7. CASE meant \in {"failed", "succeeded"}
  <2>1. AsksFor(r) = {}
    BY <1>4, <1>7 DEF Kinds
  <2> PICK t : t = [heard EXCEPT !.pc = "save", !.told = meant]
    OBVIOUS
  <2>2. turn' = [turn EXCEPT ![m] = t]
    BY <1>3, <1>7 DEF meant, heard, Kinds
  <2>i. t = [h EXCEPT !.pc = "save", !.told = meant]
    BY <1>h
  <2>3. t \in Turn /\ t.pc = "save" /\ t.told = meant
    <3>1. PICK told \in {"failed", "succeeded"} : told = meant
      BY <1>7
    <3>2. t = [h EXCEPT !.pc = "save", !.told = told] /\ h \in Turn
      BY <1>h, <2>i, <3>1
    <3>3. t \in Turn
      BY <3>2 DEF Turn
    <3>4. t.pc = "save" /\ t.told = told
      BY <3>2 DEF Turn
    <3> QED
      BY <3>1, <3>3, <3>4
  <2>4. /\ t.snap = old.snap /\ t.session = old.session /\ t.flag = old.flag
        /\ t.asked = {} /\ (t.failing <=> WentWrong(r)) /\ t.next = NoSession
    BY <1>2, <1>h, <2>1, <2>i DEF Turn
  <2>5. Carried(t) /\ Concluded(t) /\ Agreed(t.next)
    BY <1>1, <1>4, <1>7, <2>3, <2>4 DEF Carried, Concluded, Agreed
  <2> QED
    BY <1>c, <2>2, <2>4, <2>5, LocalStep
<1> QED
  BY <1>4, <1>5, <1>6, <1>7

\* A session that Composio creates is nobody's yet.
LEMMA OpenSessionStep ==
  ASSUME AgentInv, NEW m \in Messages, OpenSession(m)
  PROVE  AgentInv'
<1> PICK old, t : /\ old = turn[m]
                  /\ t = [old EXCEPT !.session = opened + 1, !.pc = "search"]
  OBVIOUS
<1>1. old \in Turn /\ Carried(old) /\ Concluded(old) /\ Given(old)
  BY DEF AgentInv, AgentTypeOK
<1>2. /\ turn' = [turn EXCEPT ![m] = t] /\ opened' = opened + 1
      /\ old.pc = "start" /\ old.session = NoSession
      /\ UNCHANGED <<asking, agreed, refused, shared>>
  BY DEF OpenSession, AgentInv, AgentTypeOK
<1>3. turn'[m] = t /\ \A n \in Messages \ {m} : turn'[n] = turn[n]
  BY <1>2 DEF AgentInv, AgentTypeOK
<1>4. /\ opened \in Nat /\ opened' \in RouterSessions /\ opened' \in 0..NumSessions
      /\ opened' \notin 1..opened /\ 1..opened \subseteq 1..opened'
  BY <1>2, AgentAssumption DEF OpenSession, AgentInv, AgentTypeOK, RouterSessions
<1>5. old.snap = NoSession
  BY <1>1, <1>2, AgentAssumption DEF Carried, Held, Turn, Question, RouterSessions
<1>6. /\ t \in Turn /\ t.pc = "search" /\ t.session = opened' /\ t.snap = NoSession
      /\ t.flag = old.flag /\ t.step = old.step /\ t.next = NoSession
      /\ t.told = "none" /\ t.asked = {} /\ ~t.failing
  BY <1>1, <1>2, <1>4, <1>5 DEF Turn, Concluded
<1>7. opened' # NoSession /\ Held(t) = opened'
  BY <1>4, <1>6, AgentAssumption DEF Held
<1>8. ~old.flag
  BY <1>1, <1>2, AgentAssumption DEF Given, AgentInv, AgentTypeOK, RouterSessions
<1>9. Carried(t) /\ Concluded(t) /\ Given(t)'
  BY <1>1, <1>2, <1>6, <1>7, <1>8 DEF Carried, Concluded, Given, Agreed
<1>10. \A n \in Messages \ {m} : Held(turn[n]) # opened' /\ Held(turn[n])' = Held(turn[n])
  BY <1>3, <1>4, <1>7 DEF AgentInv, Known, Held
<1>11. asking # NoSession => asking.session # opened'
  BY <1>4 DEF AgentInv
<1>12. opened' \notin shared \cup refused
  BY <1>4 DEF AgentInv
<1>13. AgentTypeOK'
  BY <1>2, <1>3, <1>4, <1>6 DEF AgentInv, AgentTypeOK
<1>14. \A n \in Messages : Carried(turn[n])' /\ Concluded(turn[n])' /\ Given(turn[n])'
  <2> TAKE n \in Messages
  <2>1. Carried(turn[n]) /\ Concluded(turn[n]) /\ Given(turn[n])
    BY DEF AgentInv
  <2> QED
    BY <1>2, <1>3, <1>9, <2>1 DEF Carried, Concluded, Given, Agreed, Held
<1>15. Own(m)' /\ Apart(m)' /\ Left(m)' /\ Known(m)'
  <2>1. Held(turn[m])' = opened'
    BY <1>3, <1>7 DEF Held
  <2> QED
    BY <1>2, <1>3, <1>4, <1>6, <1>10, <1>11, <1>12, <2>1 DEF Own, Apart, Left, Known
<1>16. ASSUME NEW n \in Messages \ {m} PROVE Own(n)' /\ Apart(n)' /\ Left(n)' /\ Known(n)'
  <2>1. Own(n) /\ Apart(n) /\ Left(n) /\ Known(n)
    BY <1>16 DEF AgentInv
  <2>2. Held(turn[m])' = opened' /\ Held(turn[n])' = Held(turn[n]) /\ Held(turn[n]) # opened'
    BY <1>3, <1>7, <1>10, <1>16 DEF Held
  <2>3. turn'[n] = turn[n]
    BY <1>3, <1>16
  <2>4. Own(n)'
    <3> SUFFICES ASSUME turn[n].snap = NoSession, turn[n].session # NoSession
                 PROVE  Own(n)'
      BY <2>3 DEF Own
    <3>1. turn[n].session # opened'
      BY <2>2 DEF Held
    <3> QED
      BY <1>2, <1>10, <2>1, <2>2, <2>3, <3>1 DEF Own
  <2>5. Apart(n)'
    <3> SUFFICES ASSUME NEW k \in Messages \ {n}, Held(turn[n])' # NoSession,
                        Held(turn[k])' = Held(turn[n])'
                 PROVE  Held(turn[n])' \in shared'
      BY DEF Apart
    <3>1. k # m
      BY <2>2
    <3>2. Held(turn[k])' = Held(turn[k])
      BY <1>10, <3>1
    <3> QED
      BY <1>2, <2>1, <2>2, <3>2 DEF Apart
  <2>6. Left(n)' /\ Known(n)'
    BY <1>2, <1>4, <2>1, <2>2 DEF Left, Known
  <2> QED
    BY <2>4, <2>5, <2>6
<1>17. /\ Agreed(asking)'
       /\ asking' # NoSession => /\ asking'.session \in refused' => asking'.session \in shared'
                                 /\ asking'.session \in 1..opened'
       /\ refused' \cup shared' \subseteq 1..opened'
  BY <1>2, <1>4 DEF AgentInv, Agreed
<1> QED
  BY <1>13, <1>14, <1>15, <1>16, <1>17 DEF AgentInv

\* A message that answers a question holds its session, and says so if it is not
\* alone with it.
LEMMA HandledCarried ==
  ASSUME NEW q \in Question, q # NoSession, NEW text \in Wordings, NEW t, t = Handled(q, text)
  PROVE  /\ Carried(t) /\ Concluded(t) /\ t.snap = q /\ Held(t) = q.session
         /\ t.next # NoSession => t.next = q
         /\ t.flag => /\ t.session = q.session
                      /\ q.confirmed \/ (q.kind = "confirmation" /\ text = "yes")
<1>1. q.session \in RouterSessions /\ q.kind \in Kinds /\ q.confirmed \in BOOLEAN
  BY DEF Question
<1>2. q.session # NoSession
  BY <1>1, AgentAssumption DEF RouterSessions
<1>3. ASSUME NEW flag \in BOOLEAN, t = Resume(q, flag)
      PROVE  /\ Carried(t) /\ Concluded(t) /\ t.snap = q /\ Held(t) = q.session
             /\ t.next = NoSession /\ t.flag = flag /\ t.session = q.session
  <2>1. /\ t \in Turn /\ t.pc = "start" /\ t.snap = q /\ t.session = q.session
        /\ t.flag = flag /\ t.step = 0 /\ t.next = NoSession /\ t.told = "none"
        /\ t.asked = {} /\ ~t.failing
    BY <1>1, <1>3, QuietCarried DEF Resume, Turn
  <2> QED
    BY <1>2, <2>1, QuietCarried DEF Carried, Concluded, Held
<1>4. ASSUME NEW told \in {"text", "question"}, NEW next \in {NoSession, q},
             told = "text" => next = NoSession, t = Reply(q, told, next)
      PROVE  /\ Carried(t) /\ Concluded(t) /\ t.snap = q /\ Held(t) = q.session
             /\ t.next = next /\ ~t.flag
  <2>1. /\ t \in Turn /\ t.pc = "save" /\ t.snap = q /\ t.session = NoSession
        /\ ~t.flag /\ t.step = 0 /\ t.next = next /\ t.told = told
        /\ t.asked = {} /\ ~t.failing
    <3>1. next \in Question \cup {NoSession} /\ q \in Question
      BY <1>4
    <3> QED
      BY <1>4, <3>1, QuietCarried DEF Reply, Turn
  <2> QED
    BY <1>2, <1>4, <2>1, QuietCarried DEF Carried, Concluded, Held
<1>5. CASE q.kind # "confirmation"
  <2>1. t = Resume(q, q.confirmed)
    BY <1>5 DEF Handled
  <2> QED
    BY <1>1, <1>3, <2>1
<1>6. CASE q.kind = "confirmation" /\ text = "yes"
  <2>1. t = Resume(q, TRUE)
    BY <1>6 DEF Handled
  <2> QED
    BY <1>3, <1>6, <2>1
<1>7. CASE q.kind = "confirmation" /\ text = "no"
  <2>1. t = Reply(q, "text", NoSession)
    BY <1>7 DEF Handled
  <2> QED
    BY <1>4, <2>1
<1>8. CASE q.kind = "confirmation" /\ text \notin {"yes", "no"}
  <2>1. t = Reply(q, "question", q)
    BY <1>8 DEF Handled
  <2> QED
    BY <1>4, <2>1
<1> QED
  BY <1>5, <1>6, <1>7, <1>8

LEMMA AnswerStep ==
  ASSUME AgentInv, NEW m \in Messages, NEW text \in Wordings, Answer(m, text)
  PROVE  AgentInv'
<1> PICK q, t : q = asking /\ t = Handled(asking, text)
  OBVIOUS
<1> DEFINE s == q.session
<1>1. /\ q \in Question /\ q # NoSession /\ turn' = [turn EXCEPT ![m] = t]
      /\ turn[m].pc = "unsent"
      /\ UNCHANGED <<opened, asking, refused>>
  BY DEF Answer, ComesNext, AgentInv, AgentTypeOK
<1>2. /\ Carried(t) /\ Concluded(t) /\ t.snap = q /\ Held(t) = s
      /\ t.next # NoSession => t.next = q
      /\ t.flag => t.session = s /\ (q.confirmed \/ (q.kind = "confirmation" /\ text = "yes"))
  BY <1>1, HandledCarried
<1>3. turn'[m] = t /\ \A n \in Messages \ {m} : turn'[n] = turn[n]
  BY <1>1 DEF AgentInv, AgentTypeOK
<1>4. s \in RouterSessions /\ s # NoSession
  BY <1>1, AgentAssumption DEF Question, RouterSessions
<1>5. /\ agreed \subseteq agreed' /\ agreed' \subseteq agreed \cup {s}
      /\ (q.kind = "confirmation" /\ text = "yes") => s \in agreed'
  BY <1>1 DEF Answer
<1>6. /\ shared \subseteq shared' /\ shared' \subseteq shared \cup {s}
      /\ \A n \in Messages : (Running(n) /\ turn[n].snap # NoSession /\ turn[n].snap.session = s)
            => s \in shared'
  BY <1>1 DEF Answer
<1>7. Agreed(q) /\ s \in 1..opened /\ (s \in refused => s \in shared)
  BY <1>1 DEF AgentInv
<1>8. AgentTypeOK'
  BY <1>1, <1>2, <1>3, <1>4, <1>5, <1>6 DEF AgentInv, AgentTypeOK, Carried
<1>9. Given(t)'
  <2>1. t.flag => t.session \in agreed'
    BY <1>1, <1>2, <1>5, <1>7 DEF Agreed
  <2>2. Agreed(t.next)'
    BY <1>2, <1>5, <1>7 DEF Agreed
  <2> QED
    BY <2>1, <2>2 DEF Given
<1>10. \A n \in Messages : Carried(turn[n])' /\ Concluded(turn[n])' /\ Given(turn[n])'
  <2> TAKE n \in Messages
  <2>1. Carried(turn[n]) /\ Concluded(turn[n]) /\ Given(turn[n])
    BY DEF AgentInv
  <2> QED
    BY <1>2, <1>3, <1>5, <1>9, <2>1 DEF Carried, Concluded, Given, Agreed, Held
<1>11. Held(turn[m])' = s /\ turn'[m].snap # NoSession
  BY <1>1, <1>2, <1>3 DEF Held
<1>12. \A n \in Messages \ {m} : /\ Held(turn[n])' = Held(turn[n])
                                 /\ Held(turn[n]) = s => s \in shared'
  <2> TAKE n \in Messages \ {m}
  <2>1. Carried(turn[n]) /\ Own(n)
    BY DEF AgentInv
  <2>2. ASSUME Held(turn[n]) = s PROVE s \in shared'
    <3>1. CASE turn[n].snap # NoSession
      BY <1>6, <2>1, <2>2, <3>1 DEF Carried, Held, Running
    <3>2. CASE turn[n].snap = NoSession
      BY <1>1, <1>4, <2>1, <2>2, <3>2 DEF Own, Held
    <3> QED
      BY <3>1, <3>2
  <2> QED
    BY <1>3, <2>2 DEF Held
<1>13. Own(m)' /\ Apart(m)' /\ Left(m)' /\ Known(m)'
  BY <1>1, <1>6, <1>7, <1>11, <1>12 DEF Own, Apart, Left, Known
<1>14. ASSUME NEW n \in Messages \ {m} PROVE Own(n)' /\ Apart(n)' /\ Left(n)' /\ Known(n)'
  <2>1. Own(n) /\ Apart(n) /\ Left(n) /\ Known(n)
    BY DEF AgentInv
  <2>2. Held(turn[n])' = Held(turn[n]) /\ turn'[n] = turn[n]
    BY <1>3, <1>12
  <2>3. Own(n)'
    <3> SUFFICES ASSUME turn[n].snap = NoSession, turn[n].session # NoSession
                 PROVE  Own(n)'
      BY <2>2 DEF Own
    <3>1. turn[n].session # s /\ turn[n].session \notin shared \cup refused
      BY <1>1, <2>1 DEF Own
    <3>2. \A k \in Messages \ {n} : Held(turn[k])' # turn[n].session
      BY <1>11, <1>12, <2>1, <3>1 DEF Own
    <3> QED
      BY <1>1, <1>6, <2>2, <3>1, <3>2 DEF Own
  <2>4. Apart(n)'
    <3> SUFFICES ASSUME NEW k \in Messages \ {n}, Held(turn[n])' # NoSession,
                        Held(turn[k])' = Held(turn[n])'
                 PROVE  Held(turn[n])' \in shared'
      BY DEF Apart
    <3>1. CASE k = m
      BY <1>11, <1>12, <2>2, <3>1
    <3>2. CASE k # m
      <4>1. Held(turn[k])' = Held(turn[k])
        BY <1>12, <3>2
      <4> QED
        BY <1>6, <2>1, <2>2, <4>1 DEF Apart
    <3> QED
      BY <3>1, <3>2
  <2>5. Left(n)' /\ Known(n)'
    BY <1>1, <1>6, <2>1, <2>2 DEF Left, Known
  <2> QED
    BY <2>3, <2>4, <2>5
<1>15. /\ Agreed(asking)'
       /\ asking' # NoSession => /\ asking'.session \in refused' => asking'.session \in shared'
                                 /\ asking'.session \in 1..opened'
       /\ refused' \cup shared' \subseteq 1..opened'
  BY <1>1, <1>5, <1>6, <1>7 DEF AgentInv, Agreed
<1> QED
  BY <1>8, <1>10, <1>13, <1>14, <1>15 DEF AgentInv

\* What a request saves is the question it holds; a no that is saved leaves nobody
\* with the session but those it was shared with.
LEMMA SaveTurnStep ==
  ASSUME AgentInv, NEW m \in Messages, SaveTurn(m)
  PROVE  AgentInv'
<1> PICK old, t : old = turn[m] /\ t = [Quiet EXCEPT !.pc = "over"]
  OBVIOUS
<1>1. old \in Turn /\ Carried(old) /\ Concluded(old) /\ Given(old)
  BY DEF AgentInv, AgentTypeOK
<1>2. /\ turn' = [turn EXCEPT ![m] = t] /\ asking' = old.next
      /\ refused' = refused \cup (IF old.told = "text" THEN {old.snap.session} ELSE {})
      /\ UNCHANGED <<opened, agreed, shared>>
  BY DEF SaveTurn
<1>3. turn'[m] = t /\ \A n \in Messages \ {m} : turn'[n] = turn[n]
  BY <1>2 DEF AgentInv, AgentTypeOK
<1>4. /\ Carried(t) /\ Concluded(t) /\ t.snap = NoSession /\ t.session = NoSession /\ ~t.flag
      /\ t.next = NoSession
  BY OverCarried, QuietCarried DEF Turn
<1>5. Held(t) = NoSession
  BY <1>4 DEF Held
<1>6. Own(m) /\ Apart(m) /\ Left(m) /\ Known(m)
  BY DEF AgentInv
<1>7. /\ old.next \in Question \cup {NoSession}
      /\ old.next # NoSession => old.next.session = Held(old) /\ Held(old) \in RouterSessions
      /\ old.told = "text" => /\ old.snap # NoSession /\ old.next = NoSession
                              /\ old.snap.session = Held(old) /\ Held(old) \in RouterSessions
  BY <1>1 DEF Carried, Concluded, Held, Turn, Question
<1>8. NoSession \notin RouterSessions
  BY AgentAssumption DEF RouterSessions
<1>9. AgentTypeOK'
  BY <1>2, <1>3, <1>4, <1>7 DEF AgentInv, AgentTypeOK, Carried
<1>10. \A n \in Messages : Carried(turn[n])' /\ Concluded(turn[n])' /\ Given(turn[n])'
  <2> TAKE n \in Messages
  <2>1. Carried(turn[n]) /\ Concluded(turn[n]) /\ Given(turn[n])
    BY DEF AgentInv
  <2> QED
    BY <1>2, <1>3, <1>4, <2>1 DEF Carried, Concluded, Given, Agreed, Held
<1>11. \A n \in Messages \ {m} : /\ Held(turn[n])' = Held(turn[n])
                                 /\ (Held(turn[n]) = Held(old) /\ Held(old) # NoSession)
                                       => Held(old) \in shared
  BY <1>3, <1>6 DEF Held, Apart
<1>12. Held(turn[m])' = NoSession
  BY <1>3, <1>5 DEF Held
<1>13. Own(m)' /\ Apart(m)' /\ Left(m)' /\ Known(m)'
  <2>1. NoSession \notin refused'
    BY <1>8, <1>9 DEF AgentTypeOK
  <2> QED
    BY <1>3, <1>4, <1>12, <2>1 DEF Own, Apart, Left, Known
<1>14. ASSUME NEW n \in Messages \ {m} PROVE Own(n)' /\ Apart(n)' /\ Left(n)' /\ Known(n)'
  <2>1. Own(n) /\ Apart(n) /\ Left(n) /\ Known(n)
    BY DEF AgentInv
  <2>2. Held(turn[n])' = Held(turn[n]) /\ turn'[n] = turn[n]
    BY <1>3, <1>11
  <2>3. Own(n)'
    <3> SUFFICES ASSUME turn[n].snap = NoSession, turn[n].session # NoSession
                 PROVE  Own(n)'
      BY <2>2 DEF Own
    <3>1. /\ turn[n].session \notin shared \cup refused
          /\ \A k \in Messages \ {n} : Held(turn[k]) # turn[n].session
      BY <2>1 DEF Own
    <3>2. Held(old) # turn[n].session
      BY <3>1
    <3>3. \A k \in Messages \ {n} : Held(turn[k])' # turn[n].session
      BY <1>11, <1>12, <3>1
    <3> QED
      BY <1>2, <1>7, <2>2, <3>1, <3>2, <3>3 DEF Own
  <2>4. Apart(n)'
    <3> SUFFICES ASSUME NEW k \in Messages \ {n}, Held(turn[n])' # NoSession,
                        Held(turn[k])' = Held(turn[n])'
                 PROVE  Held(turn[n])' \in shared'
      BY DEF Apart
    <3>1. k # m
      BY <1>12
    <3>2. Held(turn[k])' = Held(turn[k])
      BY <1>11, <3>1
    <3> QED
      BY <1>2, <2>1, <2>2, <3>2 DEF Apart
  <2>5. Left(n)' /\ Known(n)'
    BY <1>2, <1>7, <1>8, <1>11, <2>1, <2>2 DEF Left, Known
  <2> QED
    BY <2>3, <2>4, <2>5
<1>15. /\ Agreed(asking)'
       /\ asking' # NoSession => /\ asking'.session \in refused' => asking'.session \in shared'
                                 /\ asking'.session \in 1..opened'
       /\ refused' \cup shared' \subseteq 1..opened'
  <2>1. Agreed(asking)'
    BY <1>1, <1>2 DEF Given, Agreed
  <2>2. asking' # NoSession => /\ asking'.session \in refused' => asking'.session \in shared'
                               /\ asking'.session \in 1..opened'
    BY <1>2, <1>6, <1>7, <1>8 DEF Left, Known
  <2>3. refused' \cup shared' \subseteq 1..opened'
    BY <1>2, <1>6, <1>7, <1>8 DEF AgentInv, Known
  <2> QED
    BY <2>1, <2>2, <2>3
<1> QED
  BY <1>9, <1>10, <1>13, <1>14, <1>15 DEF AgentInv

LEMMA AgentStarts == ExecutionInit => AgentInv
<1> SUFFICES ASSUME AgentInit PROVE AgentInv
  BY DEF ExecutionInit
<1>1. \A m \in Messages : turn[m] = Quiet
  BY DEF AgentInit
<1>2. AgentTypeOK
  BY QuietCarried, AgentAssumption DEF AgentInit, AgentTypeOK
<1>3. Held(Quiet) = NoSession
  BY QuietCarried DEF Held
<1>4. Carried(Quiet) /\ Concluded(Quiet) /\ Given(Quiet)
  BY <1>3, QuietCarried DEF Carried, Concluded, Given, Agreed
<1>5. \A m \in Messages : Own(m) /\ Apart(m) /\ Left(m) /\ Known(m)
  BY <1>1, <1>3, QuietCarried DEF Own, Apart, Left, Known, AgentInit
<1> QED
  BY <1>1, <1>2, <1>4, <1>5 DEF AgentInv, AgentInit, Agreed

LEMMA AgentSteps == AgentInv /\ AgentNext => AgentInv'
<1> SUFFICES ASSUME AgentInv, NEW m \in Messages,
                    \/ NewTask(m) \/ (\E text \in Wordings : Answer(m, text))
                    \/ Step(m) \/ Abort(m)
             PROVE  AgentInv'
  BY DEF AgentNext
<1>1. CASE NewTask(m)
  BY <1>1, NewTaskStep
<1>2. CASE \E text \in Wordings : Answer(m, text)
  BY <1>2, AnswerStep
<1>3. CASE GiveUp(m)
  BY <1>3, ConcludeStep DEF GiveUp
<1>4. CASE OpenSession(m)
  BY <1>4, OpenSessionStep
<1>5. CASE AttachSession(m)
  BY <1>5, GoesOnStep DEF AttachSession
<1>6. CASE SearchTools(m)
  <2>1. turn[m].session # NoSession
    BY <1>6 DEF SearchTools, AgentInv, Carried
  <2> QED
    BY <1>6, <2>1, GoesOnStep DEF SearchTools
<1>7. CASE PlanNextStep(m)
  <2>1. turn[m].session # NoSession
    BY <1>7 DEF PlanNextStep, AgentInv, Carried
  <2> QED
    BY <1>7, <2>1, ConcludeStep, GoesOnStep DEF PlanNextStep
<1>8. CASE Act(m)
  BY <1>8, ActStep
<1>9. CASE SaveTurn(m)
  BY <1>9, SaveTurnStep
<1>10. CASE Abort(m)
  BY <1>10, AbortStep
<1> QED
  BY <1>1, <1>2, <1>3, <1>4, <1>5, <1>6, <1>7, <1>8, <1>9, <1>10 DEF Step

LEMMA AgentInvariant == ExecutionSpec => []AgentInv
<1>1. AgentInv /\ [ExecutionNext]_executionVars => AgentInv'
  <2> SUFFICES ASSUME AgentInv, AgentNext \/ UNCHANGED agentVars
               PROVE  AgentInv'
    BY DEF ExecutionNext, executionVars
  <2>1. CASE AgentNext
    BY <2>1, AgentSteps
  <2>2. CASE UNCHANGED agentVars
    BY <2>2 DEF agentVars, AgentInv, AgentTypeOK, Own, Apart, Left, Known, Held, Agreed, Given,
                Carried, Concluded
  <2> QED
    BY <2>1, <2>2
<1> QED
  BY <1>1, AgentStarts, PTL DEF ExecutionSpec

\* For any number of messages, sessions and steps: what a step of the agent asks is
\* what its request concludes with, and a step that failed is not reported as a
\* success.
THEOREM OutcomesUnderstood == ExecutionSpec => []OutcomesAreUnderstood
<1>1. AgentInv => OutcomesAreUnderstood
  <2> SUFFICES ASSUME AgentInv PROVE OutcomesAreUnderstood
    OBVIOUS
  <2>1. \A m \in Messages : Concluded(turn[m])
    BY DEF AgentInv
  <2> QED
    BY <2>1 DEF OutcomesAreUnderstood, QuestionsReachTheUser, FailureIsNotSuccess, Concluded
<1> QED
  BY <1>1, AgentInvariant, PTL

\* The planner hears of a yes only in a session with a yes, and no step runs in a
\* session whose question was answered with no, unless two requests held it.
THEOREM AnswersObeyed == ExecutionSpec => []AnswersAreObeyed
<1>1. AgentInv => AnswersAreObeyed
  <2> SUFFICES ASSUME AgentInv, NEW m \in Messages, turn[m].pc \in {"plan", "act"}
               PROVE  /\ ToldConfirmed(turn[m]) => turn[m].session \in agreed
                      /\ turn[m].session \notin refused \ shared
    BY DEF AnswersAreObeyed, ConfirmsWereGiven, RefusedIsLeftAlone
  <2>1. Carried(turn[m]) /\ Given(turn[m]) /\ Left(m)
    BY DEF AgentInv
  <2>2. turn[m].session = Held(turn[m])
    BY <2>1 DEF Carried
  <2> QED
    BY <2>1, <2>2 DEF Given, Left, ToldConfirmed
<1> QED
  BY <1>1, AgentInvariant, PTL

-----------------------------------------------------------------------------
(* How long a request takes.                                               *)

\* The steps a message has before it: those of the loop it has not used, each a
\* plan and an execution, and the ones around the loop.
Rest(t) ==
    CASE t.pc = "unsent" -> 2 * MaxSteps + 4
      [] t.pc = "start"  -> 2 * MaxSteps + 3
      [] t.pc = "search" -> 2 * MaxSteps + 2
      [] t.pc = "plan"   -> 2 * (MaxSteps - t.step) + 1
      [] t.pc = "act"    -> 2 * (MaxSteps - t.step)
      [] t.pc = "save"   -> 1
      [] t.pc = "over"   -> 0

\* A step of a message takes it nearer to its answer, and leaves the others alone.
Nearer(m) ==
    /\ Rest(turn'[m]) < Rest(turn[m])
    /\ \A n \in Messages \ {m} : turn'[n] = turn[n]

LEMMA RestIsNat ==
  ASSUME NEW t, Carried(t)
  PROVE  /\ Rest(t) \in 0..(2 * MaxSteps + 4)
         /\ Rest(t) = 0 <=> t.pc = "over"
<1>1. /\ t.pc \in {"unsent", "start", "search", "plan", "act", "save", "over"}
      /\ t.step \in 0..MaxSteps /\ MaxSteps \in Nat \ {0}
      /\ t.pc \in {"plan", "act"} => t.step < MaxSteps
  BY AgentAssumption DEF Carried, Turn
<1> QED
  BY <1>1 DEF Rest

\* From one place of the loop to the next.
LEMMA NearerIs ==
  ASSUME AgentInv, NEW m \in Messages, NEW t,
         turn' = [turn EXCEPT ![m] = t],
         \/ t.pc = "over" /\ turn[m].pc # "over"
         \/ t.pc = "save" /\ turn[m].pc \notin {"save", "over"}
         \/ t.pc = "start" /\ turn[m].pc = "unsent"
         \/ t.pc = "search" /\ turn[m].pc = "start"
         \/ t.pc = "plan" /\ turn[m].pc \in {"start", "search"} /\ t.step = turn[m].step
         \/ t.pc = "act" /\ turn[m].pc = "plan" /\ t.step = turn[m].step
         \/ t.pc = "plan" /\ turn[m].pc = "act" /\ t.step = turn[m].step + 1
  PROVE  Nearer(m)
<1> PICK old : old = turn[m]
  OBVIOUS
<1>1. /\ old.pc \in {"unsent", "start", "search", "plan", "act", "save", "over"}
      /\ old.step \in 0..MaxSteps /\ MaxSteps \in Nat \ {0}
      /\ old.pc \in {"plan", "act"} => old.step < MaxSteps
  BY AgentAssumption DEF AgentInv, AgentTypeOK, Carried, Turn
<1>2. turn'[m] = t /\ \A n \in Messages \ {m} : turn'[n] = turn[n]
  BY DEF AgentInv, AgentTypeOK
<1>3. Rest(t) < Rest(old)
  BY <1>1 DEF Rest
<1> QED
  BY <1>2, <1>3 DEF Nearer

LEMMA ActIsNearer ==
  ASSUME AgentInv, NEW m \in Messages, Act(m)
  PROVE  Nearer(m)
<1>1. PICK r \in SoundResults :
        LET meant == Interpret(r)
            heard == [turn[m] EXCEPT !.asked = AsksFor(r), !.failing = WentWrong(r)]
        IN  turn' = [turn EXCEPT ![m] =
               IF meant \in Kinds
               THEN [heard EXCEPT !.pc = "save", !.told = "question",
                                  !.next = QuestionOf(turn[m], meant)]
               ELSE IF meant = "nothing" THEN GoOn([turn[m] EXCEPT !.asked = AsksFor(r)])
               ELSE [heard EXCEPT !.pc = "save", !.told = meant]]
  BY DEF Act
<1> PICK old : old = turn[m]
  OBVIOUS
<1>2. old \in Turn /\ old.pc = "act" /\ old.step \in 0..MaxSteps
  BY DEF AgentInv, AgentTypeOK, Act, Turn
<1>3. PICK fresh, heard :
        /\ fresh = [old EXCEPT !.asked = AsksFor(r)]
        /\ heard = [old EXCEPT !.asked = AsksFor(r), !.failing = WentWrong(r)]
  OBVIOUS
<1>4. PICK meant : meant = Interpret(r)
  OBVIOUS
<1>5. PICK t : t = IF meant \in Kinds
                   THEN [heard EXCEPT !.pc = "save", !.told = "question",
                                      !.next = QuestionOf(old, meant)]
                   ELSE IF meant = "nothing" THEN GoOn(fresh)
                   ELSE [heard EXCEPT !.pc = "save", !.told = meant]
  OBVIOUS
<1>6. turn' = [turn EXCEPT ![m] = t]
  BY <1>1, <1>3, <1>4, <1>5
<1>7. /\ "pc" \in DOMAIN heard
      /\ fresh.step = old.step /\ {"pc", "step"} \subseteq DOMAIN fresh
  BY <1>2, <1>3 DEF Turn
<1>8. t.pc = "save" \/ (t.pc = "plan" /\ t.step = old.step + 1)
  <2>1. CASE meant \in Kinds
    BY <1>5, <1>7, <2>1
  <2>2. CASE meant \notin Kinds /\ meant = "nothing"
    <3>1. t = GoOn(fresh)
      BY <1>5, <2>2
    <3> QED
      BY <1>7, <3>1 DEF GoOn
  <2>3. CASE meant \notin Kinds /\ meant # "nothing"
    BY <1>5, <1>7, <2>3
  <2> QED
    BY <2>1, <2>2, <2>3
<1> QED
  BY <1>2, <1>6, <1>8, NearerIs

\* A message that answers a question begins, or concludes at once.
LEMMA AnswerIsNearer ==
  ASSUME AgentInv, NEW m \in Messages, NEW text \in Wordings, Answer(m, text)
  PROVE  Nearer(m)
<1> PICK t : t = Handled(asking, text)
  OBVIOUS
<1>1. turn[m].pc = "unsent" /\ turn' = [turn EXCEPT ![m] = t]
  BY DEF Answer, ComesNext
<1>2. "pc" \in DOMAIN Quiet
  BY DEF Quiet
<1>3. t.pc \in {"start", "save"}
  BY <1>2 DEF Handled, Resume, Reply
<1> QED
  BY <1>1, <1>3, NearerIs

LEMMA StepsAreNearer == AgentInv /\ AgentNext => \E m \in Messages : Nearer(m)
<1> SUFFICES ASSUME AgentInv, NEW m \in Messages,
                    \/ NewTask(m) \/ (\E text \in Wordings : Answer(m, text))
                    \/ Step(m) \/ Abort(m)
             PROVE  Nearer(m)
  BY DEF AgentNext
<1>1. turn \in [Messages -> Turn] /\ turn[m] \in Turn /\ {"pc", "step"} \subseteq DOMAIN turn[m]
  BY DEF AgentInv, AgentTypeOK, Turn
<1>2. ASSUME NEW pc, turn' = [turn EXCEPT ![m].pc = pc]
      PROVE  /\ turn' = [turn EXCEPT ![m] = [turn[m] EXCEPT !.pc = pc]]
             /\ [turn[m] EXCEPT !.pc = pc].pc = pc
             /\ [turn[m] EXCEPT !.pc = pc].step = turn[m].step
  BY <1>1, <1>2
<1>3. ASSUME NEW told, Conclude(m, told, NoSession), turn[m].pc \in {"start", "search", "plan"}
      PROVE  Nearer(m)
  <2> PICK t : t = [turn[m] EXCEPT !.pc = "save", !.told = told, !.next = NoSession]
    OBVIOUS
  <2>1. turn' = [turn EXCEPT ![m] = t] /\ t.pc = "save"
    BY <1>1, <1>3 DEF Conclude
  <2> QED
    BY <1>3, <2>1, NearerIs
<1>4. ASSUME turn' = [turn EXCEPT ![m] = [Quiet EXCEPT !.pc = "over"]], turn[m].pc # "over"
      PROVE  Nearer(m)
  <2>1. [Quiet EXCEPT !.pc = "over"].pc = "over"
    BY DEF Quiet
  <2> QED
    BY <1>4, <2>1, NearerIs
<1>5. CASE NewTask(m)
  BY <1>2, <1>5, NearerIs DEF NewTask, ComesNext
<1>6. CASE \E text \in Wordings : Answer(m, text)
  BY <1>6, AnswerIsNearer
<1>7. CASE GiveUp(m)
  BY <1>3, <1>7 DEF GiveUp
<1>8. CASE OpenSession(m)
  <2> PICK t : t = [turn[m] EXCEPT !.session = opened', !.pc = "search"]
    OBVIOUS
  <2>1. turn' = [turn EXCEPT ![m] = t] /\ t.pc = "search" /\ turn[m].pc = "start"
    BY <1>1, <1>8 DEF OpenSession
  <2> QED
    BY <2>1, NearerIs
<1>9. CASE AttachSession(m)
  BY <1>2, <1>9, NearerIs DEF AttachSession
<1>10. CASE SearchTools(m)
  BY <1>2, <1>10, NearerIs DEF SearchTools
<1>11. CASE PlanNextStep(m)
  <2>1. CASE Conclude(m, "done", NoSession)
    BY <1>3, <1>11, <2>1 DEF PlanNextStep
  <2>2. CASE turn' = [turn EXCEPT ![m].pc = "act"]
    BY <1>2, <1>11, <2>2, NearerIs DEF PlanNextStep
  <2> QED
    BY <1>11, <2>1, <2>2 DEF PlanNextStep
<1>12. CASE Act(m)
  BY <1>12, ActIsNearer
<1>13. CASE SaveTurn(m)
  BY <1>4, <1>13 DEF SaveTurn
<1>14. CASE Abort(m)
  BY <1>4, <1>14 DEF Abort, Running
<1> QED
  BY <1>5, <1>6, <1>7, <1>8, <1>9, <1>10, <1>11, <1>12, <1>13, <1>14 DEF Step

\* For any number of messages, sessions and steps: whatever Composio, its planner or
\* the user answers, every step of the agent belongs to one message and takes that
\* message nearer to its answer, of which it is never more than twice the steps of
\* the loop and four away.  The loop of ExecuteTask cannot go round for ever.
THEOREM TurnsAreBounded ==
  ExecutionSpec => /\ []\A m \in Messages : Rest(turn[m]) \in 0..(2 * MaxSteps + 4)
                   /\ [][\E m \in Messages : Nearer(m)]_agentVars
<1>1. AgentInv => \A m \in Messages : Rest(turn[m]) \in 0..(2 * MaxSteps + 4)
  BY RestIsNat DEF AgentInv
<1>2. AgentInv /\ [ExecutionNext]_executionVars => [\E m \in Messages : Nearer(m)]_agentVars
  <2> SUFFICES ASSUME AgentInv, AgentNext \/ UNCHANGED agentVars
               PROVE  [\E m \in Messages : Nearer(m)]_agentVars
    BY DEF ExecutionNext, executionVars
  <2> QED
    BY StepsAreNearer
<1> QED
  BY <1>1, <1>2, AgentInvariant, PTL DEF ExecutionSpec

-----------------------------------------------------------------------------
(* Reminders set by voice: what a conversation carries from the question   *)
(* to the reminder, and the cache of addresses.                            *)

Instants == [form : {"instant"}, at : Int, phrase : {NoTime}]

Conversations ==
    [stage : ReminderStages, kind : ReminderKinds, arg : Instants, prompt : Int \cup {NoTime},
     changed : BOOLEAN, got : Nat, began : Nat, asOf : Nat,
     told : {"none", "refused", "past", "failed", "unclear", "set"}, made : Int]

\* what was asked, and what will be made of it
Faithful(x, setting) ==
    /\ x.stage # "over" => x.told = "none"
    /\ (x.stage \in {"confirm", "execute"} /\ x.prompt # NoTime) =>
          IF x.kind = "time" THEN x.arg.at = x.prompt ELSE x.changed \/ x.prompt = setting
    /\ x.stage \in {"lookup", "call", "answer", "create"} =>
          /\ x.kind \in {"exact", "keyword"}
          /\ x.prompt # NoTime => x.changed \/ x.got = x.prompt
    /\ (x.told = "set" /\ x.prompt # NoTime) =>
          x.made = x.prompt \/ (x.kind # "time" /\ x.changed)

\* how old the address may be that it has found
Recent(x, t) ==
    /\ x.stage \in {"call", "answer"} => x.began <= t
    /\ x.stage = "answer" => x.began <= x.asOf
    /\ (x.stage = "create" \/ x.told = "set") =>
          (x.kind = "exact" => x.began <= x.asOf + CacheTTL)

ReminderInv ==
    /\ now \in Nat
    /\ geocodes \in [asOf : Nat, until : Nat] \cup {NoEntry}
    /\ geocodes # NoEntry => geocodes.until <= geocodes.asOf + CacheTTL
    /\ radius \in [Speakers -> Nat]
    /\ spoken \in [Speakers -> Conversations]
    /\ \A s \in Speakers : Faithful(spoken[s], radius[s]) /\ Recent(spoken[s], now)

\* A time as said, once understood, is an instant.
LEMMA NormalizeIs ==
  ASSUME now \in Nat, NEW arg,
         \/ \E p \in Phrases : Understood(p) /\ arg = AsSaid(p)
         \/ \E t \in Int : arg = Instant(t)
  PROVE  /\ Normalize(arg) \in Instants
         /\ TimeOf(Normalize(arg)) = Normalize(arg).at
<1>1. TimeOf(arg) \in Int
  <2>1. CASE \E t \in Int : arg = Instant(t)
    BY <2>1 DEF TimeOf, Instant
  <2>2. ASSUME NEW p \in Phrases, Understood(p), arg = AsSaid(p)
        PROVE  TimeOf(arg) \in Int
    <3>1. p.clock \in Int /\ DayTicks \in Nat \ {0}
      <4>1. p \in Phrase /\ p.clock # NoTime
        BY <2>2 DEF Phrases, Understood
      <4>2. p.clock \in Clocks
        BY <4>1 DEF Phrase
      <4>3. p.clock \in 0..(DayTicks - 1)
        BY <4>2, TimesAssumption
      <4> QED
        BY <4>3, TimesAssumption
    <3>2. DayOf(now) \in Int
      BY <3>1 DEF DayOf
    <3>3. DayOf(now) * DayTicks \in Int
      BY <3>1, <3>2
    <3>4. ParseDateTime(p) \in Int
      BY <3>1, <3>3 DEF ParseDateTime
    <3> QED
      BY <2>2, <3>4 DEF TimeOf, AsSaid
  <2> QED
    BY <2>1, <2>2
<1>2. Normalize(arg) = Instant(TimeOf(arg))
  BY DEF Normalize
<1> QED
  BY <1>1, <1>2 DEF Instant, Instants, TimeOf

\* A step of one conversation.
LEMMA SayStep ==
  ASSUME ReminderInv, NEW s \in Speakers, NEW x \in Conversations,
         spoken' = [spoken EXCEPT ![s] = x],
         Faithful(x, radius[s]), Recent(x, now),
         UNCHANGED <<now, geocodes, radius>>
  PROVE  ReminderInv'
  BY DEF ReminderInv

\* Time passes.
LEMMA ClockStep ==
  ASSUME ReminderInv, now' \in {now, now + 1}, UNCHANGED <<geocodes, radius, spoken>>
  PROVE  ReminderInv'
<1>1. now' \in Nat /\ now <= now'
  BY DEF ReminderInv
<1>2. \A s \in Speakers : Recent(spoken[s], now')
  BY <1>1 DEF ReminderInv, Recent, Conversations
<1> QED
  BY <1>1, <1>2 DEF ReminderInv

LEMMA UntoldIs ==
  /\ Untold \in Conversations /\ Untold.stage = "idle" /\ Untold.kind = "time"
  /\ Untold.told = "none" /\ Untold.arg \in Instants
  BY DEF Untold, Conversations, ReminderStages, ReminderKinds, Instant, Instants

\* A conversation that is over without a reminder.
LEMMA TellIs ==
  ASSUME NEW what \in {"refused", "past", "failed", "unclear"}, NEW setting, now \in Nat
  PROVE  Tell(what) \in Conversations /\ Faithful(Tell(what), setting) /\ Recent(Tell(what), now)
<1> PICK x : x = Tell(what)
  OBVIOUS
<1>2. x \in Conversations /\ x.stage = "over" /\ x.told = what
  BY UntoldIs DEF Tell, Conversations, ReminderStages
<1> QED
  BY <1>2 DEF Faithful, Recent

LEMMA MadeIs ==
  ASSUME NEW s \in Speakers, NEW old \in Conversations, old = spoken[s],
         NEW made \in Int, NEW x, x = Made(s, made)
  PROVE  /\ x \in Conversations
         /\ x.stage = "over" /\ x.kind = old.kind /\ x.prompt = old.prompt /\ x.made = made
         /\ x.changed = old.changed /\ x.began = old.began /\ x.asOf = old.asOf
<1>1. PICK arg \in Instants : arg = Untold.arg
  BY UntoldIs
<1>2. PICK y : y = [old EXCEPT !.stage = "over", !.told = "set", !.made = made]
  OBVIOUS
<1>3. PICK z : z = [y EXCEPT !.arg = arg]
  OBVIOUS
<1>4. y \in Conversations
  BY <1>2 DEF Conversations, ReminderStages
<1>5. z \in Conversations
  BY <1>1, <1>3, <1>4 DEF Conversations
<1>6. x = [old EXCEPT !.stage = "over", !.told = "set", !.made = made, !.arg = arg, !.got = 0]
  BY <1>1 DEF Made
<1>7. x = [z EXCEPT !.got = 0]
  BY <1>2, <1>3, <1>4, <1>6 DEF Conversations
<1>8. x \in Conversations
  BY <1>5, <1>7 DEF Conversations
<1> QED
  BY <1>6, <1>8 DEF Conversations

LEMMA SayTimeStep ==
  ASSUME ReminderInv, NEW s \in Speakers, NEW arg, SayTime(s, arg),
         \/ \E p \in Phrases : arg = AsSaid(p)
         \/ \E t \in Int : arg = Instant(t)
  PROVE  ReminderInv'
<1> PICK given, x : /\ given = Normalize(arg)
                    /\ x = [Untold EXCEPT !.stage = "confirm", !.arg = given,
                                          !.prompt = TimeOf(given)]
  OBVIOUS
<1>1. /\ spoken' = [spoken EXCEPT ![s] = x]
      /\ UNCHANGED <<now, geocodes, radius>>
      /\ arg.form = "words" => Understood(arg.phrase)
  BY DEF SayTime
<1>2. \/ \E p \in Phrases : Understood(p) /\ arg = AsSaid(p)
      \/ \E t \in Int : arg = Instant(t)
  BY <1>1 DEF AsSaid
<1>3. given \in Instants /\ TimeOf(given) = given.at
  BY <1>2, NormalizeIs DEF ReminderInv
<1>4. /\ x \in Conversations /\ x.stage = "confirm" /\ x.kind = "time" /\ x.arg = given
      /\ x.prompt = given.at /\ x.told = "none"
  <2>1. given.at \in Int
    BY <1>3 DEF Instants
  <2> QED
    BY <1>3, <2>1, UntoldIs DEF Conversations, ReminderStages
<1>5. Faithful(x, radius[s]) /\ Recent(x, now)
  BY <1>4 DEF Faithful, Recent
<1> QED
  BY <1>1, <1>4, <1>5, SayStep

LEMMA AskStep ==
  ASSUME ReminderInv, NEW s \in Speakers, AskTime(s) \/ AskAddress(s)
  PROVE  ReminderInv'
<1> PICK x : /\ spoken' = [spoken EXCEPT ![s] = x]
             /\ \/ x = [Untold EXCEPT !.stage = "ask"]
                \/ x = [Untold EXCEPT !.kind = "exact", !.stage = "ask"]
  BY DEF AskTime, AskAddress
<1>1. x \in Conversations /\ x.stage = "ask" /\ x.told = "none"
  BY UntoldIs DEF Conversations, ReminderStages, ReminderKinds
<1>2. Faithful(x, radius[s]) /\ Recent(x, now)
  BY <1>1 DEF Faithful, Recent
<1> QED
  BY <1>1, <1>2, SayStep DEF AskTime, AskAddress

LEMMA SayPlaceStep ==
  ASSUME ReminderInv, NEW s \in Speakers, NEW kind \in ReminderKinds \ {"time"},
         NEW asks \in BOOLEAN, SayPlace(s, kind, asks)
  PROVE  ReminderInv'
<1> PICK x : x = [Untold EXCEPT !.kind = kind, !.stage = IF asks THEN "confirm" ELSE "execute",
                                !.prompt = IF asks THEN radius[s] ELSE NoTime]
  OBVIOUS
<1>1. PICK prompt \in Int \cup {NoTime}, stage \in {"confirm", "execute"} :
        /\ prompt = (IF asks THEN radius[s] ELSE NoTime)
        /\ stage = (IF asks THEN "confirm" ELSE "execute")
  BY DEF ReminderInv
<1>2. /\ x \in Conversations /\ x.stage = stage /\ x.kind = kind /\ x.prompt = prompt
      /\ x.told = "none"
  BY <1>1, UntoldIs DEF Conversations, ReminderStages
<1>3. Faithful(x, radius[s]) /\ Recent(x, now)
  BY <1>1, <1>2 DEF Faithful, Recent
<1> QED
  BY <1>2, <1>3, SayStep DEF SayPlace

\* The answer to the question, and the reminder at a time.
LEMMA AnsweredStep ==
  ASSUME ReminderInv, NEW s \in Speakers,
         \/ \E yes \in BOOLEAN : ConfirmReminder(s, yes)
         \/ CreateAtTime(s) \/ RejectMode(s) \/ StoreFails(s)
         \/ \E unclear \in BOOLEAN : AddressFails(s, unclear)
  PROVE  ReminderInv'
<1> PICK old : old = spoken[s]
  OBVIOUS
<1>1. old \in Conversations /\ Faithful(old, radius[s]) /\ Recent(old, now) /\ now \in Nat
  BY DEF ReminderInv
<1>2. ASSUME NEW what \in {"refused", "past", "failed", "unclear"},
             spoken' = [spoken EXCEPT ![s] = Tell(what)],
             UNCHANGED <<now, geocodes, radius>>
      PROVE  ReminderInv'
  BY <1>1, <1>2, TellIs, SayStep
<1>3. CASE \E yes \in BOOLEAN : ConfirmReminder(s, yes)
  <2>1. CASE ConfirmReminder(s, FALSE)
    BY <2>1, <1>2 DEF ConfirmReminder
  <2>2. CASE ConfirmReminder(s, TRUE)
    <3> PICK x : x = [old EXCEPT !.stage = "execute"]
      OBVIOUS
    <3>1. /\ spoken' = [spoken EXCEPT ![s] = x] /\ old.stage = "confirm"
          /\ UNCHANGED <<now, geocodes, radius>>
      BY <2>2 DEF ConfirmReminder, ReminderInv
    <3>2. /\ x \in Conversations /\ x.stage = "execute" /\ x.kind = old.kind /\ x.arg = old.arg
          /\ x.prompt = old.prompt /\ x.changed = old.changed /\ x.told = old.told
      BY <1>1 DEF Conversations, ReminderStages
    <3>3. Faithful(x, radius[s]) /\ Recent(x, now)
      BY <1>1, <3>1, <3>2 DEF Faithful, Recent
    <3> QED
      BY <3>1, <3>2, <3>3, SayStep
  <2> QED
    BY <1>3, <2>1, <2>2
<1>4. CASE CreateAtTime(s)
  <2>1. CASE ~(TimeOf(old.arg) > now)
    BY <1>2, <1>4, <2>1 DEF CreateAtTime
  <2>2. CASE TimeOf(old.arg) > now
    <3> PICK x : x = Made(s, TimeOf(old.arg))
      OBVIOUS
    <3>1. /\ spoken' = [spoken EXCEPT ![s] = x]
          /\ old.stage = "execute" /\ old.kind = "time"
          /\ UNCHANGED <<now, geocodes, radius>>
      BY <1>4, <2>2 DEF CreateAtTime
    <3>2. TimeOf(old.arg) = old.arg.at /\ old.arg.at \in Int
      BY <1>1 DEF TimeOf, Conversations, Instants
    <3>3. /\ x \in Conversations /\ x.stage = "over" /\ x.kind = "time"
          /\ x.prompt = old.prompt /\ x.made = old.arg.at
      BY <1>1, <3>1, <3>2, MadeIs
    <3>4. Faithful(x, radius[s]) /\ Recent(x, now)
      BY <1>1, <3>1, <3>3 DEF Faithful, Recent
    <3> QED
      BY <3>1, <3>3, <3>4, SayStep
  <2> QED
    BY <2>1, <2>2
<1>5. CASE RejectMode(s)
  BY <1>2, <1>5 DEF RejectMode
<1>6. CASE StoreFails(s)
  BY <1>2, <1>6 DEF StoreFails
<1>7. CASE \E unclear \in BOOLEAN : AddressFails(s, unclear)
  BY <1>2, <1>7 DEF AddressFails
<1> QED
  BY <1>3, <1>4, <1>5, <1>6, <1>7

\* The look-up of an address and of the radius.
LEMMA LookUpStep ==
  ASSUME ReminderInv, NEW s \in Speakers,
         ReadRadius(s) \/ LookUpAddress(s) \/ FindAddress(s) \/ CreateAtPlace(s)
  PROVE  ReminderInv'
<1> PICK old : old = spoken[s]
  OBVIOUS
<1>1. /\ old \in Conversations /\ Faithful(old, radius[s]) /\ Recent(old, now) /\ now \in Nat
      /\ radius[s] \in Nat /\ CacheTTL \in Nat
  BY RemindersAssumption DEF ReminderInv
<1>2. CASE ReadRadius(s)
  <2> PICK got, stage, x : /\ got = radius[s]
                           /\ stage = (IF old.kind = "exact" THEN "lookup" ELSE "create")
                           /\ x = [old EXCEPT !.got = got, !.stage = stage]
    OBVIOUS
  <2>1. /\ spoken' = [spoken EXCEPT ![s] = x] /\ UNCHANGED <<now, geocodes, radius>>
        /\ old.stage = "execute" /\ old.kind \in {"exact", "keyword"}
    BY <1>2 DEF ReadRadius, ReminderInv
  <2>2. /\ x \in Conversations /\ x.stage = stage /\ x.got = radius[s] /\ x.kind = old.kind
        /\ x.prompt = old.prompt /\ x.changed = old.changed /\ x.told = old.told
    <3>1. PICK y : y = [old EXCEPT !.got = got]
      OBVIOUS
    <3>2. /\ y \in Conversations /\ y.got = got /\ y.kind = old.kind
          /\ y.prompt = old.prompt /\ y.changed = old.changed /\ y.told = old.told
      BY <1>1, <3>1 DEF Conversations
    <3>3. x = [y EXCEPT !.stage = stage] /\ stage \in ReminderStages
      BY <1>1, <3>1 DEF Conversations, ReminderStages
    <3> QED
      BY <3>2, <3>3 DEF Conversations
  <2>3. Faithful(x, radius[s]) /\ Recent(x, now)
    BY <1>1, <2>1, <2>2 DEF Faithful, Recent
  <2> QED
    BY <2>1, <2>2, <2>3, SayStep
<1>3. CASE LookUpAddress(s)
  <2>1. old.stage = "lookup" /\ UNCHANGED <<now, geocodes, radius>>
    BY <1>3 DEF LookUpAddress
  <2>2. CASE Hit
    <3> PICK x : x = [old EXCEPT !.began = now, !.asOf = geocodes.asOf, !.stage = "create"]
      OBVIOUS
    <3>1. spoken' = [spoken EXCEPT ![s] = x]
      BY <1>3, <2>2 DEF LookUpAddress, ReminderInv
    <3>2. geocodes.asOf \in Nat /\ now <= geocodes.asOf + CacheTTL
      BY <1>1, <2>2 DEF Hit, ReminderInv
    <3>3. /\ x \in Conversations /\ x.stage = "create" /\ x.began = now
          /\ x.asOf = geocodes.asOf /\ x.got = old.got /\ x.kind = old.kind
          /\ x.prompt = old.prompt /\ x.changed = old.changed /\ x.told = old.told
      BY <1>1, <3>2 DEF Conversations, ReminderStages
    <3>4. Faithful(x, radius[s]) /\ Recent(x, now)
      BY <1>1, <2>1, <3>2, <3>3 DEF Faithful, Recent
    <3> QED
      BY <2>1, <3>1, <3>3, <3>4, SayStep
  <2>3. CASE ~Hit
    <3> PICK x : x = [old EXCEPT !.began = now, !.stage = "call"]
      OBVIOUS
    <3>1. spoken' = [spoken EXCEPT ![s] = x]
      BY <1>3, <2>3 DEF LookUpAddress, ReminderInv
    <3>2. /\ x \in Conversations /\ x.stage = "call" /\ x.began = now
          /\ x.got = old.got /\ x.kind = old.kind
          /\ x.prompt = old.prompt /\ x.changed = old.changed /\ x.told = old.told
      BY <1>1 DEF Conversations, ReminderStages
    <3>3. Faithful(x, radius[s]) /\ Recent(x, now)
      BY <1>1, <2>1, <3>2 DEF Faithful, Recent
    <3> QED
      BY <2>1, <3>1, <3>2, <3>3, SayStep
  <2> QED
    BY <2>2, <2>3
<1>4. CASE FindAddress(s)
  <2> PICK x : x = [old EXCEPT !.asOf = now, !.stage = "answer"]
    OBVIOUS
  <2>1. /\ spoken' = [spoken EXCEPT ![s] = x] /\ UNCHANGED <<now, geocodes, radius>>
        /\ old.stage = "call"
    BY <1>4 DEF FindAddress, ReminderInv
  <2>2. /\ x \in Conversations /\ x.stage = "answer" /\ x.began = old.began /\ x.asOf = now
        /\ x.got = old.got /\ x.kind = old.kind
        /\ x.prompt = old.prompt /\ x.changed = old.changed /\ x.told = old.told
    BY <1>1 DEF Conversations, ReminderStages
  <2>3. Faithful(x, radius[s]) /\ Recent(x, now)
    BY <1>1, <2>1, <2>2 DEF Faithful, Recent
  <2> QED
    BY <2>1, <2>2, <2>3, SayStep
<1>5. CASE CreateAtPlace(s)
  <2>1. CASE old.got < 1
    BY <1>1, <1>5, <2>1, TellIs, SayStep DEF CreateAtPlace
  <2>2. CASE ~(old.got < 1)
    <3> PICK x : x = Made(s, old.got)
      OBVIOUS
    <3>1. /\ spoken' = [spoken EXCEPT ![s] = x] /\ UNCHANGED <<now, geocodes, radius>>
          /\ old.stage = "create"
      BY <1>5, <2>2 DEF CreateAtPlace
    <3>2. old.got \in Int
      BY <1>1 DEF Conversations
    <3>3. /\ x \in Conversations
          /\ x.stage = "over" /\ x.kind = old.kind /\ x.prompt = old.prompt /\ x.made = old.got
          /\ x.changed = old.changed /\ x.began = old.began /\ x.asOf = old.asOf
      BY <1>1, <3>2, MadeIs
    <3>4. Faithful(x, radius[s]) /\ Recent(x, now)
      BY <1>1, <3>1, <3>3 DEF Faithful, Recent
    <3> QED
      BY <3>1, <3>3, <3>4, SayStep
  <2> QED
    BY <2>1, <2>2
<1> QED
  BY <1>2, <1>3, <1>4, <1>5

\* An answer is cached no longer than CacheTTL from the look-up, which is no later
\* than the answer.
LEMMA KeepAddressStep ==
  ASSUME ReminderInv, NEW s \in Speakers, KeepAddress(s)
  PROVE  ReminderInv'
<1> PICK old, x : old = spoken[s] /\ x = [old EXCEPT !.stage = "create"]
  OBVIOUS
<1>1. /\ old \in Conversations /\ Faithful(old, radius[s]) /\ Recent(old, now) /\ now \in Nat
      /\ CacheTTL \in Nat
  BY RemindersAssumption DEF ReminderInv
<1>2. /\ spoken' = [spoken EXCEPT ![s] = x] /\ old.stage = "answer"
      /\ geocodes' = [asOf |-> old.asOf, until |-> old.began + CacheTTL]
      /\ UNCHANGED <<now, radius>>
  BY DEF KeepAddress, Expiry, ReminderInv
<1>3. /\ old.asOf \in Nat /\ old.began + CacheTTL \in Nat /\ old.began <= old.asOf
      /\ old.began + CacheTTL <= old.asOf + CacheTTL /\ old.began <= old.asOf + CacheTTL
  BY <1>1, <1>2 DEF Conversations, Recent
<1>4. geocodes' \in [asOf : Nat, until : Nat] /\ geocodes'.until <= geocodes'.asOf + CacheTTL
  BY <1>2, <1>3
<1>5. /\ x \in Conversations /\ x.stage = "create" /\ x.began = old.began /\ x.asOf = old.asOf
      /\ x.got = old.got /\ x.kind = old.kind
      /\ x.prompt = old.prompt /\ x.changed = old.changed /\ x.told = old.told
  BY <1>1 DEF Conversations, ReminderStages
<1>6. Faithful(x, radius[s]) /\ Recent(x, now)
  BY <1>1, <1>2, <1>3, <1>5 DEF Faithful, Recent
<1> QED
  BY <1>2, <1>4, <1>5, <1>6 DEF ReminderInv

\* A change of the setting is noted by the conversation it matters to.
LEMMA ChangeRadiusStep ==
  ASSUME ReminderInv, NEW s \in Speakers, NEW r \in Radii, ChangeRadius(s, r)
  PROVE  ReminderInv'
<1> PICK old, x : old = spoken[s] /\ x = [old EXCEPT !.changed = TRUE]
  OBVIOUS
<1>1. old \in Conversations /\ Faithful(old, radius[s]) /\ Recent(old, now)
  BY DEF ReminderInv
<1>2. /\ spoken' = [spoken EXCEPT ![s] = x] /\ old.stage \in {"confirm", "execute"}
      /\ radius' = [radius EXCEPT ![s] = r] /\ r \in Nat
      /\ UNCHANGED <<now, geocodes>>
  BY RemindersAssumption DEF ChangeRadius, ReminderInv
<1>3. /\ x \in Conversations /\ x.stage = old.stage /\ x.kind = old.kind /\ x.arg = old.arg
      /\ x.prompt = old.prompt /\ x.changed /\ x.told = old.told
  BY <1>1 DEF Conversations
<1>4. Faithful(x, r) /\ Recent(x, now)
  BY <1>1, <1>2, <1>3 DEF Faithful, Recent
<1> QED
  BY <1>2, <1>3, <1>4 DEF ReminderInv

LEMMA ReminderSteps == ReminderInv /\ ReminderNext => ReminderInv'
<1> SUFFICES ASSUME ReminderInv, ReminderNext PROVE ReminderInv'
  OBVIOUS
<1>1. CASE ReminderElapse
  BY <1>1, ClockStep DEF ReminderElapse
<1>2. ASSUME NEW s \in Speakers, NEW p \in Phrases, SayTime(s, AsSaid(p)) PROVE ReminderInv'
  BY <1>2, SayTimeStep
<1>3. ASSUME NEW s \in Speakers, NEW t \in 0..LastReminder, SayTime(s, Instant(t))
      PROVE  ReminderInv'
  BY <1>3, SayTimeStep, RemindersAssumption
<1>4. ASSUME NEW s \in Speakers,
             \/ AskTime(s) \/ AskAddress(s)
             \/ \E kind \in ReminderKinds \ {"time"}, asks \in BOOLEAN : SayPlace(s, kind, asks)
             \/ \E yes \in BOOLEAN : ConfirmReminder(s, yes)
             \/ CreateAtTime(s) \/ RejectMode(s) \/ ReadRadius(s)
             \/ LookUpAddress(s) \/ FindAddress(s) \/ KeepAddress(s)
             \/ \E unclear \in BOOLEAN : AddressFails(s, unclear)
             \/ CreateAtPlace(s) \/ StoreFails(s)
             \/ \E r \in Radii : ChangeRadius(s, r)
      PROVE  ReminderInv'
  BY <1>4, AskStep, SayPlaceStep, AnsweredStep, LookUpStep, KeepAddressStep, ChangeRadiusStep
<1> QED
  BY <1>1, <1>2, <1>3, <1>4 DEF ReminderNext

LEMMA ReminderStarts == ExecutionInit => ReminderInv
<1> SUFFICES ASSUME ReminderInit PROVE ReminderInv
  BY DEF ExecutionInit
<1>1. Faithful(Untold, DefaultRadius) /\ Recent(Untold, now)
  BY UntoldIs DEF Faithful, Recent
<1> QED
  BY <1>1, UntoldIs, RemindersAssumption DEF ReminderInit, ReminderInv

\* What the other executors do to a conversation about reminders: time passes.
LEMMA OthersClock ==
  ASSUME BookingNext \/ UnwiredNext, NEW t, t = now
  PROVE  now' \in {t, t + 1}
<1>1. ASSUME Elapse PROVE now' \in {t, t + 1}
  BY <1>1 DEF Elapse
<1>2. ASSUME NEW names, NEW emails, NEW p, NEW wants, NEW yes, NEW c, NEW u,
             \/ Ask(names, emails, p, wants) \/ GiveTime(p, wants) \/ GiveEmail(p)
             \/ LookupFails \/ Confirm(yes) \/ StubRun
             \/ Reject \/ FirstAccount \/ Created \/ Failed(names, emails)
             \/ Lookup(names, emails, p) \/ Take(c, u)
      PROVE  now' = t
  BY <1>2 DEF Ask, GiveTime, GiveEmail, LookupFails, Confirm, StubRun, Reject, FirstAccount,
              Created, Failed, Lookup, Take
<1>3. ASSUME BookingNext PROVE now' \in {t, t + 1}
  BY <1>1, <1>2, <1>3 DEF BookingNext
<1>4. ASSUME UnwiredNext PROVE now' \in {t, t + 1}
  BY <1>1, <1>2, <1>4 DEF UnwiredNext
<1> QED
  BY <1>3, <1>4

LEMMA ReminderInvariant == ExecutionSpec => []ReminderInv
<1>1. ReminderInv /\ [ExecutionNext]_executionVars => ReminderInv'
  <2> SUFFICES ASSUME ReminderInv, [ExecutionNext]_executionVars
               PROVE  ReminderInv'
    OBVIOUS
  <2>1. CASE ReminderNext
    BY <2>1, ReminderSteps
  <2>2. ASSUME AgentNext, UNCHANGED <<bookingVars, reminderVars>> PROVE ReminderInv'
    BY <2>2, ClockStep DEF reminderVars
  <2>3. ASSUME BookingNext \/ UnwiredNext, UNCHANGED <<agentVars, geocodes, radius, spoken>>
        PROVE  ReminderInv'
    <3>1. now' \in {now, now + 1}
      <4>1. PICK t : t = now
        OBVIOUS
      <4>2. now' \in {t, t + 1}
        BY <2>3, <4>1, OthersClock
      <4> QED
        BY <4>1, <4>2
    <3> QED
      BY <2>3, <3>1, ClockStep
  <2>4. CASE UNCHANGED executionVars
    BY <2>4, ClockStep DEF executionVars, reminderVars
  <2> QED
    BY <2>1, <2>2, <2>3, <2>4 DEF ExecutionNext
<1> QED
  BY <1>1, ReminderStarts, PTL DEF ExecutionSpec

\* For any number of speakers, whatever they say and however long they think: the
\* reminder that is set is the one that was confirmed.
THEOREM RemindersAsConfirmed == ExecutionSpec => []ReminderIsAsConfirmed
<1>1. ReminderInv => ReminderIsAsConfirmed
  BY DEF ReminderInv, Faithful, ReminderIsAsConfirmed
<1> QED
  BY <1>1, ReminderInvariant, PTL

\* However slow the provider is and in whatever order its answers come, an address
\* is at most CacheTTL old when it is looked up.
THEOREM AnswersRecent == ExecutionSpec => []AnswersAreRecent
<1>1. ReminderInv => AnswersAreRecent
  <2> SUFFICES ASSUME ReminderInv, NEW s \in Speakers,
                      spoken[s].told = "set", spoken[s].kind = "exact"
               PROVE  spoken[s].asOf + CacheTTL >= spoken[s].began
    BY DEF AnswersAreRecent
  <2>1. PICK x \in Conversations : x = spoken[s]
    BY DEF ReminderInv
  <2>2. x.began <= x.asOf + CacheTTL
    BY <2>1 DEF ReminderInv, Recent
  <2>3. x.began \in Int /\ x.asOf + CacheTTL \in Int
    BY RemindersAssumption DEF Conversations
  <2> QED
    BY <2>1, <2>2, <2>3
<1> QED
  BY <1>1, ReminderInvariant, PTL

-----------------------------------------------------------------------------
(* The recommendation of a slot.                                           *)

\* A set of natural numbers that has an element has a least one, and Min picks it.
LEMMA MinOfNat ==
  ASSUME NEW S, S \subseteq Nat, S # {}
  PROVE  Min(S) \in S /\ \A j \in S : Min(S) <= j
<1>1. PICK k \in S : \A j \in S : ~(<<j, k>> \in OpToRel(<, Nat))
  BY NatLessThanWellFounded, WFMin
<1>2. \A j \in S : ~(j < k)
  BY <1>1 DEF OpToRel
<1>3. S \subseteq Int /\ k \in Int
  OBVIOUS
<1>4. \A j \in S : k <= j
  BY <1>2, <1>3
<1>5. Min(S) = k
  BY <1>3, <1>4, MinIs
<1> QED
  BY <1>4, <1>5

\* The remainder of a division is unique.
LEMMA RemainderIs ==
  ASSUME NEW D \in Nat \ {0}, NEW q1 \in Int, NEW q2 \in Int, NEW r1 \in Int, NEW r2 \in Int,
         0 <= r1, r1 < D, 0 <= r2, r2 < D, D * q1 + r1 = D * q2 + r2
  PROVE  r1 = r2
<1>1. D * (q1 - q2) = r2 - r1
  OBVIOUS
<1>2. ASSUME q1 - q2 >= 1 PROVE FALSE
  <2>1. D * (q1 - q2) >= D
    BY <1>2
  <2> QED
    BY <1>1, <2>1
<1>3. ASSUME q1 - q2 <= -1 PROVE FALSE
  <2>1. D * (q1 - q2) <= -D
    BY <1>3
  <2> QED
    BY <1>1, <2>1
<1>4. q1 = q2
  BY <1>2, <1>3
<1> QED
  BY <1>4

\* Within one day the time of day goes on with the clock.
LEMMA SameDay ==
  ASSUME NEW t \in Nat, NEW k \in Nat, TickOfDay(t) + k < DayTicks
  PROVE  TickOfDay(t + k) = TickOfDay(t) + k
<1> PICK D \in Nat \ {0} : D = DayTicks
  BY TimesAssumption
<1>1. \A a \in Nat : /\ a \div D \in Int /\ a % D \in Int
                     /\ a = D * (a \div D) + (a % D) /\ 0 <= a % D /\ a % D < D
  OBVIOUS
<1>2. \A a \in Nat : \E q \in Int, r \in Int :
        a = D * q + r /\ 0 <= r /\ r < D /\ r = a % D
  <2> TAKE a \in Nat
  <2> WITNESS a \div D \in Int, a % D \in Int
  <2> QED
    BY <1>1
<1>3. PICK q1 \in Int, r1 \in Int : t = D * q1 + r1 /\ 0 <= r1 /\ r1 < D /\ r1 = t % D
  BY <1>2
<1>4. PICK q2 \in Int, r2 \in Int :
        t + k = D * q2 + r2 /\ 0 <= r2 /\ r2 < D /\ r2 = (t + k) % D
  <2>1. t + k \in Nat
    OBVIOUS
  <2> QED
    BY <1>2, <2>1
<1>5. r1 + k \in Int /\ 0 <= r1 + k /\ r1 + k < D
  BY <1>3 DEF TickOfDay
<1>6. D * q1 + (r1 + k) = D * q2 + r2
  BY <1>3, <1>4
<1>7. r1 + k = r2
  <2>1. PICK r3 \in Int : r3 = r1 + k
    BY <1>5
  <2>2. 0 <= r3 /\ r3 < D /\ D * q1 + r3 = D * q2 + r2
    BY <1>5, <1>6, <2>1
  <2>3. D * q1 + r3 = D * q2 + r2 /\ q1 \in Int /\ q2 \in Int /\ r3 \in Int /\ r2 \in Int
    BY <1>3, <1>4, <2>1, <2>2
  <2>4. 0 <= r3 /\ r3 < D /\ 0 <= r2 /\ r2 < D
    BY <1>4, <2>2
  <2>5. r3 = r2
    BY ONLY D \in Nat \ {0}, <2>3, <2>4, RemainderIs
  <2> QED
    BY <2>1, <2>5
<1> QED
  BY <1>3, <1>4, <1>7 DEF TickOfDay

\* The slot that is recommended is free for as long as the meeting lasts and begins
\* at a valid time; there is none only if no block has one at its beginning, and none
\* of those is earlier.
LEMMA RecommendIs ==
  ASSUME NEW free, free \subseteq Nat, NEW slot, slot = RecommendSlot(free)
  PROVE  /\ slot # NoTime => /\ slot \in Nat /\ IsValidSlotStart(slot)
                             /\ Meeting(slot) \subseteq free
                             /\ \A t \in FilterSlotStarts(Blocks(free)) : slot <= t
         /\ slot = NoTime => FilterSlotStarts(Blocks(free)) = {}
<1> PICK starts : starts = FilterSlotStarts(Blocks(free))
  OBVIOUS
<1>1. \A t \in starts : \E b \in Blocks(free) :
         t = b.start /\ b.end - b.start >= Duration /\ IsValidSlotStart(t)
  BY DEF FilterSlotStarts
<1>2. ASSUME NEW t \in starts
      PROVE  t \in Nat /\ IsValidSlotStart(t) /\ Meeting(t) \subseteq free
  <2>1. PICK b \in Blocks(free) :
           t = b.start /\ b.end - b.start >= Duration /\ IsValidSlotStart(t)
    BY <1>1
  <2>2. /\ b.start \in free /\ b.end \in {u + 1 : u \in free}
        /\ (b.start..(b.end - 1)) \subseteq free
    BY DEF Blocks
  <2>3. t \in Nat /\ b.end \in Int /\ Duration \in Nat
    <3>1. t \in Nat
      BY <2>1, <2>2
    <3>2. PICK u \in free : b.end = u + 1
      BY <2>2
    <3>3. b.end \in Int
      BY <3>2
    <3> QED
      BY <3>1, <3>3, BookingAssumption
  <2>4. Meeting(t) \subseteq free
    <3> SUFFICES ASSUME NEW u \in Meeting(t) PROVE u \in free
      OBVIOUS
    <3>1. u \in t..(b.end - 1)
      BY <2>1, <2>3 DEF Meeting
    <3> QED
      BY <2>1, <2>2, <3>1
  <2> QED
    BY <2>1, <2>3, <2>4
<1>3. starts \subseteq Nat
  BY <1>2
<1>4. slot = IF starts = {} THEN NoTime ELSE Min(starts)
  BY DEF RecommendSlot
<1>5. starts # {} => slot \in starts /\ slot # NoTime /\ \A t \in starts : slot <= t
  BY <1>3, <1>4, MinOfNat, TimesAssumption
<1> QED
  BY <1>2, <1>4, <1>5

\* A valid beginning at which a meeting would fit, and before which there is
\* nothing free, is the beginning of a block that is looked at.
LEMMA OverlookedIs ==
  ASSUME NEW free, free \subseteq Nat, NEW bound \in Nat, \A u \in free : u < bound,
         NEW t \in free, Meeting(t) \subseteq free, IsValidSlotStart(t)
  PROVE  t - 1 \in free \/ t \in FilterSlotStarts(Blocks(free))
<1> SUFFICES ASSUME t - 1 \notin free PROVE t \in FilterSlotStarts(Blocks(free))
  OBVIOUS
<1>1. PICK E : E = {u \in Nat : t < u /\ u \notin free}
  OBVIOUS
<1>2. E \subseteq Nat /\ bound \in E
  BY <1>1
<1>3. PICK end \in E : \A u \in E : end <= u
  BY <1>2, MinOfNat
<1>4. end \in Nat /\ t \in Nat /\ t < end /\ end \notin free
  BY <1>1, <1>3
<1>5. t..(end - 1) \subseteq free
  <2> SUFFICES ASSUME NEW u \in t..(end - 1), u \notin free PROVE FALSE
    OBVIOUS
  <2>1. u \in Nat /\ t < u /\ u < end
    BY <1>4
  <2>2. u \in E
    BY <1>1, <2>1
  <2> QED
    BY <1>3, <1>4, <2>1, <2>2
<1>6. end \in {u + 1 : u \in free}
  <2>1. end - 1 \in free /\ end = (end - 1) + 1
    BY <1>4, <1>5
  <2> QED
    BY <2>1
<1>7. end - t >= Duration
  <2>1. Duration \in Nat
    BY BookingAssumption
  <2> QED
    BY <1>4, <2>1 DEF Meeting
<1> PICK b : b = [start |-> t, end |-> end]
  OBVIOUS
<1>8. b.start = t /\ b.end = end /\ b \in [start : free, end : {u + 1 : u \in free}]
  BY <1>6
<1>9. b \in Blocks(free)
  BY <1>4, <1>5, <1>8 DEF Blocks
<1>10. t \in FilterSlotStarts(Blocks(free))
  BY <1>7, <1>8, <1>9 DEF FilterSlotStarts
<1> QED
  BY <1>10

-----------------------------------------------------------------------------
(* A time the user names.                                                  *)

\* what NamedTimeIsExplained says of a dialogue
Named(t) ==
    /\ t.start >= t.from \/ (t.phrase.day = "today" /\ ~Understood(t.phrase))
    /\ NamesWeekday(t.phrase) =>
          \/ WeekdayOf(t.start) = t.phrase.weekday
          \/ Understood(t.phrase)
          \/ WeekdayOf(t.from) = t.phrase.weekday /\ TickOfDay(t.from) > DefaultTick
    /\ t.phrase.clock # NoTime =>
          TickOfDay(t.start) = t.phrase.clock \/ t.phrase.form = "last"

\* A tick is a time of its day.
LEMMA TickIs ==
  ASSUME NEW t \in Nat
  PROVE  /\ DayOf(t) \in Nat /\ TickOfDay(t) \in 0..(DayTicks - 1)
         /\ t = DayTicks * DayOf(t) + TickOfDay(t)
<1> PICK D \in Nat \ {0} : D = DayTicks
  BY TimesAssumption
<1>1. /\ t \div D \in Nat /\ t % D \in 0..(D - 1) /\ t = D * (t \div D) + (t % D)
  OBVIOUS
<1> QED
  BY <1>1 DEF DayOf, TickOfDay

\* A day and a time of day make one tick.
LEMMA DayIs ==
  ASSUME NEW day \in Nat, NEW tick \in 0..(DayTicks - 1), NEW t, t = day * DayTicks + tick
  PROVE  t \in Nat /\ DayOf(t) = day /\ TickOfDay(t) = tick
<1> PICK D \in Nat \ {0} : D = DayTicks
  BY TimesAssumption
<1>1. t = D * day + tick /\ t \in Nat /\ tick \in Int /\ 0 <= tick /\ tick < D
  OBVIOUS
<1>2. PICK d \in Nat, r \in Int :
        /\ d = DayOf(t) /\ r = TickOfDay(t) /\ t = D * d + r /\ 0 <= r /\ r < D
  BY <1>1, TickIs
<1>3. r = tick
  <2>1. D * d + r = D * day + tick /\ d \in Int /\ day \in Int
    BY <1>1, <1>2
  <2> QED
    BY <1>1, <1>2, <2>1, RemainderIs
<1>4. D * (d - day) = 0
  BY <1>1, <1>2, <1>3
<1>5. d = day
  BY <1>4
<1> QED
  BY <1>1, <1>2, <1>3, <1>5

\* Every weekday comes within a week.
LEMMA WeekdayComes ==
  ASSUME NEW day \in Nat, NEW w \in 0..(WeekDays - 1)
  PROVE  \E d \in 0..(WeekDays - 1) : (day + d) % WeekDays = w
<1> PICK W \in Nat \ {0} : W = WeekDays
  BY TimesAssumption
<1>1. \A a \in Nat : /\ a \div W \in Int /\ a % W \in Int
                     /\ a = W * (a \div W) + (a % W) /\ 0 <= a % W /\ a % W < W
  OBVIOUS
<1>2. PICK q \in Int, r \in Int : day = W * q + r /\ 0 <= r /\ r < W
  <2>1. PICK q : q = day \div W
    OBVIOUS
  <2>2. PICK r : r = day % W
    OBVIOUS
  <2>3. q \in Int /\ r \in Int /\ day = W * q + r /\ 0 <= r /\ r < W
    BY <1>1, <2>1, <2>2
  <2> QED
    BY <2>3
<1>3. PICK d \in 0..(W - 1), k \in {q, q + 1} : day + d = W * k + w
  <2>1. CASE r <= w
    <3>1. w - r \in 0..(W - 1) /\ day + (w - r) = W * q + w
      BY <1>2, <2>1
    <3> QED
      BY <3>1
  <2>2. CASE r > w
    <3>1. w + W - r \in 0..(W - 1) /\ day + (w + W - r) = W * (q + 1) + w
      BY <1>2, <2>2
    <3> QED
      BY <3>1
  <2> QED
    BY <1>2, <2>1, <2>2
<1>4. day + d \in Nat /\ k \in Int
  BY <1>3
<1>5. PICK q2 \in Int, r2 \in Int :
        day + d = W * q2 + r2 /\ 0 <= r2 /\ r2 < W /\ r2 = (day + d) % W
  <2>1. PICK a \in Nat : a = day + d
    BY <1>4
  <2> QED
    BY <1>1, <2>1
<1>6. r2 = w
  <2>1. W * q2 + r2 = W * k + w /\ w \in Int /\ 0 <= w /\ w < W
    BY <1>3, <1>5
  <2>2. 0 <= r2 /\ r2 < W /\ q2 \in Int /\ r2 \in Int /\ k \in Int
    BY <1>4, <1>5
  <2> QED
    BY ONLY W \in Nat \ {0}, <2>1, <2>2, RemainderIs
<1> QED
  BY <1>3, <1>5, <1>6

\* A phrase is understood as a time that lies ahead, on the weekday and at the clock
\* time said, but for the exceptions.
LEMMA NamedTime ==
  ASSUME now \in Nat, NEW p \in Phrases, NEW t, t.phrase = p, t.from = now,
         t.start = ParseExplicitMeetingTime(p)
  PROVE  Named(t) /\ t.start \in Int
<1> PICK D \in Nat \ {0} : D = DayTicks
  BY TimesAssumption
<1>1. PICK day \in Nat, tick \in 0..(D - 1) :
        /\ day = DayOf(now) /\ tick = TickOfDay(now) /\ now = D * day + tick
  BY TickIs
<1>2. PICK base \in Nat : /\ base = day * D /\ now = base + tick
                          /\ base <= now /\ now < base + D
  <2>1. day * D \in Nat /\ day * D = D * day
    BY <1>1
  <2> QED
    BY <1>1, <2>1
<1>3. /\ p.day \in {"none", "today", "tomorrow"} /\ NamesWeekday(p) => p.day = "none"
      /\ NamesWeekday(p) => p.weekday \in 0..(WeekDays - 1)
      /\ Understood(p) => p.clock \in 0..(D - 1)
  <2>1. p \in Phrase /\ (p.weekday = NoTime \/ p.day = "none")
    BY DEF Phrases
  <2>2. /\ p.day \in {"none", "today", "tomorrow"}
        /\ p.weekday \in (0..(WeekDays - 1)) \cup {NoTime} /\ p.clock \in Clocks \cup {NoTime}
    BY <2>1 DEF Phrase
  <2>3. Clocks \subseteq 0..(D - 1)
    BY TimesAssumption
  <2> QED
    BY <2>1, <2>2, <2>3 DEF NamesWeekday, Understood
<1>4. CASE Understood(p)
  <2>1. PICK target \in Nat : target = DayOf(now) * DayTicks + p.clock /\ base <= target
    <3>1. DayOf(now) * DayTicks = base
      BY <1>1, <1>2
    <3>2. p.clock \in Nat
      BY <1>3, <1>4
    <3>3. PICK clock \in Nat : clock = p.clock
      BY <3>2
    <3>4. base + clock \in Nat /\ base <= base + clock
      BY <1>2
    <3> QED
      BY <3>1, <3>3, <3>4
  <2>2. t.start = IF p.day = "tomorrow" \/ target <= now THEN target + D ELSE target
    BY <1>4, <2>1 DEF ParseExplicitMeetingTime, ParseDateTime
  <2>3. t.start >= now /\ t.start \in Int
    BY <1>2, <2>1, <2>2
  <2>4. TickOfDay(t.start) = p.clock
    <3>1. p.clock \in 0..(DayTicks - 1)
      BY <1>3, <1>4
    <3>2. TickOfDay(target) = p.clock
      BY <1>1, <2>1, <3>1, DayIs
    <3>3. TickOfDay(target + D) = p.clock
      <4>1. PICK clock \in Nat : clock = p.clock
        BY <3>1
      <4>2. target + D = (day + 1) * DayTicks + clock
        <5>1. (day + 1) * D = day * D + D /\ day * D \in Nat
          BY <1>2
        <5>2. target = day * D + clock
          BY <1>1, <2>1, <4>1
        <5> QED
          BY <5>1, <5>2
      <4>3. PICK next \in Nat, tomorrow \in Nat :
               next = day + 1 /\ tomorrow = target + D /\ tomorrow = next * DayTicks + clock
        BY <4>2
      <4>4. TickOfDay(tomorrow) = clock
        <5>1. clock \in 0..(DayTicks - 1) /\ tomorrow = next * DayTicks + clock
          BY <3>1, <4>1, <4>3
        <5> QED
          BY <5>1, DayIs
      <4>5. TickOfDay(target + D) = TickOfDay(tomorrow)
        BY <4>3
      <4> QED
        BY <4>1, <4>4, <4>5
    <3> QED
      BY <2>2, <3>2, <3>3
  <2> QED
    BY <1>4, <2>3, <2>4 DEF Named
<1>5. CASE ~Understood(p)
  <2>1. PICK ahead : ahead = IF NamesWeekday(p)
                             THEN CHOOSE d \in 0..(WeekDays - 1) :
                                     (DayOf(now) + d) % WeekDays = p.weekday
                             ELSE 0
    OBVIOUS
  <2>2. ahead \in Nat /\ (NamesWeekday(p) => (day + ahead) % WeekDays = p.weekday)
    <3>1. CASE NamesWeekday(p)
      <4>1. \E d \in 0..(WeekDays - 1) : (DayOf(now) + d) % WeekDays = p.weekday
        BY <1>1, <1>3, <3>1, WeekdayComes
      <4>2. ahead \in 0..(WeekDays - 1) /\ (DayOf(now) + ahead) % WeekDays = p.weekday
        BY <2>1, <3>1, <4>1
      <4> QED
        BY <1>1, <4>2
    <3>2. CASE ~NamesWeekday(p)
      BY <2>1, <3>2
    <3> QED
      BY <3>1, <3>2
  <2>3. PICK later \in Nat : later = day + ahead
    BY <2>2
  <2>4. PICK target : target = later * D + DefaultTick
    OBVIOUS
  <2>5. /\ target \in Nat /\ DefaultTick \in Nat /\ DayOf(target) = later
    BY <2>3, <2>4, DayIs, TimesAssumption
  <2>6. /\ ahead = 0 => target = base + DefaultTick
        /\ ahead # 0 => target >= base + D
        /\ target >= base
    <3>1. ahead = 0 => later = day
      BY <2>3
    <3>2. ahead # 0 => later * D >= (day + 1) * D
      BY <2>2, <2>3
    <3>3. (day + 1) * D = base + D /\ later * D \in Nat
      BY <1>2, <2>3
    <3> QED
      BY <1>2, <2>2, <2>4, <2>5, <3>1, <3>2, <3>3
  <2>7. t.start = IF p.day = "tomorrow" \/ (p.day # "today" /\ target < now)
                  THEN target + D ELSE target
    <3>1. t.start = ParseDay(p)
      BY <1>5 DEF ParseExplicitMeetingTime
    <3>2. target = (DayOf(now) + ahead) * DayTicks + DefaultTick
      BY <1>1, <2>3, <2>4
    <3> QED
      BY <2>1, <3>1, <3>2 DEF ParseDay
  <2>8. t.start \in Int /\ (p.day # "today" => t.start >= now)
    BY <1>2, <2>5, <2>6, <2>7
  <2>9. ASSUME NamesWeekday(p)
        PROVE  \/ WeekdayOf(t.start) = p.weekday
               \/ WeekdayOf(now) = p.weekday /\ TickOfDay(now) > DefaultTick
    <3>1. CASE target >= now
      <4>1. t.start = target
        BY <1>2, <1>3, <2>5, <2>7, <2>9, <3>1
      <4> QED
        BY <2>2, <2>3, <2>5, <2>9, <4>1 DEF WeekdayOf
    <3>2. CASE target < now
      <4>1. ahead = 0
        BY <1>2, <2>2, <2>5, <2>6, <3>2
      <4>2. day % WeekDays = p.weekday
        <5>1. day + ahead = day
          BY <4>1
        <5> QED
          BY <2>2, <2>9, <5>1
      <4>3. tick > DefaultTick
        BY <1>2, <2>5, <2>6, <3>2, <4>1
      <4> QED
        BY <1>1, <4>2, <4>3 DEF WeekdayOf
    <3> QED
      BY <1>2, <2>5, <3>1, <3>2
  <2>10. p.clock # NoTime => p.form = "last"
    BY <1>5 DEF Understood
  <2> QED
    BY <1>5, <2>8, <2>9, <2>10 DEF Named
<1> QED
  BY <1>4, <1>5

-----------------------------------------------------------------------------
(* The dialogue about a meeting.                                           *)

\* the record of a dialogue, with types where the argument needs them
Dialogue(t) ==
    t \in [stage : Stages, names : Nat, emails : Nat, wants : BOOLEAN, start : {t.start},
           how : {t.how}, from : {t.from}, phrase : {t.phrase}, free : {t.free},
           since : {t.since}, whole : {t.whole}, account : Int, notFound : {t.notFound},
           created : Nat, lost : Nat, told : {t.told}]

\* events are made at the end, and each is the one reported or was lost; a slot that
\* is recommended has been looked up, and nothing is looked up
\* once there is a time
Counted(t) ==
    /\ IF t.told = "booked" THEN t.created = t.lost + 1 ELSE t.created = t.lost
    /\ t.stage # "over" => t.told = "none"
    /\ t.stage \notin {"create", "over"} => t.created = 0
    /\ t.created > 0 => t.names = t.emails
    /\ t.how = "recommended" => t.stage \in {"confirm", "create", "over"}
    /\ t.how # "none" => t.start # NoTime
    /\ t.stage = "lookup" => t.start = NoTime

BookingInv ==
    /\ now \in Nat
    /\ busy \in [Calendars -> SUBSET Int]
    /\ Dialogue(talk) /\ Counted(talk)
    /\ RecommendedIsBookable /\ OverlookedIsInsideABlock /\ NamedTimeIsExplained

\* the time of a dialogue stays, or is none or a new one that the user named
SameTime(t, u) ==
    /\ t.how = u.how /\ t.start = u.start /\ t.from = u.from /\ t.phrase = u.phrase
    /\ t.whole = u.whole /\ t.since = u.since /\ t.free = u.free

NewTime(t) == t.how \in {"none", "named"} /\ (t.how = "named" => Named(t))

LEMMA NamedIs == NamedTimeIsExplained <=> (talk.how = "named" => Named(talk))
  BY DEF NamedTimeIsExplained, Named

\* A step that leaves the calendars alone: a recommendation stays or is replaced.
LEMMA TalkStep ==
  ASSUME BookingInv, NEW t, talk' = t, Dialogue(t), Counted(t),
         UNCHANGED busy, now' \in {now, now + 1},
         SameTime(t, talk) \/ NewTime(t),
         t.told = "noslot" => talk.told = "noslot" /\ t.free = talk.free
  PROVE  BookingInv'
<1>1. RecommendedIsBookable'
  BY DEF BookingInv, RecommendedIsBookable, SameTime, NewTime
<1>2. OverlookedIsInsideABlock'
  BY DEF BookingInv, OverlookedIsInsideABlock, Room, SameTime, NewTime
<1>3. now' \in Nat
  BY DEF BookingInv
<1>4. NamedTimeIsExplained'
  BY NamedIs DEF BookingInv, NamedTimeIsExplained, Named, SameTime, NewTime
<1> QED
  BY <1>1, <1>2, <1>3, <1>4 DEF BookingInv, Dialogue, Counted

\* A text that is heard, and what is asked next.
LEMMA AdvanceIs ==
  ASSUME now \in Nat, NEW p \in Phrases, NEW t, Dialogue(t), t.how # "none" => t.start # NoTime,
         NEW x, x = Advance(Hear(t, p))
  PROVE  /\ Dialogue(x) /\ x.stage \in Stages \ {"idle", "over"}
         /\ x.names = t.names /\ x.emails = t.emails /\ x.created = t.created
         /\ x.lost = t.lost /\ x.told = t.told
         /\ SameTime(x, t) \/ (NewTime(x) /\ x.how = "named")
         /\ x.how # "none" => x.start # NoTime
         /\ x.stage = "lookup" => x.start = NoTime
<1>1. PICK h : h = Hear(t, p)
  OBVIOUS
<1>2. /\ Dialogue(h)
      /\ h.names = t.names /\ h.emails = t.emails /\ h.created = t.created
      /\ h.lost = t.lost /\ h.told = t.told
      /\ SameTime(h, t) \/ (NewTime(h) /\ h.how = "named")
      /\ h.how # "none" => h.start # NoTime
  <2>1. CASE h = t
    BY <2>1 DEF SameTime
  <2>2. CASE h = [t EXCEPT !.start = ParseExplicitMeetingTime(p), !.how = "named", !.phrase = p,
                           !.from = now]
    <3>1. /\ Dialogue(h)
          /\ h.names = t.names /\ h.emails = t.emails /\ h.created = t.created
          /\ h.lost = t.lost /\ h.told = t.told /\ h.how = "named"
          /\ h.phrase = p /\ h.from = now /\ h.start = ParseExplicitMeetingTime(p)
      BY <2>2 DEF Dialogue
    <3>2. Named(h) /\ h.start # NoTime
      BY <3>1, NamedTime, TimesAssumption
    <3> QED
      BY <3>1, <3>2 DEF NewTime
  <2> QED
    BY <1>1, <2>1, <2>2 DEF Hear
<1>3. PICK stage \in Stages \ {"idle", "over"} :
        /\ x = [h EXCEPT !.stage = stage]
        /\ stage = "lookup" => h.start = NoTime
  BY <1>1 DEF Advance, Stages
<1>4. /\ Dialogue(x) /\ x.stage = stage
      /\ x.names = h.names /\ x.emails = h.emails /\ x.created = h.created
      /\ x.lost = h.lost /\ x.told = h.told /\ SameTime(x, h)
  BY <1>2, <1>3 DEF Dialogue, SameTime, Stages
<1>5. SameTime(x, t) \/ (NewTime(x) /\ x.how = "named")
  BY <1>2, <1>4 DEF SameTime, NewTime, Named
<1> QED
  BY <1>2, <1>3, <1>4, <1>5 DEF SameTime

LEMMA SilenceIs ==
  Dialogue(Silence) /\ Counted(Silence) /\ Silence.told = "none" /\ Silence.how = "none"
  BY DEF Silence, Dialogue, Counted, Stages

\* A text that is heard before the meeting is confirmed.
LEMMA HeardStep ==
  ASSUME BookingInv, NEW p \in Phrases, NEW t, Dialogue(t),
         t.created = 0, t.lost = 0, t.told = "none",
         t.how = "none" \/ SameTime(t, talk), t.how # "recommended",
         t.how # "none" => t.start # NoTime,
         talk' = Advance(Hear(t, p)), UNCHANGED <<now, busy>>
  PROVE  BookingInv'
<1>1. PICK x : x = Advance(Hear(t, p))
  OBVIOUS
<1>2. now \in Nat
  BY DEF BookingInv
<1>3. /\ Dialogue(x) /\ x.stage \in Stages \ {"idle", "over"}
      /\ x.created = 0 /\ x.lost = 0 /\ x.told = "none"
      /\ SameTime(x, t) \/ (NewTime(x) /\ x.how = "named")
      /\ x.how # "none" => x.start # NoTime
      /\ x.stage = "lookup" => x.start = NoTime
  BY <1>1, <1>2, AdvanceIs
<1>4. x.how # "recommended" /\ (SameTime(x, talk) \/ NewTime(x))
  BY <1>3 DEF SameTime, NewTime
<1>5. Counted(x)
  BY <1>3, <1>4 DEF Counted
<1>6. talk' = x /\ now' \in {now, now + 1} /\ UNCHANGED busy
  BY <1>1
<1>7. x.told # "noslot"
  BY <1>3
<1> QED
  BY <1>3, <1>4, <1>5, <1>6, <1>7, TalkStep

LEMMA AskStepOfMeeting ==
  ASSUME BookingInv, NEW names \in 0..MaxPeople, NEW emails \in 0..MaxPeople,
         NEW p \in Phrases, NEW wants \in BOOLEAN, Ask(names, emails, p, wants)
  PROVE  BookingInv'
<1>1. PICK t : t = [Silence EXCEPT !.names = names, !.emails = emails, !.wants = wants]
  OBVIOUS
<1>2. names \in Nat /\ emails \in Nat
  BY BookingAssumption
<1>3. /\ Silence.created = 0 /\ Silence.lost = 0
      /\ Dialogue(Silence) /\ Silence.told = "none" /\ Silence.how = "none"
  BY SilenceIs DEF Silence
<1>4. Dialogue(t) /\ t.created = 0 /\ t.lost = 0 /\ t.told = "none" /\ t.how = "none"
  BY <1>1, <1>2, <1>3 DEF Dialogue
<1>5. talk' = Advance(Hear(t, p)) /\ UNCHANGED <<now, busy>>
  BY <1>1 DEF Ask
<1> QED
  BY <1>4, <1>5, HeardStep

LEMMA GiveTimeStep ==
  ASSUME BookingInv, NEW p \in Phrases, NEW wants \in BOOLEAN, GiveTime(p, wants)
  PROVE  BookingInv'
<1>1. PICK t : t = [talk EXCEPT !.wants = wants]
  OBVIOUS
<1>2. talk.stage = "time" /\ talk' = Advance(Hear(t, p)) /\ UNCHANGED <<now, busy>>
  BY <1>1 DEF GiveTime
<1>3. /\ Dialogue(talk) /\ talk.created = 0 /\ talk.lost = 0 /\ talk.told = "none"
      /\ talk.how # "recommended" /\ (talk.how # "none" => talk.start # NoTime)
  BY <1>2 DEF BookingInv, Counted
<1>4. /\ Dialogue(t) /\ t.created = 0 /\ t.lost = 0 /\ t.told = "none"
      /\ SameTime(t, talk) /\ t.how # "recommended" /\ (t.how # "none" => t.start # NoTime)
  BY <1>1, <1>3 DEF Dialogue, SameTime
<1> QED
  BY <1>2, <1>4, HeardStep

LEMMA SpokenAddressIs ==
  SpokenAddress \in Phrases /\ [SpokenAddress EXCEPT !.form = "none"] \in Phrases
<1>1. PICK said : said = SpokenAddress
  OBVIOUS
<1>2. said = [weekday |-> NoTime, day |-> "none", clock |-> NoTime, form |-> "at"]
  BY <1>1 DEF SpokenAddress
<1>3. said \in Phrases
  BY <1>2 DEF Phrases, Phrase
<1>4. [said EXCEPT !.form = "none"] \in Phrases
  <2>1. [said EXCEPT !.form = "none"]
          = [weekday |-> NoTime, day |-> "none", clock |-> NoTime, form |-> "none"]
    BY <1>2
  <2> QED
    BY <2>1 DEF Phrases, Phrase
<1> QED
  BY <1>1, <1>3, <1>4

LEMMA GiveEmailStep ==
  ASSUME BookingInv, NEW p \in Phrases, GiveEmail(p)
  PROVE  BookingInv'
<1>1. PICK emails, t : emails = talk.emails + 1 /\ t = [talk EXCEPT !.emails = emails]
  OBVIOUS
<1>2. talk.stage = "email" /\ talk' = Advance(Hear(t, p)) /\ UNCHANGED <<now, busy>>
  BY <1>1 DEF GiveEmail
<1>3. /\ Dialogue(talk) /\ talk.created = 0 /\ talk.lost = 0 /\ talk.told = "none"
      /\ talk.how # "recommended" /\ (talk.how # "none" => talk.start # NoTime)
  BY <1>2 DEF BookingInv, Counted
<1>4. emails \in Nat
  BY <1>1, <1>3 DEF Dialogue
<1>5. /\ Dialogue(t) /\ t.created = 0 /\ t.lost = 0 /\ t.told = "none"
      /\ SameTime(t, talk) /\ t.how # "recommended" /\ (t.how # "none" => t.start # NoTime)
  BY <1>1, <1>3, <1>4 DEF Dialogue, SameTime
<1> QED
  BY <1>2, <1>5, HeardStep

\* A dialogue that goes on or ends without an event.
LEMMA GoesOn ==
  ASSUME BookingInv, talk.stage # "over", NEW stage \in {"create", "over"}, NEW told,
         NEW account \in Int, NEW notFound,
         talk' = [talk EXCEPT !.stage = stage, !.told = told, !.account = account,
                              !.notFound = notFound],
         told \notin {"booked", "noslot"}, stage # "over" => told = "none",
         UNCHANGED <<now, busy>>
  PROVE  BookingInv'
<1>1. PICK t : t = talk'
  OBVIOUS
<1>2. Dialogue(talk) /\ Counted(talk)
  BY DEF BookingInv
<1>3. /\ Dialogue(t) /\ t.stage = stage /\ t.told = told /\ t.created = talk.created
      /\ t.lost = talk.lost /\ t.names = talk.names /\ t.emails = talk.emails
      /\ SameTime(t, talk)
  <2>1. PICK g : g = [talk EXCEPT !.stage = stage, !.told = told]
    OBVIOUS
  <2>2. /\ Dialogue(g) /\ g.stage = stage /\ g.told = told /\ g.created = talk.created
        /\ g.lost = talk.lost /\ g.names = talk.names /\ g.emails = talk.emails
        /\ SameTime(g, talk)
    BY <1>2, <2>1 DEF Dialogue, Stages, SameTime
  <2>3. t = [g EXCEPT !.account = account, !.notFound = notFound]
    BY <1>1, <2>1
  <2>4. /\ Dialogue(t) /\ t.stage = g.stage /\ t.told = g.told /\ t.created = g.created
        /\ t.lost = g.lost /\ t.names = g.names /\ t.emails = g.emails
        /\ SameTime(t, g)
    BY <2>2, <2>3 DEF Dialogue, SameTime
  <2> QED
    BY <2>2, <2>4 DEF SameTime
<1>4. Counted(t)
  BY <1>2, <1>3 DEF Counted, SameTime
<1> QED
  BY <1>1, <1>3, <1>4, TalkStep

\* An attempt at the event: made and reported, made and lost, or not made.
LEMMA AttemptStep ==
  ASSUME BookingInv, Created \/ \E found, made \in BOOLEAN : Failed(found, made)
  PROVE  BookingInv'
<1>1. /\ Dialogue(talk) /\ Counted(talk) /\ talk.stage = "create" /\ talk.names = talk.emails
      /\ UNCHANGED <<now, busy>>
  BY DEF BookingInv, Created, Failed, Attempting, PayloadOK
<1>2. talk.told = "none" /\ talk.created = talk.lost /\ talk.created \in Nat
  BY <1>1 DEF Counted, Dialogue
<1>3. CASE Created
  <2>1. PICK made, t : /\ made = talk.created + 1
                       /\ t = [talk EXCEPT !.stage = "over", !.told = "booked", !.created = made]
    OBVIOUS
  <2>2. made \in Nat /\ made = talk.lost + 1
    BY <1>2, <2>1
  <2>3. /\ Dialogue(t) /\ t.stage = "over" /\ t.told = "booked" /\ t.created = made
        /\ t.lost = talk.lost /\ t.names = talk.names /\ t.emails = talk.emails
        /\ SameTime(t, talk)
    BY <1>1, <2>1, <2>2 DEF Dialogue, Stages, SameTime
  <2>4. Counted(t)
    BY <1>1, <2>2, <2>3 DEF Counted, SameTime
  <2>5. talk' = t
    BY <1>3, <2>1 DEF Created
  <2> QED
    BY <1>1, <2>3, <2>4, <2>5, TalkStep
<1>4. ASSUME NEW found \in BOOLEAN, NEW made \in BOOLEAN, Failed(found, made)
      PROVE  BookingInv'
  <2>1. PICK created, lost, y :
          /\ created = talk.created + (IF made THEN 1 ELSE 0)
          /\ lost = talk.lost + (IF made THEN 1 ELSE 0)
          /\ y = [talk EXCEPT !.created = created, !.lost = lost]
    OBVIOUS
  <2>2. created \in Nat /\ lost = created
    BY <1>2, <2>1
  <2>3. /\ Dialogue(y) /\ y.stage = "create" /\ y.told = "none" /\ y.created = created
        /\ y.lost = created /\ y.names = y.emails
        /\ SameTime(y, talk)
    <3>1. PICK z : z = [talk EXCEPT !.created = created]
      OBVIOUS
    <3>2. /\ Dialogue(z) /\ z.stage = "create" /\ z.told = "none" /\ z.created = created
          /\ z.names = z.emails /\ SameTime(z, talk)
      BY <1>1, <1>2, <2>2, <3>1 DEF Dialogue, SameTime
    <3>3. y = [z EXCEPT !.lost = lost]
      BY <1>1, <2>1, <3>1 DEF Dialogue
    <3> QED
      BY <2>2, <3>2, <3>3 DEF Dialogue, SameTime
  <2>4. talk' = AfterError(y, found)
    BY <1>4, <2>1 DEF Failed
  <2>5. ASSUME NEW account \in Int, NEW missed, NEW stage \in {"create", "over"}, NEW told,
               told = IF stage = "create" THEN "none" ELSE "failed",
               talk' = [y EXCEPT !.account = account, !.notFound = missed,
                                 !.stage = stage, !.told = told]
        PROVE  BookingInv'
    <3>1. PICK t : t = talk'
      OBVIOUS
    <3>2. /\ Dialogue(t) /\ t.stage = stage /\ t.told = told /\ t.created = created
          /\ t.lost = created /\ t.names = t.emails
          /\ SameTime(t, talk)
      <4>1. PICK z : z = [y EXCEPT !.account = account, !.notFound = missed]
        OBVIOUS
      <4>2. /\ Dialogue(z) /\ z.created = created /\ z.lost = created /\ z.names = z.emails
            /\ SameTime(z, talk)
        BY <2>3, <2>5, <4>1 DEF Dialogue, SameTime
      <4>3. t = [z EXCEPT !.stage = stage, !.told = told]
        BY <2>3, <2>5, <3>1, <4>1 DEF Dialogue
      <4> QED
        BY <2>5, <4>2, <4>3 DEF Dialogue, Stages, SameTime
    <3>3. Counted(t)
      BY <1>1, <2>5, <3>2 DEF Counted, SameTime
    <3>4. told # "noslot" /\ UNCHANGED <<now, busy>>
      BY <1>1, <2>5
    <3> QED
      BY <3>1, <3>2, <3>3, <3>4, TalkStep
  <2>6. CASE talk' = [y EXCEPT !.stage = "over", !.told = "failed"]
    <3>1. /\ y.account \in Int
          /\ talk' = [y EXCEPT !.account = y.account, !.notFound = y.notFound, !.stage = "over",
                               !.told = "failed"]
      BY <2>3, <2>6 DEF Dialogue
    <3> QED
      BY <2>5, <3>1
  <2>7. ASSUME NEW missed, talk' = [y EXCEPT !.account = @ + 1, !.notFound = missed]
        PROVE  BookingInv'
    <3>1. PICK account \in Int : account = y.account + 1
      BY <2>3 DEF Dialogue
    <3>2. talk' = [y EXCEPT !.account = account, !.notFound = missed, !.stage = "create",
                            !.told = "none"]
      BY <2>3, <2>7, <3>1 DEF Dialogue
    <3> QED
      BY <2>5, <3>2
  <2>8. \/ talk' = [y EXCEPT !.stage = "over", !.told = "failed"]
        \/ \E missed : talk' = [y EXCEPT !.account = @ + 1, !.notFound = missed]
    BY <2>4 DEF AfterError
  <2> QED
    BY <2>6, <2>7, <2>8
<1> QED
  BY <1>3, <1>4

\* The answer of the user, the account to begin with, and what ends a dialogue early.
LEMMA EndsStep ==
  ASSUME BookingInv,
         \/ LookupFails \/ (\E yes \in BOOLEAN : Confirm(yes))
         \/ Reject \/ FirstAccount \/ StubRun
  PROVE  BookingInv'
<1>1. Dialogue(talk) /\ Counted(talk)
  BY DEF BookingInv
<1>2. /\ talk.stage \in {"lookup", "confirm", "create"} /\ talk.told = "none"
      /\ talk.account \in Int /\ UNCHANGED <<now, busy>>
  BY <1>1 DEF Dialogue, Counted, LookupFails, Confirm, Reject, FirstAccount, StubRun
<1>3. ASSUME NEW told \in {"trouble", "refused", "failed", "stubbed"},
             talk' = [talk EXCEPT !.stage = "over", !.told = told]
      PROVE  BookingInv'
  <2>1. talk' = [talk EXCEPT !.stage = "over", !.told = told, !.account = talk.account,
                             !.notFound = talk.notFound]
    BY <1>1, <1>3 DEF Dialogue
  <2> QED
    BY <1>2, <2>1, GoesOn DEF Stages
<1>4. CASE Confirm(TRUE)
  <2>1. talk' = [talk EXCEPT !.stage = "create", !.told = "none", !.account = talk.account,
                             !.notFound = talk.notFound]
    BY <1>1, <1>2, <1>4 DEF Dialogue, Confirm
  <2> QED
    BY <1>2, <2>1, GoesOn DEF Stages
<1>5. CASE FirstAccount
  <2>1. PICK account \in Int : account = 1
    OBVIOUS
  <2>2. /\ talk.stage = "create"
        /\ talk' = [talk EXCEPT !.stage = "create", !.told = "none", !.account = account,
                                !.notFound = talk.notFound]
    BY <1>1, <1>2, <1>5, <2>1 DEF Dialogue, FirstAccount
  <2> QED
    BY <1>2, <2>1, <2>2, GoesOn DEF Stages
<1>6. CASE Confirm(FALSE)
  BY <1>3, <1>6 DEF Confirm
<1>7. CASE LookupFails \/ Reject \/ StubRun
  BY <1>3, <1>7 DEF LookupFails, Reject, StubRun
<1> QED
  BY <1>4, <1>5, <1>6, <1>7

\* The calendars are read: the slot that is recommended can be had, and what is
\* overlooked begins inside a block.
LEMMA LookupStep ==
  ASSUME BookingInv, NEW held \in [Calendars -> Agendas], NEW read \in SUBSET Calendars,
         NEW zoned \in BOOLEAN, Lookup(held, read, zoned)
  PROVE  BookingInv'
<1>1. PICK free, slot, whole : /\ free = ReadAs(Free(read, held), zoned)
                              /\ slot = RecommendSlot(free)
                              /\ whole = (zoned /\ read = Calendars)
  OBVIOUS
<1>2. /\ Dialogue(talk) /\ Counted(talk) /\ talk.stage = "lookup" /\ now \in Nat
      /\ busy' = held /\ now' = now
  BY DEF BookingInv, Lookup
<1>3. held \in [Calendars -> SUBSET Int]
  BY BookingAssumption
<1>4. talk.created = 0 /\ talk.lost = 0 /\ talk.how = "none" /\ talk.told = "none"
  BY <1>2 DEF Counted
<1>5. \A t \in Free(read, held) : /\ t \in Nat /\ now <= t /\ t < now + Horizon
                                  /\ \A c \in read : t \notin held[c]
  BY <1>2, BookingAssumption DEF Free
<1>6. Horizon \in Nat /\ ZoneOffset \in Nat
  BY BookingAssumption
<1>7. \A t \in free : /\ t \in Nat /\ now <= t /\ t < now + Horizon + ZoneOffset
                      /\ zoned => t \in Free(read, held)
  <2> SUFFICES ASSUME NEW t \in free
               PROVE  /\ t \in Nat /\ now <= t /\ t < now + Horizon + ZoneOffset
                      /\ zoned => t \in Free(read, held)
    OBVIOUS
  <2>1. PICK u \in Free(read, held) : t = u + (IF zoned THEN 0 ELSE ZoneOffset)
    BY <1>1 DEF ReadAs
  <2>2. u \in Nat /\ now <= u /\ u < now + Horizon
    BY <1>5
  <2>3. zoned => t = u
    BY <2>1, <2>2
  <2>4. ~zoned => t = u + ZoneOffset
    BY <2>1
  <2> QED
    BY <1>2, <1>6, <2>2, <2>3, <2>4
<1>8. free \subseteq Nat
  BY <1>7
<1>9. \A u \in free : (Meeting(u) \subseteq free /\ IsValidSlotStart(u)) =>
         u - 1 \in free \/ u \in FilterSlotStarts(Blocks(free))
  <2>1. PICK bound \in Nat : bound = now + Horizon + ZoneOffset
    BY <1>2, <1>6
  <2>2. \A u \in free : u < bound
    BY <1>7, <2>1
  <2> QED
    BY <1>8, <2>2, OverlookedIs
<1>10. PICK seen : seen = [talk EXCEPT !.from = now, !.free = free, !.since = {}, !.whole = whole]
  OBVIOUS
<1>11. /\ Dialogue(seen) /\ seen.free = free /\ seen.from = now /\ seen.whole = whole
       /\ seen.created = 0 /\ seen.lost = 0 /\ seen.how = "none" /\ seen.told = "none"
       /\ seen.since = {}
  <2>1. PICK g : g = [talk EXCEPT !.from = now, !.free = free]
    OBVIOUS
  <2>2. /\ Dialogue(g) /\ g.free = free /\ g.from = now
        /\ g.created = 0 /\ g.lost = 0 /\ g.how = "none" /\ g.told = "none"
    BY <1>2, <1>4, <2>1 DEF Dialogue
  <2>3. seen = [g EXCEPT !.since = {}, !.whole = whole]
    BY <1>10, <2>1
  <2> QED
    BY <2>2, <2>3 DEF Dialogue
<1>12. CASE slot = NoTime
  <2>1. PICK t : t = [seen EXCEPT !.stage = "over", !.told = "noslot"]
    OBVIOUS
  <2>2. talk' = t
    BY <1>1, <1>10, <1>12, <2>1 DEF Lookup
  <2>3. /\ Dialogue(t) /\ t.stage = "over" /\ t.told = "noslot" /\ t.free = free
        /\ t.created = 0 /\ t.lost = 0 /\ t.how = "none"
    BY <1>11, <2>1 DEF Dialogue, Stages
  <2>4. Counted(t)
    BY <2>3 DEF Counted
  <2>5. RecommendedIsBookable' /\ NamedTimeIsExplained'
    BY <2>2, <2>3 DEF RecommendedIsBookable, NamedTimeIsExplained
  <2>6. OverlookedIsInsideABlock'
    <3>1. FilterSlotStarts(Blocks(free)) = {}
      BY <1>1, <1>8, <1>12, RecommendIs
    <3> QED
      BY <1>9, <2>2, <2>3, <3>1 DEF OverlookedIsInsideABlock, Room
  <2> QED
    BY <1>2, <1>3, <2>2, <2>3, <2>4, <2>5, <2>6 DEF BookingInv, Dialogue, Counted
<1>13. CASE slot # NoTime
  <2>1. PICK t : t = [seen EXCEPT !.stage = "confirm", !.start = slot, !.wants = FALSE,
                                  !.how = "recommended"]
    OBVIOUS
  <2>2. talk' = t
    BY <1>1, <1>10, <1>13, <2>1 DEF Lookup
  <2>3. /\ Dialogue(t) /\ t.stage = "confirm" /\ t.told = "none"
        /\ t.created = 0 /\ t.lost = 0 /\ t.how = "recommended" /\ t.start = slot
        /\ t.from = now /\ t.whole = whole /\ t.free = free
    BY <1>11, <2>1 DEF Dialogue, Stages
  <2>4. Counted(t)
    BY <1>13, <2>3 DEF Counted
  <2>5. /\ slot \in Nat /\ IsValidSlotStart(slot) /\ Meeting(slot) \subseteq free
        /\ \A u \in FilterSlotStarts(Blocks(free)) : slot <= u
    BY <1>1, <1>8, <1>13, RecommendIs
  <2>6. Duration \in Nat \ {0} /\ Horizon \in Nat /\ WorkEnd \in Nat /\ WorkStart \in Nat
    BY BookingAssumption, TimesAssumption
  <2>7. slot >= now /\ (whole => slot + Duration <= now + Horizon)
    <3>1. slot \in Meeting(slot) /\ slot + Duration - 1 \in Meeting(slot)
      BY <2>5, <2>6 DEF Meeting
    <3>2. whole => slot + Duration - 1 \in Free(read, held)
      BY <1>1, <1>7, <2>5, <3>1
    <3> QED
      BY <1>2, <1>5, <1>7, <2>5, <2>6, <3>1, <3>2
  <2>8. \A u \in Meeting(slot) : TickOfDay(u) \in WorkStart..(WorkEnd - 1)
    <3> SUFFICES ASSUME NEW u \in Meeting(slot) PROVE TickOfDay(u) \in WorkStart..(WorkEnd - 1)
      OBVIOUS
    <3>1. PICK k \in Nat : u = slot + k /\ k < Duration
      <4>1. u - slot \in Nat /\ u = slot + (u - slot) /\ u - slot < Duration
        BY <2>5, <2>6 DEF Meeting
      <4> QED
        BY <4>1
    <3>2. PICK r \in Int : r = TickOfDay(slot)
      BY <2>5, TimesAssumption DEF TickOfDay
    <3>3. WorkStart <= r /\ r + Duration <= WorkEnd /\ WorkEnd <= DayTicks
      BY <2>5, <3>2, BookingAssumption DEF IsValidSlotStart
    <3>4. r + k < DayTicks /\ r + k \in WorkStart..(WorkEnd - 1)
      BY <2>6, <3>1, <3>2, <3>3, TimesAssumption
    <3>5. TickOfDay(slot + k) = TickOfDay(slot) + k
      BY <2>5, <3>1, <3>2, <3>4, SameDay
    <3> QED
      BY <3>1, <3>2, <3>4, <3>5
  <2>9. whole => \A u \in Meeting(slot), c \in Calendars : u \notin held[c]
    BY <1>1, <1>5, <1>7, <2>5
  <2>10. WeekdayOf(slot) \notin Weekend
    BY <2>5 DEF IsValidSlotStart
  <2>11. RecommendedIsBookable'
    BY <1>2, <2>2, <2>3, <2>5, <2>7, <2>8, <2>9, <2>10 DEF RecommendedIsBookable
  <2>12. OverlookedIsInsideABlock'
    <3>1. \A u \in free : (Room(u) /\ u < slot)' => u - 1 \in free
      BY <1>8, <1>9, <2>2, <2>3, <2>5 DEF Room
    <3> QED
      BY <2>2, <2>3, <3>1 DEF OverlookedIsInsideABlock
  <2>13. NamedTimeIsExplained'
    BY <2>2, <2>3 DEF NamedTimeIsExplained
  <2> QED
    BY <1>2, <1>3, <2>2, <2>3, <2>4, <2>11, <2>12, <2>13 DEF BookingInv, Dialogue, Counted
<1> QED
  BY <1>12, <1>13

\* Somebody takes the time that was recommended.
LEMMA TakeStep ==
  ASSUME BookingInv, NEW c \in Calendars, NEW u \in Ticks, Take(c, u)
  PROVE  BookingInv'
<1>1. PICK since, t : since = talk.since \cup {u} /\ t = [talk EXCEPT !.since = since]
  OBVIOUS
<1>2. /\ Dialogue(talk) /\ Counted(talk) /\ talk.stage = "confirm" /\ talk' = t /\ now' = now
      /\ busy' = [busy EXCEPT ![c] = @ \cup {u}] /\ talk.how = "recommended"
  BY <1>1 DEF BookingInv, Take
<1>3. /\ Dialogue(t) /\ Counted(t) /\ t.how = "recommended" /\ t.start = talk.start
      /\ t.from = talk.from /\ t.whole = talk.whole /\ t.since = since /\ t.told = "none"
      /\ t.free = talk.free
  BY <1>1, <1>2 DEF Dialogue, Counted
<1>4. \A d \in Calendars : busy'[d] \subseteq busy[d] \cup {u}
  BY <1>2 DEF BookingInv
<1>5. busy' \in [Calendars -> SUBSET Int]
  BY <1>2, BookingAssumption DEF BookingInv, Ticks
<1>6. RecommendedIsBookable'
  BY <1>1, <1>2, <1>3, <1>4 DEF BookingInv, RecommendedIsBookable
<1>7. OverlookedIsInsideABlock' /\ NamedTimeIsExplained'
  BY <1>2, <1>3 DEF BookingInv, OverlookedIsInsideABlock, Room, NamedTimeIsExplained
<1> QED
  BY <1>2, <1>3, <1>5, <1>6, <1>7 DEF BookingInv, Dialogue, Counted

LEMMA BookingStarts == ExecutionInit => BookingInv
<1> SUFFICES ASSUME BookingInit PROVE BookingInv
  BY DEF ExecutionInit
<1>1. talk = Silence /\ now = 0 /\ busy = [c \in Calendars |-> {}]
  BY DEF BookingInit
<1> QED
  BY <1>1, SilenceIs DEF BookingInv, RecommendedIsBookable, OverlookedIsInsideABlock,
                         NamedTimeIsExplained

LEMMA BookingSteps ==
  ASSUME BookingInv, BookingNext \/ UnwiredNext
  PROVE  BookingInv'
<1>1. ASSUME NEW names \in 0..MaxPeople, NEW emails \in 0..MaxPeople, NEW p \in Phrases,
             NEW wants \in BOOLEAN, Ask(names, emails, p, wants) \/ GiveTime(p, wants)
      PROVE  BookingInv'
  BY <1>1, AskStepOfMeeting, GiveTimeStep
<1>2. ASSUME GiveEmail([SpokenAddress EXCEPT !.form = "none"]) PROVE BookingInv'
  BY <1>2, GiveEmailStep, SpokenAddressIs
<1>3. ASSUME NEW held \in [Calendars -> Agendas], NEW zoned \in BOOLEAN,
             Lookup(held, Calendars, zoned) \/ \E c \in Calendars : Lookup(held, {c}, zoned)
      PROVE  BookingInv'
  BY <1>3, LookupStep
<1>4. ASSUME NEW c \in Calendars, NEW t \in Ticks, Take(c, t) PROVE BookingInv'
  BY <1>4, TakeStep
<1>5. ASSUME Elapse PROVE BookingInv'
  BY <1>5, TalkStep DEF Elapse, BookingInv, SameTime
<1>6. ASSUME \/ LookupFails \/ (\E yes \in BOOLEAN : Confirm(yes))
             \/ Reject \/ FirstAccount \/ StubRun
      PROVE  BookingInv'
  BY <1>6, EndsStep
<1>7. ASSUME Created \/ \E found, made \in BOOLEAN : Failed(found, made) PROVE BookingInv'
  BY <1>7, AttemptStep
<1>8. ASSUME NEW p \in Phrases, NEW wants \in BOOLEAN, GiveTime(p, wants) PROVE BookingInv'
  BY <1>8, GiveTimeStep
<1>9. ASSUME GiveEmail(SpokenAddress) PROVE BookingInv'
  BY <1>9, GiveEmailStep, SpokenAddressIs
<1>10. ASSUME NEW told \in BOOLEAN,
              GiveEmail(IF told THEN SpokenAddress ELSE [SpokenAddress EXCEPT !.form = "none"])
       PROVE  BookingInv'
  BY <1>2, <1>9, <1>10
<1>11. CASE BookingNext
  BY <1>1, <1>3, <1>4, <1>5, <1>6, <1>7, <1>8, <1>10, <1>11 DEF BookingNext
<1>12. CASE UnwiredNext
  BY <1>1, <1>5, <1>6, <1>8, <1>9, <1>12 DEF UnwiredNext
<1> QED
  BY <1>11, <1>12

LEMMA BookingInvariant == ExecutionSpec => []BookingInv
<1>1. BookingInv /\ [ExecutionNext]_executionVars => BookingInv'
  <2> SUFFICES ASSUME BookingInv, [ExecutionNext]_executionVars
               PROVE  BookingInv'
    OBVIOUS
  <2>1. CASE BookingNext \/ UnwiredNext
    BY <2>1, BookingSteps
  <2>2. ASSUME UNCHANGED <<busy, talk>>, now' \in {now, now + 1} PROVE BookingInv'
    BY <2>2, TalkStep DEF BookingInv, SameTime
  <2>3. ASSUME AgentNext, UNCHANGED <<bookingVars, reminderVars>> PROVE BookingInv'
    BY <2>2, <2>3 DEF bookingVars
  <2>4. ASSUME ReminderNext, UNCHANGED <<agentVars, busy, confirms, accounts, talk>>
        PROVE  BookingInv'
    <3>1. now' \in {now, now + 1}
      BY <2>4 DEF ReminderNext, ReminderElapse, SayTime, AskTime, AskAddress, SayPlace,
                  ConfirmReminder, CreateAtTime, RejectMode, ReadRadius, LookUpAddress,
                  FindAddress, KeepAddress, AddressFails, CreateAtPlace, StoreFails, ChangeRadius
    <3> QED
      BY <2>2, <2>4, <3>1
  <2>5. CASE UNCHANGED executionVars
    BY <2>2, <2>5 DEF executionVars, bookingVars
  <2> QED
    BY <2>1, <2>3, <2>4, <2>5 DEF ExecutionNext
<1> QED
  BY <1>1, BookingStarts, PTL DEF ExecutionSpec

\* For any calendars, agendas, zones and working hours: the slot that is recommended
\* lies ahead, in the working hours and inside what was read as free, and clashes with
\* nobody if that spoke of everybody with its zone; one that was passed over, for a
\* later slot or for none, began inside a longer free block.
THEOREM SlotsExplained == ExecutionSpec => []SlotsAreExplained
<1>1. BookingInv => SlotsAreExplained
  BY DEF BookingInv, SlotsAreExplained
<1> QED
  BY <1>1, BookingInvariant, PTL

\* For any clock times, weeks and default times: a time the user names lies ahead, on
\* the weekday and at the clock time said, but for the exceptions the property lists.
THEOREM NamedTimeExplained == ExecutionSpec => []NamedTimeIsExplained
<1>1. BookingInv => NamedTimeIsExplained
  BY DEF BookingInv
<1> QED
  BY <1>1, BookingInvariant, PTL

\* For any number of accounts and any answers of theirs: a meeting makes one event,
\* and one more for each call that made it but came back as an error.
THEOREM OneEvent == ExecutionSpec => []OneEventPerMeeting
<1>1. BookingInv => OneEventPerMeeting
  <2> SUFFICES ASSUME BookingInv PROVE OneEventPerMeeting
    OBVIOUS
  <2>1. /\ Counted(talk) /\ talk.created \in Nat /\ talk.lost \in Nat
    BY DEF BookingInv, Dialogue
  <2> QED
    BY <2>1 DEF Counted, OneEventPerMeeting
<1> QED
  BY <1>1, BookingInvariant, PTL
=============================================================================
