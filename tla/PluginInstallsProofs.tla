------------------------- MODULE PluginInstallsProofs -------------------------
(***************************************************************************)
(* Proofs about the installs of a plugin, for any number of overlapping    *)
(* calls, installs, credentials and reminders, for each kind of plugin.    *)
(***************************************************************************)
EXTENDS PluginInstalls, TLAPS

\* what the row of install i says of its setup is true
Truthful(i, row) ==
    /\ row.error <=> row.setup = "failed"
    /\ kind = "form" /\ row.setup = "completed" => row.config
    /\ ~RequiredSetup => row.setup = "completed"
    /\ RequiredSetup /\ row.setup = "completed" => i \in stored

\* pending reminders made before an uninstall of their install listed them
Unswept(i) ==
    {r \in Reminders : reminder[r].status = "pending" /\ reminder[r].install = i
                       /\ ~reminder[r].late}

\* reminders that have been made
Made == {r \in Reminders : reminder[r] # NoReminder}

\* no reminder is lost, and none is made unswept behind an uninstall
RemindersKept ==
    /\ Made \subseteq Made'
    /\ \A i \in swept : Unswept(i)' \subseteq Unswept(i)

(***************************************************************************)
(* What a call under way holds: a row that may be written, at a point of a *)
(* setup only for a plugin that has one; and an uninstall that has listed  *)
(* the reminders has those in hand that are still to be cancelled.         *)
(***************************************************************************)
Holds(q) ==
    /\ Truthful(q.id, q.row)
    /\ q.todo \subseteq Made
    /\ q.at \in {"write", "begin", "exchange", "findCred", "putCred"} => q.row.state = "live"
    /\ q.at \in {"begin", "exchange", "findCred", "putCred"} =>
          RequiredSetup /\ (kind = "form" => q.op = "submit")
    /\ q.at = "create" => kind = "reminder"
    /\ kind = "reminder" /\ q.at \in {"cancel", "delete"} => q.id \in swept
    /\ kind = "reminder" /\ q.at = "cancel" => Unswept(q.id) \subseteq q.todo
    /\ kind = "reminder" /\ q.at = "delete" => Unswept(q.id) = {}

TablesInv ==
    /\ \A i \in Live : Truthful(i, install[i])
    /\ NoOrphanCredential
    /\ kind = "reminder" =>
          \A i \in Ids : install[i].state = "gone" => i \in swept /\ Unswept(i) = {}
    /\ kind # "reminder" => \A r \in Reminders : reminder[r] = NoReminder

CallsInv == \A c \in Calls : call[c] # None => Holds(call[c])

InstallsInv == TypeOK /\ TablesInv /\ CallsInv

-----------------------------------------------------------------------------
LEMMA FreshRow ==
  ASSUME kind \in {"oauth", "form", "reminder"}
  PROVE  Fresh \in Row /\ \A i : Truthful(i, Fresh)
<1>1. CASE RequiredSetup
  BY <1>1 DEF Fresh, Row, Setup, Truthful, RequiredSetup
<1>2. CASE ~RequiredSetup
  BY <1>2 DEF Fresh, Row, Setup, Truthful, RequiredSetup
<1> QED
  BY <1>1, <1>2

LEMMA SetupRow ==
  ASSUME NEW row \in Row, NEW s \in {"in_progress", "completed", "failed"}
  PROVE  /\ WithSetup(row, s) \in Row
         /\ WithSetup(row, s).setup = s /\ (WithSetup(row, s).error <=> s = "failed")
         /\ WithSetup(row, s).config = row.config /\ WithSetup(row, s).state = row.state
  BY DEF WithSetup, Row, Setup

LEMMA CallFields ==
  ASSUME NEW q \in Call
  PROVE  /\ q.id \in Ids /\ q.row \in Row /\ q.at \in Points /\ q.op \in Ops
         /\ q.cred \in Creds \cup {None} /\ q.todo \subseteq Reminders
         /\ \A at \in Points : [q EXCEPT !.at = at] \in Call
         /\ \A at \in Points, row \in Row : [q EXCEPT !.at = at, !.row = row] \in Call
         /\ \A at \in Points, k \in Creds \cup {None} :
               [q EXCEPT !.at = at, !.cred = k] \in Call
         /\ \A k \in Creds \cup {None} : [q EXCEPT !.cred = k] \in Call
         /\ \A S \in SUBSET Reminders : [q EXCEPT !.todo = S] \in Call
         /\ \A at \in Points, S \in SUBSET Reminders :
               [q EXCEPT !.at = at, !.todo = S] \in Call
  BY DEF Call

LEMMA InstallsInit == Init => InstallsInv
<1> SUFFICES ASSUME Init PROVE InstallsInv
  OBVIOUS
<1>1. Fresh \in Row /\ Fresh.state = "unborn"
  BY FreshRow DEF Init, Fresh
<1>2. TypeOK
  BY <1>1 DEF Init, TypeOK
<1>3. TablesInv
  BY <1>1 DEF Init, TablesInv, Live, NoOrphanCredential, Unswept
<1> QED
  BY <1>2, <1>3 DEF Init, InstallsInv, CallsInv

LEMMA SameReminders ==
  ASSUME reminder' = reminder
  PROVE  RemindersKept /\ Made' = Made /\ \A i : Unswept(i)' = Unswept(i)
  BY DEF RemindersKept, Made, Unswept

\* the other calls keep what they hold while the histories grow and no reminder is
\* made unswept behind an uninstall
LEMMA HoldsStay ==
  ASSUME NEW q \in Call, Holds(q), kind' = kind, stored \subseteq stored',
         swept \subseteq swept', RemindersKept
  PROVE  Holds(q)'
  BY CallFields DEF Holds, Truthful, RequiredSetup, RemindersKept

LEMMA OthersStay ==
  ASSUME InstallsInv, NEW c \in Calls, \A d \in Calls \ {c} : call'[d] = call[d],
         kind' = kind, stored \subseteq stored', swept \subseteq swept',
         RemindersKept
  PROVE  \A d \in Calls \ {c} : call'[d] # None => Holds(call[d])'
<1> SUFFICES ASSUME NEW d \in Calls \ {c}, call'[d] # None PROVE Holds(call[d])'
  OBVIOUS
<1>1. call'[d] = call[d] /\ call[d] \in Call /\ Holds(call[d])
  BY DEF InstallsInv, CallsInv, TypeOK
<1>2. PICK q \in Call : q = call[d]
  BY <1>1
<1>3. Holds(q)
  BY <1>1, <1>2
<1>4. Holds(q)'
  BY <1>3, HoldsStay
<1> QED
  BY <1>1, <1>2, <1>4 DEF Holds, Truthful, Made

\* a step of one call that leaves the tables alone: what it holds then is enough
LEMMA CallStep ==
  ASSUME InstallsInv, NEW c \in Calls, NEW q \in Call, Holds(q)',
         call' = [call EXCEPT ![c] = q], UNCHANGED tables,
         stored \subseteq stored', stored' \subseteq Ids,
         swept \subseteq swept', swept' \subseteq Ids
  PROVE  InstallsInv'
<1>1. TypeOK'
  BY DEF InstallsInv, TypeOK, tables
<1>2. RemindersKept /\ \A i : Unswept(i)' = Unswept(i)
  BY SameReminders DEF tables
<1>3. TablesInv'
  BY <1>2 DEF InstallsInv, TablesInv, Truthful, RequiredSetup, Live, NoOrphanCredential, tables
<1>4. \A d \in Calls \ {c} : call'[d] # None => Holds(call[d])'
  <2>1. \A d \in Calls \ {c} : call'[d] = call[d]
    BY DEF InstallsInv, TypeOK
  <2> QED
    BY <1>2, <2>1, OthersStay DEF tables
<1>5. call'[c] = q
  BY DEF InstallsInv, TypeOK
<1>6. Holds(call[c])'
  BY <1>5 DEF Holds, Truthful
<1> QED
  BY <1>1, <1>3, <1>4, <1>6 DEF InstallsInv, CallsInv

\* a call that returns, with the tables changed or not
LEMMA Returns ==
  ASSUME InstallsInv, NEW c \in Calls, Return(c), TypeOK', TablesInv', kind' = kind,
         stored \subseteq stored', swept \subseteq swept',
         RemindersKept
  PROVE  InstallsInv'
<1>1. call'[c] = None /\ \A d \in Calls \ {c} : call'[d] = call[d]
  BY DEF InstallsInv, TypeOK, Return
<1>2. \A d \in Calls \ {c} : call'[d] # None => Holds(call[d])'
  BY <1>1, OthersStay
<1> QED
  BY <1>1, <1>2 DEF InstallsInv, CallsInv

\* a table that changes under a call that goes on
LEMMA GoesOn ==
  ASSUME InstallsInv, NEW c \in Calls, NEW q \in Call, Holds(q)',
         call' = [call EXCEPT ![c] = q], TypeOK', TablesInv', kind' = kind,
         stored \subseteq stored', swept \subseteq swept',
         RemindersKept
  PROVE  InstallsInv'
<1>1. call'[c] = q /\ \A d \in Calls \ {c} : call'[d] = call[d]
  BY DEF InstallsInv, TypeOK
<1>2. \A d \in Calls \ {c} : call'[d] # None => Holds(call[d])'
  BY <1>1, OthersStay
<1>3. Holds(call[c])'
  BY <1>1 DEF Holds, Truthful
<1> QED
  BY <1>2, <1>3 DEF InstallsInv, CallsInv

-----------------------------------------------------------------------------
\* a call begins with a row that is true, at a point that asks no more
LEMMA Begins ==
  ASSUME InstallsInv, NEW c \in Calls, NEW op \in Ops, NEW at \in Points, NEW i \in Ids,
         NEW row \in Row, Begin(c, op, at, i, row), Truthful(i, row),
         at \in {"write", "begin", "exchange", "findCred", "putCred"} => row.state = "live",
         at \in {"begin", "exchange", "findCred", "putCred"} =>
            RequiredSetup /\ (kind = "form" => op = "submit"),
         at = "create" => kind = "reminder",
         at \notin {"cancel", "delete"}
  PROVE  InstallsInv'
<1> DEFINE q == [op |-> op, at |-> at, id |-> i, row |-> row, cred |-> None, todo |-> {}]
<1>1. q \in Call
  BY DEF Call
<1>2. kind' = kind /\ stored' = stored /\ swept' = swept /\ UNCHANGED tables
  BY DEF Begin, tables, history
<1>3. Holds(q)'
  BY <1>2 DEF Holds, Truthful, RequiredSetup
<1>4. call' = [call EXCEPT ![c] = q]
  BY DEF Begin
<1>5. stored' \subseteq Ids /\ swept' \subseteq Ids
  BY <1>2 DEF InstallsInv, TypeOK
<1> HIDE DEF q
<1> QED
  BY <1>1, <1>2, <1>3, <1>4, <1>5, CallStep
\* a row of the table as a call finds it
LEMMA LiveRow ==
  ASSUME InstallsInv, NEW i \in Live
  PROVE  i \in Ids /\ install[i] \in Row /\ install[i].state = "live"
         /\ Truthful(i, install[i])
  BY DEF InstallsInv, TypeOK, TablesInv, Live

LEMMA FindInstallStep ==
  ASSUME InstallsInv, NEW c \in Calls, FindInstall(c)
  PROVE  InstallsInv'
<1>1. Fresh \in Row /\ \A i : Truthful(i, Fresh)
  BY FreshRow DEF InstallsInv, TypeOK
<1>2. PICK i \in Ids : Begin(c, "install", "insert", i, Fresh)
  BY DEF FindInstall
<1>3. PICK row \in Row : row = Fresh
  BY <1>1
<1>4. Truthful(i, row) /\ Begin(c, "install", "insert", i, row)
  BY <1>1, <1>2, <1>3
<1>5. "install" \in Ops /\ "insert" \in Points
  BY DEF Ops, Points
<1> QED
  BY <1>4, <1>5, Begins

LEMMA SetEnabledStep ==
  ASSUME InstallsInv, NEW c \in Calls, NEW i \in Ids, NEW on \in BOOLEAN,
         SetEnabled(c, i, on)
  PROVE  InstallsInv'
<1>1. i \in Live /\ Begin(c, "enable", "write", i, [install[i] EXCEPT !.enabled = on])
  BY DEF SetEnabled
<1>2. install[i] \in Row /\ install[i].state = "live" /\ Truthful(i, install[i])
  BY <1>1, LiveRow
<1>3. PICK row \in Row : row = [install[i] EXCEPT !.enabled = on]
  BY <1>2 DEF Row
<1>4. row.state = "live" /\ Truthful(i, row)
  BY <1>2, <1>3 DEF Truthful, Row
<1>5. "enable" \in Ops /\ "write" \in Points
  BY DEF Ops, Points
<1>6. Begin(c, "enable", "write", i, row)
  BY <1>1, <1>3
<1> QED
  BY <1>4, <1>5, <1>6, Begins

LEMMA InitSetupStep ==
  ASSUME InstallsInv, NEW c \in Calls, NEW i \in Ids, InitSetup(c, i)
  PROVE  InstallsInv'
<1>1. /\ i \in Live /\ kind = "oauth"
      /\ Begin(c, "init", "write", i, WithSetup(install[i], "in_progress"))
  BY DEF InitSetup
<1>2. install[i] \in Row /\ install[i].state = "live" /\ Truthful(i, install[i])
  BY <1>1, LiveRow
<1>3. PICK row \in Row : row = WithSetup(install[i], "in_progress")
  BY <1>2, SetupRow
<1>4. row.state = "live" /\ Truthful(i, row)
  BY <1>1, <1>2, <1>3, SetupRow DEF Truthful, RequiredSetup
<1>5. "init" \in Ops /\ "write" \in Points
  BY DEF Ops, Points
<1>6. Begin(c, "init", "write", i, row)
  BY <1>1, <1>3
<1> QED
  BY <1>4, <1>5, <1>6, Begins

LEMMA HandleCallbackStep ==
  ASSUME InstallsInv, NEW c \in Calls, NEW i \in Ids, HandleCallback(c, i)
  PROVE  InstallsInv'
<1>1. i \in Live /\ kind = "oauth" /\ Begin(c, "callback", "exchange", i, install[i])
  BY DEF HandleCallback
<1>2. PICK row \in Row : row = install[i]
  BY <1>1, LiveRow
<1>3. row.state = "live" /\ Truthful(i, row)
  BY <1>1, <1>2, LiveRow
<1>4. "callback" \in Ops /\ "exchange" \in Points /\ RequiredSetup
  BY <1>1 DEF Ops, Points, RequiredSetup
<1>5. Begin(c, "callback", "exchange", i, row)
  BY <1>1, <1>2
<1> QED
  BY <1>1, <1>3, <1>4, <1>5, Begins

LEMMA SubmitSetupStep ==
  ASSUME InstallsInv, NEW c \in Calls, NEW i \in Ids, SubmitSetup(c, i)
  PROVE  InstallsInv'
<1>1. /\ i \in Live /\ kind = "form"
      /\ Begin(c, "submit", "begin", i, WithSetup(install[i], "in_progress"))
  BY DEF SubmitSetup
<1>2. install[i] \in Row /\ install[i].state = "live" /\ Truthful(i, install[i])
  BY <1>1, LiveRow
<1>3. PICK row \in Row : row = WithSetup(install[i], "in_progress")
  BY <1>2, SetupRow
<1>4. row.state = "live" /\ Truthful(i, row) /\ RequiredSetup
  BY <1>1, <1>2, <1>3, SetupRow DEF Truthful, RequiredSetup
<1>5. "submit" \in Ops /\ "begin" \in Points
  BY DEF Ops, Points
<1>6. Begin(c, "submit", "begin", i, row)
  BY <1>1, <1>3
<1> QED
  BY <1>4, <1>5, <1>6, Begins

LEMMA UninstallStep ==
  ASSUME InstallsInv, NEW c \in Calls, NEW i \in Ids, Uninstall(c, i)
  PROVE  InstallsInv'
<1>1. i \in Live /\ Begin(c, "uninstall", "delCred", i, install[i])
  BY DEF Uninstall
<1>2. PICK row \in Row : row = install[i]
  BY <1>1, LiveRow
<1>3. row.state = "live" /\ Truthful(i, row)
  BY <1>1, <1>2, LiveRow
<1>4. "uninstall" \in Ops /\ "delCred" \in Points
  BY DEF Ops, Points
<1>5. Begin(c, "uninstall", "delCred", i, row)
  BY <1>1, <1>2
<1> QED
  BY <1>3, <1>4, <1>5, Begins

LEMMA RemindStep ==
  ASSUME InstallsInv, NEW c \in Calls, NEW i \in Ids, Remind(c, i)
  PROVE  InstallsInv'
<1>1. i \in Live /\ kind = "reminder" /\ Begin(c, "remind", "create", i, install[i])
  BY DEF Remind
<1>2. PICK row \in Row : row = install[i]
  BY <1>1, LiveRow
<1>3. row.state = "live" /\ Truthful(i, row)
  BY <1>1, <1>2, LiveRow
<1>4. "remind" \in Ops /\ "create" \in Points
  BY DEF Ops, Points
<1>5. Begin(c, "remind", "create", i, row)
  BY <1>1, <1>2
<1> QED
  BY <1>1, <1>3, <1>4, <1>5, Begins
-----------------------------------------------------------------------------
LEMMA UnderWay ==
  ASSUME InstallsInv, NEW c \in Calls, call[c] # None
  PROVE  call[c] \in Call /\ Holds(call[c])
  BY DEF InstallsInv, CallsInv, TypeOK

LEMMA SameHistory ==
  ASSUME InstallsInv, UNCHANGED history
  PROVE  /\ stored \subseteq stored' /\ stored' \subseteq Ids
         /\ swept \subseteq swept' /\ swept' \subseteq Ids
         /\ stored' = stored /\ swept' = swept
  BY DEF InstallsInv, TypeOK, history

\* a call that only moves to another point keeps its row and what it has in hand
LEMMA Continues ==
  ASSUME InstallsInv, NEW c \in Calls, call[c] # None, NEW at \in Points,
         Continue(c, at), UNCHANGED <<tables, history>>,
         \A q \in Call : q = [call[c] EXCEPT !.at = at] => Holds(q)
  PROVE  InstallsInv'
<1>1. call[c] \in Call
  BY UnderWay
<1>2. PICK q \in Call : q = [call[c] EXCEPT !.at = at]
  BY <1>1, CallFields
<1>3. Holds(q)
  BY <1>2
<1>4. Holds(q)'
  BY <1>3, SameHistory DEF Holds, Truthful, RequiredSetup, Unswept, Made, tables
<1>5. call' = [call EXCEPT ![c] = q]
  BY <1>1, <1>2 DEF Continue, Call, InstallsInv, TypeOK
<1> QED
  BY <1>2, <1>4, <1>5, CallStep, SameHistory

LEMMA ExchangedStep ==
  ASSUME InstallsInv, NEW c \in Calls, Exchanged(c)
  PROVE  InstallsInv'
<1>1. call[c] # None /\ call[c].at = "exchange" /\ Continue(c, "findCred")
  BY DEF Exchanged, At
<1>2. call[c] \in Call /\ Holds(call[c])
  BY <1>1, UnderWay
<1>3. \A q \in Call : q = [call[c] EXCEPT !.at = "findCred"] => Holds(q)
  BY <1>1, <1>2 DEF Holds, Truthful, Call
<1> QED
  BY <1>1, <1>3, Continues DEF Exchanged, Points

LEMMA CancelDoneStep ==
  ASSUME InstallsInv, NEW c \in Calls, CancelDone(c)
  PROVE  InstallsInv'
<1>1. call[c] # None /\ call[c].at = "cancel" /\ call[c].todo = {} /\ Continue(c, "delete")
  BY DEF CancelDone, At
<1>2. call[c] \in Call /\ Holds(call[c])
  BY <1>1, UnderWay
<1>3. \A q \in Call : q = [call[c] EXCEPT !.at = "delete"] => Holds(q)
  BY <1>1, <1>2 DEF Holds, Truthful, Call
<1> QED
  BY <1>1, <1>3, Continues DEF CancelDone, Points

LEMMA FindDoomedCredStep ==
  ASSUME InstallsInv, NEW c \in Calls, FindDoomedCred(c)
  PROVE  InstallsInv'
<1>1. call[c] # None /\ call[c].at = "delCred" /\ UNCHANGED <<tables, history>>
  BY DEF FindDoomedCred, At
<1>2. call[c] \in Call /\ Holds(call[c])
  BY <1>1, UnderWay
<1>3. ASSUME NEW j \in Live, cred[j] # None,
             call' = [call EXCEPT ![c].cred = cred[j]]
      PROVE  InstallsInv'
  <2>1. PICK k \in Creds \cup {None} : k = cred[j]
    BY DEF InstallsInv, TypeOK, Live
  <2>2. PICK q \in Call : q = [call[c] EXCEPT !.cred = k]
    BY <1>2, CallFields
  <2>3. Holds(q)
    BY <1>2, <2>2 DEF Holds, Truthful, Call
  <2>4. Holds(q)'
    BY <1>1, <2>3, SameHistory DEF Holds, Truthful, RequiredSetup, Unswept, Made, tables
  <2>5. call' = [call EXCEPT ![c] = q]
    BY <1>2, <1>3, <2>1, <2>2 DEF Call, InstallsInv, TypeOK
  <2> QED
    BY <1>1, <2>4, <2>5, CallStep, SameHistory
<1>4. ASSUME Continue(c, AfterCred) PROVE InstallsInv'
  <2>1. PICK at \in Points : at = AfterCred
    BY DEF AfterCred, Points
  <2>2. at = (IF kind = "reminder" THEN "sweep" ELSE "delete")
    BY <2>1 DEF AfterCred
  <2>3. \A q \in Call : q = [call[c] EXCEPT !.at = at] => Holds(q)
    BY <1>1, <1>2, <2>2 DEF Holds, Truthful, Call
  <2>4. Continue(c, at)
    BY <1>4, <2>1
  <2> QED
    BY <1>1, <2>3, <2>4, Continues
<1> QED
  BY <1>3, <1>4 DEF FindDoomedCred

LEMMA FindCredStep ==
  ASSUME InstallsInv, NEW c \in Calls, FindCred(c)
  PROVE  InstallsInv'
<1>1. /\ call[c] # None /\ call[c].at = "findCred" /\ UNCHANGED <<tables, history>>
      /\ call' = [call EXCEPT ![c].at = "putCred", ![c].cred = cred[call[c].id]]
  BY DEF FindCred, At
<1>2. call[c] \in Call /\ Holds(call[c])
  BY <1>1, UnderWay
<1>3. PICK k \in Creds \cup {None} : k = cred[call[c].id]
  BY <1>2, CallFields DEF InstallsInv, TypeOK
<1>4. "putCred" \in Points
  BY DEF Points
<1>5. PICK q \in Call : q = [call[c] EXCEPT !.at = "putCred", !.cred = k]
  BY <1>2, <1>4, CallFields
<1>6. Holds(q)
  BY <1>1, <1>2, <1>5 DEF Holds, Truthful, Call
<1>7. Holds(q)'
  BY <1>1, <1>6, SameHistory DEF Holds, Truthful, RequiredSetup, Unswept, Made, tables
<1>8. call' = [call EXCEPT ![c] = q]
  BY <1>1, <1>2, <1>3, <1>5 DEF Call, InstallsInv, TypeOK
<1> QED
  BY <1>1, <1>7, <1>8, CallStep, SameHistory
-----------------------------------------------------------------------------
\* a call that goes on to write a row that is true by then
LEMMA WritesNext ==
  ASSUME InstallsInv, NEW c \in Calls, call[c] # None, NEW i \in Ids, i = call[c].id,
         NEW row \in Row, row.state = "live", Truthful(i, row)', WriteNext(c, row), RemindersKept
  PROVE  \E q \in Call : Holds(q)' /\ call' = [call EXCEPT ![c] = q]
<1>1. call[c] \in Call
  BY UnderWay
<1>2. "write" \in Points
  BY DEF Points
<1>3. PICK q \in Call : q = [call[c] EXCEPT !.at = "write", !.row = row]
  BY <1>1, <1>2, CallFields
<1>4. q.at = "write" /\ q.row = row /\ q.id = i
  BY <1>1, <1>3 DEF Call
<1>5. q.todo \subseteq Made'
  BY <1>1, <1>3, UnderWay DEF Call, Holds, RemindersKept
<1>6. Holds(q)'
  BY <1>4, <1>5 DEF Holds, Truthful
<1>7. call' = [call EXCEPT ![c] = q]
  BY <1>1, <1>3 DEF WriteNext, Call, InstallsInv, TypeOK
<1> QED
  BY <1>6, <1>7

\* a setup that failed says so
LEMMA FailedRow ==
  ASSUME InstallsInv, NEW c \in Calls, call[c] # None,
         call[c].at \in {"exchange", "putCred"}, kind' = kind
  PROVE  \E i \in Ids, row \in Row :
            /\ i = call[c].id /\ row = WithSetup(call[c].row, "failed")
            /\ row.state = "live" /\ Truthful(i, row)'
<1>1. call[c] \in Call /\ Holds(call[c])
  BY UnderWay
<1>2. call[c].row \in Row /\ call[c].row.state = "live" /\ RequiredSetup
  BY <1>1, CallFields DEF Holds
<1>3. PICK i \in Ids : i = call[c].id
  BY <1>1, CallFields
<1>4. PICK row \in Row : row = WithSetup(call[c].row, "failed")
  BY <1>2, SetupRow
<1>5. row.state = "live" /\ row.setup = "failed" /\ row.error
  BY <1>2, <1>4, SetupRow
<1>6. Truthful(i, row)'
  BY <1>2, <1>5 DEF Truthful, RequiredSetup
<1> QED
  BY <1>3, <1>4, <1>5, <1>6

\* a setup that completed has stored its credential, and a form its configuration
LEMMA CompletedRow ==
  ASSUME InstallsInv, NEW c \in Calls, call[c] # None,
         call[c].at = "putCred", kind' = kind, call[c].id \in stored'
  PROVE  \E i \in Ids, row \in Row :
            /\ i = call[c].id /\ row = Completed(c)
            /\ row.state = "live" /\ Truthful(i, row)'
<1>1. call[c] \in Call /\ Holds(call[c])
  BY UnderWay
<1>2. /\ call[c].row \in Row /\ call[c].row.state = "live" /\ RequiredSetup
      /\ kind = "form" => call[c].op = "submit"
  BY <1>1, CallFields DEF Holds
<1>3. PICK i \in Ids : i = call[c].id
  BY <1>1, CallFields
<1>4. PICK done \in Row : done = WithSetup(call[c].row, "completed")
  BY <1>2, SetupRow
<1>5. done.state = "live" /\ done.setup = "completed" /\ ~done.error
  BY <1>2, <1>4, SetupRow DEF Row
<1>6. PICK row \in Row : row = [done EXCEPT !.config = @ \/ call[c].op = "submit"]
  BY DEF Row
<1>7. /\ row.state = "live" /\ row.setup = "completed" /\ ~row.error
      /\ call[c].op = "submit" => row.config
  BY <1>5, <1>6 DEF Row
<1>8. Truthful(i, row)'
  BY <1>2, <1>3, <1>7 DEF Truthful, RequiredSetup
<1>9. row = Completed(c)
  BY <1>4, <1>6 DEF Completed
<1> QED
  BY <1>3, <1>7, <1>8, <1>9

LEMMA ExchangeFailsStep ==
  ASSUME InstallsInv, NEW c \in Calls, ExchangeFails(c)
  PROVE  InstallsInv'
<1>1. /\ call[c] # None /\ call[c].at = "exchange" /\ UNCHANGED <<tables, history>>
      /\ WriteNext(c, WithSetup(call[c].row, "failed"))
  BY DEF ExchangeFails, At
<1>2. kind' = kind
  BY <1>1 DEF tables
<1>3. PICK i \in Ids, row \in Row :
            /\ i = call[c].id /\ row = WithSetup(call[c].row, "failed")
            /\ row.state = "live" /\ Truthful(i, row)'
  BY <1>1, <1>2, FailedRow
<1>4. WriteNext(c, row)
  BY <1>1, <1>3
<1>5. PICK q \in Call : Holds(q)' /\ call' = [call EXCEPT ![c] = q]
  BY <1>1, <1>3, <1>4, WritesNext, SameReminders DEF tables
<1> QED
  BY <1>1, <1>5, CallStep, SameHistory

LEMMA UpdateCredStep ==
  ASSUME InstallsInv, NEW c \in Calls, UpdateCred(c)
  PROVE  InstallsInv'
<1>1. /\ call[c] # None /\ call[c].at = "putCred"
      /\ UNCHANGED tables /\ swept' = swept /\ kind' = kind
  BY DEF UpdateCred, At, tables
<1>2. call[c].id \in Ids /\ stored \subseteq Ids /\ swept \subseteq Ids
  BY <1>1, UnderWay, CallFields DEF InstallsInv, TypeOK
<1>3. CASE call[c].cred = cred[call[c].id]
  <2>1. WriteNext(c, Completed(c)) /\ stored' = stored \cup {call[c].id}
    BY <1>3 DEF UpdateCred
  <2>2. PICK i \in Ids, row \in Row :
            /\ i = call[c].id /\ row = Completed(c)
            /\ row.state = "live" /\ Truthful(i, row)'
    BY <1>1, <2>1, CompletedRow
  <2>3. WriteNext(c, row)
    BY <2>1, <2>2
  <2>4. PICK q \in Call : Holds(q)' /\ call' = [call EXCEPT ![c] = q]
    BY <1>1, <2>2, <2>3, WritesNext, SameReminders DEF tables
  <2> QED
    BY <1>1, <1>2, <2>1, <2>4, CallStep
<1>4. CASE call[c].cred # cred[call[c].id]
  <2>1. WriteNext(c, WithSetup(call[c].row, "failed")) /\ stored' = stored
    BY <1>4 DEF UpdateCred
  <2>2. PICK i \in Ids, row \in Row :
            /\ i = call[c].id /\ row = WithSetup(call[c].row, "failed")
            /\ row.state = "live" /\ Truthful(i, row)'
    BY <1>1, FailedRow
  <2>3. WriteNext(c, row)
    BY <2>1, <2>2
  <2>4. PICK q \in Call : Holds(q)' /\ call' = [call EXCEPT ![c] = q]
    BY <1>1, <2>2, <2>3, WritesNext, SameReminders DEF tables
  <2> QED
    BY <1>1, <1>2, <2>1, <2>4, CallStep
<1> QED
  BY <1>3, <1>4

LEMMA FindPendingStep ==
  ASSUME InstallsInv, NEW c \in Calls, FindPending(c)
  PROVE  InstallsInv'
<1>1. /\ call[c] # None /\ call[c].at = "sweep" /\ UNCHANGED <<tables, stored>>
      /\ call' = [call EXCEPT ![c].at = "cancel", ![c].todo = PendingOf(call[c].id)]
      /\ swept' = swept \cup {call[c].id}
  BY DEF FindPending, At
<1>2. call[c] \in Call /\ Holds(call[c]) /\ call[c].id \in Ids
  BY <1>1, UnderWay, CallFields
<1>3. PICK S \in SUBSET Reminders : S = PendingOf(call[c].id)
  BY DEF PendingOf
<1>4. "cancel" \in Points
  BY DEF Points
<1>5. PICK q \in Call : q = [call[c] EXCEPT !.at = "cancel", !.todo = S]
  BY <1>2, <1>4, CallFields
<1>6. q.at = "cancel" /\ q.todo = S /\ q.id = call[c].id /\ q.row = call[c].row
  BY <1>2, <1>5 DEF Call
<1>7. Unswept(q.id) \subseteq S /\ Truthful(q.id, q.row)
  BY <1>2, <1>3, <1>6 DEF Unswept, PendingOf, Holds
<1>8. S \subseteq Made
  BY <1>3 DEF PendingOf, Made, NoReminder
<1>9. Holds(q)'
  BY <1>1, <1>6, <1>7, <1>8 DEF Holds, Truthful, RequiredSetup, Unswept, Made, tables
<1>10. call' = [call EXCEPT ![c] = q]
  BY <1>1, <1>2, <1>3, <1>5 DEF Call, InstallsInv, TypeOK
<1>11. swept' \subseteq Ids /\ stored' \subseteq Ids
  BY <1>1, <1>2 DEF InstallsInv, TypeOK
<1> QED
  BY <1>1, <1>9, <1>10, <1>11, CallStep
LEMMA AbortStep ==
  ASSUME InstallsInv, NEW c \in Calls, Abort(c)
  PROVE  InstallsInv'
<1>1. Return(c) /\ UNCHANGED <<tables, history>>
  BY DEF Abort
<1>2. TypeOK'
  BY <1>1 DEF InstallsInv, TypeOK, Return, tables, history
<1>3. RemindersKept
  BY <1>1, SameReminders DEF tables
<1>4. TablesInv'
  BY <1>1 DEF InstallsInv, TablesInv, Truthful, RequiredSetup, Live, Unswept,
                  NoOrphanCredential, tables, history
<1> QED
  BY <1>1, <1>2, <1>4, <1>3, Returns DEF tables, history

-----------------------------------------------------------------------------
(* Steps that write the table of installs.                                 *)

\* a true, live row is put in the place of a live row or of an unborn one
LEMMA RowWritten ==
  ASSUME InstallsInv, NEW i \in Ids, NEW row \in Row, row.state = "live",
         Truthful(i, row), install[i].state \in {"live", "unborn"},
         install' = [install EXCEPT ![i] = row],
         UNCHANGED <<kind, cred, usedCreds, reminder, history>>,
         issued' \subseteq Ids, call' \in [Calls -> Call \cup {None}]
  PROVE  TypeOK' /\ TablesInv' /\ RemindersKept
<1>1. /\ install \in [Ids -> Row] /\ install' \in [Ids -> Row]
      /\ install'[i] = row /\ \A j \in Ids \ {i} : install'[j] = install[j]
  BY DEF InstallsInv, TypeOK
<1>2. TypeOK'
  BY <1>1 DEF InstallsInv, TypeOK, history
<1>3. RemindersKept /\ \A j : Unswept(j)' = Unswept(j)
  BY SameReminders
<1>4. Live \subseteq Live'
  BY <1>1 DEF Live
<1>5. NoOrphanCredential'
  BY <1>4 DEF InstallsInv, TablesInv, NoOrphanCredential
<1>6. \A j \in Live' : Truthful(j, install[j])'
  <2> SUFFICES ASSUME NEW j \in Ids, install'[j].state = "live" PROVE Truthful(j, install[j])'
    BY DEF Live
  <2>1. CASE j = i
    BY <1>1, <2>1 DEF Truthful, RequiredSetup, history
  <2>2. CASE j # i
    <3>1. Truthful(j, install[j])
      BY <1>1, <2>2 DEF InstallsInv, TablesInv, Live
    <3> QED
      BY <1>1, <2>2, <3>1 DEF Truthful, RequiredSetup, history
  <2> QED
    BY <2>1, <2>2
<1>7. kind' = "reminder" =>
        \A j \in Ids : install'[j].state = "gone" => j \in swept' /\ Unswept(j)' = {}
  BY <1>1, <1>3 DEF InstallsInv, TablesInv, history
<1>8. kind' # "reminder" => \A r \in Reminders : reminder'[r] = NoReminder
  BY DEF InstallsInv, TablesInv
<1>9. TablesInv'
  BY <1>5, <1>6, <1>7, <1>8 DEF TablesInv
<1> QED
  BY <1>2, <1>3, <1>9

\* the other tables stay as they were, and so does this one
LEMMA NothingWritten ==
  ASSUME InstallsInv, UNCHANGED <<kind, install, cred, usedCreds, reminder, history>>,
         issued' \subseteq Ids, call' \in [Calls -> Call \cup {None}]
  PROVE  TypeOK' /\ TablesInv' /\ RemindersKept
<1>1. TypeOK'
  BY DEF InstallsInv, TypeOK, history
<1>2. TablesInv'
  BY DEF InstallsInv, TablesInv, Truthful, RequiredSetup, Live, Unswept,
              NoOrphanCredential, history
<1> QED
  BY <1>1, <1>2, SameReminders

LEMMA InsertStep ==
  ASSUME InstallsInv, NEW c \in Calls, Insert(c)
  PROVE  InstallsInv'
<1>1. /\ call[c] # None /\ Return(c)
      /\ UNCHANGED <<kind, cred, usedCreds, reminder, issued, history>>
      /\ install' = IF Live = {} /\ install[call[c].id].state = "unborn"
                    THEN [install EXCEPT ![call[c].id] = [call[c].row EXCEPT !.state = "live"]]
                    ELSE install
  BY DEF Insert, At
<1>2. call[c].id \in Ids /\ call[c].row \in Row /\ Truthful(call[c].id, call[c].row)
  BY <1>1, UnderWay, CallFields DEF Holds
<1>3. call' \in [Calls -> Call \cup {None}] /\ issued' \subseteq Ids
  BY <1>1 DEF Return, InstallsInv, TypeOK
<1>4. TypeOK' /\ TablesInv' /\ RemindersKept
  <2>1. CASE install[call[c].id].state = "unborn" /\ Live = {}
    <3>1. PICK i \in Ids : i = call[c].id
      BY <1>2
    <3>2. PICK row \in Row : row = [call[c].row EXCEPT !.state = "live"]
      BY <1>2 DEF Row
    <3>3. row.state = "live" /\ Truthful(i, row)
      BY <1>2, <3>1, <3>2 DEF Truthful, Row
    <3>4. install' = [install EXCEPT ![i] = row]
      BY <1>1, <2>1, <3>1, <3>2
    <3> QED
      BY <1>1, <1>3, <2>1, <3>1, <3>3, <3>4, RowWritten
  <2>2. CASE ~(install[call[c].id].state = "unborn" /\ Live = {})
    <3>1. install' = install
      BY <1>1, <2>2
    <3> QED
      BY <1>1, <1>3, <3>1, NothingWritten
  <2> QED
    BY <2>1, <2>2
<1> QED
  BY <1>1, <1>4, Returns DEF history

LEMMA UpdateStep ==
  ASSUME InstallsInv, NEW c \in Calls, Update(c)
  PROVE  InstallsInv'
<1>1. /\ call[c] # None /\ call[c].at = "write" /\ Return(c)
      /\ UNCHANGED <<kind, cred, usedCreds, reminder, history>>
  BY DEF Update, At
<1>2. /\ call[c].id \in Ids /\ call[c].row \in Row /\ Truthful(call[c].id, call[c].row)
      /\ call[c].row.state = "live"
  BY <1>1, UnderWay, CallFields DEF Holds
<1>3. call' \in [Calls -> Call \cup {None}] /\ issued' \subseteq Ids
  BY <1>1, <1>2 DEF Update, Return, InstallsInv, TypeOK
<1>4. TypeOK' /\ TablesInv' /\ RemindersKept
  <2>1. CASE call[c].id \in Live
    <3>1. PICK i \in Ids : i = call[c].id
      BY <1>2
    <3>2. PICK row \in Row : row = call[c].row
      BY <1>2
    <3>3. row.state = "live" /\ Truthful(i, row)
      BY <1>2, <3>1, <3>2
    <3>4. install' = [install EXCEPT ![i] = row]
      BY <2>1, <3>1, <3>2 DEF Update
    <3>5. install[i].state = "live"
      BY <2>1, <3>1 DEF Live
    <3> QED
      BY <1>1, <1>3, <3>3, <3>4, <3>5, RowWritten
  <2>2. CASE call[c].id \notin Live
    <3>1. install' = install
      BY <2>2 DEF Update
    <3> QED
      BY <1>1, <1>3, <3>1, NothingWritten
  <2> QED
    BY <2>1, <2>2
<1> QED
  BY <1>1, <1>4, Returns DEF history

LEMMA WriteInProgressStep ==
  ASSUME InstallsInv, NEW c \in Calls, WriteInProgress(c)
  PROVE  InstallsInv'
<1>1. /\ call[c] # None /\ call[c].at = "begin"
      /\ UNCHANGED <<kind, cred, usedCreds, reminder, issued, history>>
  BY DEF WriteInProgress, At
<1>2. /\ call[c].id \in Ids /\ call[c].row \in Row /\ Truthful(call[c].id, call[c].row)
      /\ call[c].row.state = "live" /\ call[c] \in Call /\ Holds(call[c])
  BY <1>1, UnderWay, CallFields DEF Holds
<1>3. issued' \subseteq Ids
  BY <1>1 DEF InstallsInv, TypeOK
<1>4. CASE call[c].id \in Live
  <2>1. PICK i \in Ids : i = call[c].id
    BY <1>2
  <2>2. PICK row \in Row : row = call[c].row
    BY <1>2
  <2>3. /\ row.state = "live" /\ Truthful(i, row) /\ install[i].state = "live"
        /\ install' = [install EXCEPT ![i] = row] /\ Continue(c, "exchange")
    BY <1>2, <1>4, <2>1, <2>2 DEF WriteInProgress, Live
  <2>4. "exchange" \in Points
    BY DEF Points
  <2>5. PICK q \in Call : q = [call[c] EXCEPT !.at = "exchange"]
    BY <1>2, <2>4, CallFields
  <2>6. call' = [call EXCEPT ![c] = q]
    BY <1>2, <2>3, <2>5 DEF Continue, Call, InstallsInv, TypeOK
  <2>7. call' \in [Calls -> Call \cup {None}]
    BY <2>6 DEF InstallsInv, TypeOK
  <2>8. TypeOK' /\ TablesInv' /\ RemindersKept
    BY <1>1, <1>3, <2>3, <2>7, RowWritten
  <2>9. Holds(q)
    BY <1>1, <1>2, <2>5 DEF Holds, Truthful, Call
  <2>10. Holds(q)'
    BY <1>1, <2>8, <2>9, HoldsStay DEF history
  <2> QED
    BY <1>1, <2>6, <2>8, <2>10, GoesOn DEF history
<1>5. CASE call[c].id \notin Live
  <2>1. install' = install /\ Return(c)
    BY <1>5 DEF WriteInProgress
  <2>2. call' \in [Calls -> Call \cup {None}]
    BY <2>1 DEF Return, InstallsInv, TypeOK
  <2>3. TypeOK' /\ TablesInv' /\ RemindersKept
    BY <1>1, <1>3, <2>1, <2>2, NothingWritten
  <2> QED
    BY <1>1, <2>1, <2>3, Returns DEF history
<1> QED
  BY <1>4, <1>5
-----------------------------------------------------------------------------
(* Steps that write the tables of credentials and reminders.               *)

\* a credential is stored for a live install, or taken away
LEMMA CredsWritten ==
  ASSUME InstallsInv, cred' \in [Ids -> Creds \cup {None}], usedCreds' \subseteq Creds,
         \A i \in Ids : cred'[i] # None => i \in Live,
         UNCHANGED <<kind, install, reminder, issued, swept>>,
         stored \subseteq stored', stored' \subseteq Ids,
         call' \in [Calls -> Call \cup {None}]
  PROVE  TypeOK' /\ TablesInv' /\ RemindersKept
<1>1. TypeOK'
  BY DEF InstallsInv, TypeOK
<1>2. Live' = Live /\ RemindersKept /\ \A j : Unswept(j)' = Unswept(j)
  BY SameReminders DEF Live
<1>3. \A i \in Live : Truthful(i, install[i])'
  BY DEF InstallsInv, TablesInv, Truthful, RequiredSetup
<1>4. NoOrphanCredential'
  BY <1>2 DEF NoOrphanCredential
<1> QED
  BY <1>1, <1>2, <1>3, <1>4 DEF InstallsInv, TablesInv

LEMMA CreateCredStep ==
  ASSUME InstallsInv, NEW c \in Calls, CreateCred(c)
  PROVE  InstallsInv'
<1>1. /\ call[c] # None /\ call[c].at = "putCred"
      /\ UNCHANGED <<kind, install, reminder, issued, swept>> /\ kind' = kind
  BY DEF CreateCred, At
<1>2. call[c].id \in Ids
  BY <1>1, UnderWay, CallFields
<1>3. CASE call[c].id \in Live /\ cred[call[c].id] = None
  <2>1. PICK k \in Creds \ usedCreds :
              /\ cred' = [cred EXCEPT ![call[c].id] = k]
              /\ usedCreds' = usedCreds \cup {k}
              /\ stored' = stored \cup {call[c].id}
              /\ WriteNext(c, Completed(c))
    BY <1>3 DEF CreateCred
  <2>2. PICK i \in Ids, row \in Row :
            /\ i = call[c].id /\ row = Completed(c)
            /\ row.state = "live" /\ Truthful(i, row)'
    BY <1>1, <2>1, CompletedRow
  <2>3. WriteNext(c, row)
    BY <2>1, <2>2
  <2>4. PICK q \in Call : Holds(q)' /\ call' = [call EXCEPT ![c] = q]
    BY <1>1, <2>2, <2>3, WritesNext, SameReminders
  <2>5. call' \in [Calls -> Call \cup {None}]
    BY <2>4 DEF InstallsInv, TypeOK
  <2>6. /\ cred' \in [Ids -> Creds \cup {None}] /\ usedCreds' \subseteq Creds
        /\ stored \subseteq stored' /\ stored' \subseteq Ids
    BY <1>2, <2>1 DEF InstallsInv, TypeOK
  <2>7. \A j \in Ids : cred'[j] # None => j \in Live
    BY <1>2, <1>3, <2>1 DEF InstallsInv, TypeOK, TablesInv, NoOrphanCredential
  <2>8. TypeOK' /\ TablesInv' /\ RemindersKept
    BY <1>1, <2>5, <2>6, <2>7, CredsWritten
  <2> QED
    BY <1>1, <2>4, <2>6, <2>8, GoesOn
<1>4. CASE ~(call[c].id \in Live /\ cred[call[c].id] = None)
  <2>1. /\ WriteNext(c, WithSetup(call[c].row, "failed"))
        /\ UNCHANGED <<cred, usedCreds, stored>>
    BY <1>4 DEF CreateCred
  <2>2. PICK i \in Ids, row \in Row :
            /\ i = call[c].id /\ row = WithSetup(call[c].row, "failed")
            /\ row.state = "live" /\ Truthful(i, row)'
    BY <1>1, FailedRow
  <2>3. WriteNext(c, row)
    BY <2>1, <2>2
  <2>4. PICK q \in Call : Holds(q)' /\ call' = [call EXCEPT ![c] = q]
    BY <1>1, <2>2, <2>3, WritesNext, SameReminders
  <2>5. UNCHANGED <<tables, history>>
    BY <1>1, <2>1 DEF tables, history
  <2> QED
    BY <2>4, <2>5, CallStep, SameHistory
<1> QED
  BY <1>3, <1>4

LEMMA DeleteCredStep ==
  ASSUME InstallsInv, NEW c \in Calls, DeleteCred(c)
  PROVE  InstallsInv'
<1>1. /\ call[c] # None /\ call[c].at = "delCred"
      /\ UNCHANGED <<kind, install, usedCreds, reminder, issued, history>>
      /\ cred' = [j \in Ids |-> IF cred[j] = call[c].cred THEN None ELSE cred[j]]
      /\ Continue(c, AfterCred) \/ Return(c)
  BY DEF DeleteCred, At
<1>2. call[c] \in Call /\ Holds(call[c])
  BY <1>1, UnderWay
<1>3. stored' = stored /\ swept' = swept /\ stored \subseteq Ids /\ kind' = kind
  BY <1>1 DEF history, InstallsInv, TypeOK
<1>4. ASSUME call' \in [Calls -> Call \cup {None}]
      PROVE  TypeOK' /\ TablesInv' /\ RemindersKept
  <2>1. cred' \in [Ids -> Creds \cup {None}] /\ usedCreds' \subseteq Creds
    BY <1>1 DEF InstallsInv, TypeOK
  <2>2. \A j \in Ids : cred'[j] # None => j \in Live
    BY <1>1 DEF InstallsInv, TablesInv, NoOrphanCredential
  <2> QED
    BY <1>1, <1>3, <1>4, <2>1, <2>2, CredsWritten
<1>5. ASSUME Continue(c, AfterCred) PROVE InstallsInv'
  <2>1. PICK at \in Points : at = AfterCred
    BY DEF AfterCred, Points
  <2>2. at = (IF kind = "reminder" THEN "sweep" ELSE "delete")
    BY <2>1 DEF AfterCred
  <2>3. PICK q \in Call : q = [call[c] EXCEPT !.at = at]
    BY <1>2, CallFields
  <2>4. call' = [call EXCEPT ![c] = q]
    BY <1>2, <1>5, <2>1, <2>3 DEF Continue, Call, InstallsInv, TypeOK
  <2>5. call' \in [Calls -> Call \cup {None}]
    BY <2>4 DEF InstallsInv, TypeOK
  <2>6. TypeOK' /\ TablesInv' /\ RemindersKept
    BY <1>4, <2>5
  <2>7. Holds(q)
    BY <1>1, <1>2, <2>2, <2>3 DEF Holds, Truthful, Call
  <2>8. Holds(q)'
    BY <1>3, <2>6, <2>7, HoldsStay
  <2> QED
    BY <1>3, <2>4, <2>6, <2>8, GoesOn
<1>6. ASSUME Return(c) PROVE InstallsInv'
  <2>1. call' \in [Calls -> Call \cup {None}]
    BY <1>6 DEF Return, InstallsInv, TypeOK
  <2>2. TypeOK' /\ TablesInv' /\ RemindersKept
    BY <1>4, <2>1
  <2> QED
    BY <1>3, <1>6, <2>2, Returns
<1> QED
  BY <1>1, <1>5, <1>6

LEMMA DeleteStep ==
  ASSUME InstallsInv, NEW c \in Calls, Delete(c)
  PROVE  InstallsInv'
<1>1. /\ call[c] # None /\ call[c].at = "delete" /\ Return(c)
      /\ UNCHANGED <<kind, usedCreds, reminder, issued, history>>
  BY DEF Delete, At
<1>2. call[c] \in Call /\ Holds(call[c]) /\ call[c].id \in Ids
  BY <1>1, UnderWay, CallFields
<1>3. call' \in [Calls -> Call \cup {None}] /\ issued' \subseteq Ids
  BY <1>1 DEF Return, InstallsInv, TypeOK
<1>4. RemindersKept /\ \A j : Unswept(j)' = Unswept(j)
  BY <1>1, SameReminders
<1>5. CASE call[c].id \in Live
  <2>1. PICK i \in Ids : i = call[c].id
    BY <1>2
  <2>2. /\ install' = [install EXCEPT ![i].state = "gone"]
        /\ cred' = [cred EXCEPT ![i] = None]
    BY <1>5, <2>1 DEF Delete
  <2>3. /\ install' \in [Ids -> Row] /\ install'[i].state = "gone"
        /\ \A j \in Ids \ {i} : install'[j] = install[j]
    BY <2>2 DEF InstallsInv, TypeOK, Row
  <2>4. TypeOK'
    BY <1>1, <1>3, <2>2, <2>3 DEF InstallsInv, TypeOK, history
  <2>5. Live' = Live \ {i}
    BY <2>3 DEF Live
  <2>6. \A j \in Live' : Truthful(j, install[j])'
    <3> SUFFICES ASSUME NEW j \in Live' PROVE Truthful(j, install[j])'
      OBVIOUS
    <3>1. j \in Live /\ j \in Ids \ {i} /\ Truthful(j, install[j])
      BY <2>5 DEF InstallsInv, TablesInv, Live
    <3> QED
      BY <1>1, <2>3, <3>1 DEF Truthful, RequiredSetup, history
  <2>7. NoOrphanCredential'
    BY <2>2, <2>5 DEF InstallsInv, TypeOK, TablesInv, NoOrphanCredential
  <2>8. ASSUME kind' = "reminder", NEW j \in Ids, install'[j].state = "gone"
        PROVE  j \in swept' /\ Unswept(j)' = {}
    <3>1. kind = "reminder" /\ swept' = swept
      BY <1>1, <2>8 DEF history
    <3>2. i \in swept /\ Unswept(i) = {}
      BY <1>1, <1>2, <2>1, <3>1 DEF Holds
    <3>3. CASE j = i
      BY <1>4, <3>1, <3>2, <3>3
    <3>4. CASE j # i
      BY <1>4, <2>3, <2>8, <3>1, <3>4 DEF InstallsInv, TablesInv
    <3> QED
      BY <3>3, <3>4
  <2>9. kind' # "reminder" => \A r \in Reminders : reminder'[r] = NoReminder
    BY <1>1 DEF InstallsInv, TablesInv
  <2>10. TablesInv'
    BY <2>6, <2>7, <2>8, <2>9 DEF TablesInv
  <2> QED
    BY <1>1, <1>4, <2>4, <2>10, Returns DEF history
<1>6. CASE call[c].id \notin Live
  <2>1. UNCHANGED <<install, cred>>
    BY <1>6 DEF Delete
  <2>2. TypeOK' /\ TablesInv'
    BY <1>1, <1>3, <2>1, NothingWritten
  <2> QED
    BY <1>1, <1>4, <2>2, Returns DEF history
<1> QED
  BY <1>5, <1>6
\* reminders change for the reminder plugin only, never to the worse for one swept
LEMMA RemindersWritten ==
  ASSUME InstallsInv, kind = "reminder",
         reminder' \in [Reminders -> ReminderRow \cup {NoReminder}],
         RemindersKept,
         UNCHANGED <<kind, install, cred, usedCreds, issued, history>>,
         call' \in [Calls -> Call \cup {None}]
  PROVE  TypeOK' /\ TablesInv'
<1>1. TypeOK'
  BY DEF InstallsInv, TypeOK, history
<1>2. \A i \in Live' : Truthful(i, install[i])'
  BY DEF InstallsInv, TablesInv, Truthful, RequiredSetup, Live, history
<1>3. NoOrphanCredential'
  BY DEF InstallsInv, TablesInv, NoOrphanCredential, Live
<1>4. \A i \in Ids : install'[i].state = "gone" => i \in swept' /\ Unswept(i)' = {}
  BY DEF InstallsInv, TablesInv, RemindersKept, history
<1> QED
  BY <1>1, <1>2, <1>3, <1>4 DEF TablesInv

LEMMA CancelOneStep ==
  ASSUME InstallsInv, NEW c \in Calls, CancelOne(c)
  PROVE  InstallsInv'
<1>1. /\ call[c] # None /\ call[c].at = "cancel"
      /\ UNCHANGED <<kind, install, cred, usedCreds, issued, history>>
  BY DEF CancelOne, At
<1>2. call[c] \in Call /\ Holds(call[c]) /\ call[c].id \in Ids /\ call[c].todo \subseteq Reminders
  BY <1>1, UnderWay, CallFields
<1>3. PICK r \in call[c].todo :
         /\ reminder' = [reminder EXCEPT ![r].status = "cancelled"]
         /\ call' = [call EXCEPT ![c].todo = @ \ {r}]
  BY DEF CancelOne
<1>4. PICK S \in SUBSET Reminders : S = call[c].todo \ {r}
  BY <1>2
<1>5. PICK q \in Call : q = [call[c] EXCEPT !.todo = S]
  BY <1>2, CallFields
<1>6. call' = [call EXCEPT ![c] = q]
  BY <1>2, <1>3, <1>4, <1>5 DEF Call, InstallsInv, TypeOK
<1>7. call' \in [Calls -> Call \cup {None}]
  BY <1>6 DEF InstallsInv, TypeOK
<1>8. r \in Reminders /\ reminder[r] \in ReminderRow /\ kind = "reminder"
  BY <1>2, <1>3 DEF InstallsInv, TypeOK, TablesInv, Holds, Made
<1>9. /\ reminder' \in [Reminders -> ReminderRow \cup {NoReminder}]
      /\ reminder'[r] \in ReminderRow /\ reminder'[r].status = "cancelled"
      /\ \A x \in Reminders \ {r} : reminder'[x] = reminder[x]
  BY <1>3, <1>8 DEF InstallsInv, TypeOK, ReminderRow
<1>10. \A i : Unswept(i)' = Unswept(i) \ {r}
  BY <1>9 DEF Unswept
<1>11. Made \subseteq Made'
  <2>1. NoReminder.status = "none"
    BY DEF NoReminder
  <2>2. reminder'[r] # NoReminder
    BY <1>9, <2>1
  <2> QED
    BY <1>9, <2>2 DEF Made
<1>12. RemindersKept
  BY <1>10, <1>11 DEF RemindersKept
<1>13. TypeOK' /\ TablesInv'
  BY <1>1, <1>7, <1>8, <1>9, <1>12, RemindersWritten
<1>14. q.todo = call[c].todo \ {r} /\ q.id = call[c].id /\ q.row = call[c].row /\ q.at = "cancel"
  BY <1>1, <1>2, <1>4, <1>5 DEF Call
<1>15. /\ Truthful(q.id, q.row) /\ q.id \in swept
       /\ Unswept(q.id) \subseteq call[c].todo /\ q.todo \subseteq Made
  BY <1>1, <1>2, <1>8, <1>14 DEF Holds
<1>16. /\ Truthful(q.id, q.row)' /\ q.id \in swept'
       /\ Unswept(q.id)' \subseteq q.todo /\ q.todo \subseteq Made'
  BY <1>1, <1>10, <1>11, <1>14, <1>15 DEF Truthful, RequiredSetup, history
<1>17. Holds(q)'
  BY <1>14, <1>16 DEF Holds
<1> QED
  BY <1>1, <1>6, <1>12, <1>13, <1>17, GoesOn DEF history
\* a reminder made behind an uninstall that has listed them is late, and not unswept
LEMMA CreateReminderStep ==
  ASSUME InstallsInv, NEW c \in Calls, CreateReminder(c)
  PROVE  InstallsInv'
<1>1. /\ call[c] # None /\ call[c].at = "create" /\ Return(c)
      /\ UNCHANGED <<kind, install, cred, usedCreds, issued, history>>
  BY DEF CreateReminder, At
<1>2. call[c].id \in Ids /\ kind = "reminder"
  BY <1>1, UnderWay, CallFields DEF Holds
<1>3. PICK i \in Ids : i = call[c].id
  BY <1>2
<1>4. PICK r \in Reminders :
         /\ reminder[r] = NoReminder
         /\ reminder' = [reminder EXCEPT ![r] =
                           [install |-> i, status |-> "pending", late |-> i \in swept]]
  BY <1>3 DEF CreateReminder
<1>5. PICK new \in ReminderRow :
         new = [install |-> i, status |-> "pending", late |-> i \in swept]
  <2>1. (i \in swept) \in BOOLEAN
    OBVIOUS
  <2> QED
    BY <2>1 DEF ReminderRow
<1>6. /\ reminder' \in [Reminders -> ReminderRow \cup {NoReminder}]
      /\ reminder'[r] = new /\ \A x \in Reminders \ {r} : reminder'[x] = reminder[x]
  BY <1>4, <1>5 DEF InstallsInv, TypeOK
<1>7. new.install = i /\ (i \in swept => new.late)
  BY <1>5
<1>8. \A j \in swept : Unswept(j)' \subseteq Unswept(j)
  BY <1>6, <1>7 DEF Unswept
<1>9. Made \subseteq Made'
  BY <1>4, <1>6 DEF Made
<1>10. RemindersKept
  BY <1>8, <1>9 DEF RemindersKept
<1>11. call' \in [Calls -> Call \cup {None}]
  BY <1>1 DEF Return, InstallsInv, TypeOK
<1>12. TypeOK' /\ TablesInv'
  BY <1>1, <1>2, <1>6, <1>10, <1>11, RemindersWritten
<1> QED
  BY <1>1, <1>10, <1>12, Returns DEF history

-----------------------------------------------------------------------------
LEMMA InstallsNext ==
  ASSUME InstallsInv, [Next]_vars
  PROVE  InstallsInv'
<1>1. CASE UNCHANGED vars
  <2>1. UNCHANGED <<kind, install, cred, usedCreds, reminder, history>>
    BY <1>1 DEF vars, history
  <2>2. call' = call /\ issued' = issued
    BY <1>1 DEF vars
  <2>3. issued' \subseteq Ids /\ call' \in [Calls -> Call \cup {None}]
    BY <2>2 DEF InstallsInv, TypeOK
  <2>4. TypeOK' /\ TablesInv' /\ Made' = Made /\ \A j : Unswept(j)' = Unswept(j)
    BY <2>1, <2>3, NothingWritten, SameReminders
  <2> QED
    BY <2>1, <2>2, <2>4 DEF InstallsInv, CallsInv, Holds, Truthful, RequiredSetup, history
<1>2. ASSUME NEW c \in Calls, NEW i \in Ids,
             \/ \E on \in BOOLEAN : SetEnabled(c, i, on)
             \/ InitSetup(c, i) \/ HandleCallback(c, i)
             \/ SubmitSetup(c, i) \/ Uninstall(c, i) \/ Remind(c, i)
      PROVE  InstallsInv'
  BY <1>2, SetEnabledStep, InitSetupStep, HandleCallbackStep, SubmitSetupStep,
     UninstallStep, RemindStep
<1>3. ASSUME NEW c \in Calls,
             \/ FindInstall(c) \/ Insert(c) \/ Update(c)
             \/ WriteInProgress(c) \/ ExchangeFails(c) \/ Exchanged(c)
             \/ FindCred(c) \/ UpdateCred(c) \/ CreateCred(c)
      PROVE  InstallsInv'
  BY <1>3, FindInstallStep, InsertStep, UpdateStep, WriteInProgressStep,
     ExchangeFailsStep, ExchangedStep, FindCredStep, UpdateCredStep, CreateCredStep
<1>4. ASSUME NEW c \in Calls,
             \/ FindDoomedCred(c) \/ DeleteCred(c)
             \/ FindPending(c) \/ CancelOne(c) \/ CancelDone(c) \/ Delete(c)
             \/ CreateReminder(c) \/ Abort(c)
      PROVE  InstallsInv'
  BY <1>4, FindDoomedCredStep, DeleteCredStep, FindPendingStep, CancelOneStep,
     CancelDoneStep, DeleteStep, CreateReminderStep, AbortStep
<1> QED
  BY <1>1, <1>2, <1>3, <1>4 DEF Next

THEOREM InstallsInvariant == Spec => []InstallsInv
  BY InstallsInit, InstallsNext, PTL DEF Spec

(***************************************************************************)
(* TypeOK: every variable keeps its type, the store calls of any number of *)
(* overlapping operations interleaved in any order.                        *)
(***************************************************************************)
THEOREM TypeCorrect == Spec => []TypeOK
<1>1. InstallsInv => TypeOK
  BY DEF InstallsInv
<1> QED
  BY <1>1, InstallsInvariant, PTL

(***************************************************************************)
(* SetupIsTruthful: whatever toggles, setups, callbacks and uninstalls     *)
(* overlap, each writing back the whole row it read, an install never      *)
(* claims a setup that was not carried through.                            *)
(***************************************************************************)
THEOREM SetupStaysTruthful == Spec => []SetupIsTruthful
<1>1. InstallsInv => SetupIsTruthful
  BY DEF InstallsInv, TablesInv, Truthful, SetupIsTruthful, RowsCoherent, CompletedWasStored
<1> QED
  BY <1>1, InstallsInvariant, PTL

(***************************************************************************)
(* NoOrphanCredential: a credential is of a live install, although a setup *)
(* may be storing one while an uninstall deletes the row.                  *)
(***************************************************************************)
THEOREM NoCredentialOutlives == Spec => []NoOrphanCredential
<1>1. InstallsInv => NoOrphanCredential
  BY DEF InstallsInv, TablesInv
<1> QED
  BY <1>1, InstallsInvariant, PTL

(***************************************************************************)
(* UninstallSweeps: once an install is gone, no reminder made before its   *)
(* uninstall listed them is pending; any number of reminders, cancelled    *)
(* one by one, with failures and repeated uninstalls in between.           *)
(***************************************************************************)
THEOREM GoneMeansSwept == Spec => []UninstallSweeps
<1>1. InstallsInv => UninstallSweeps
  <2> SUFFICES ASSUME InstallsInv, NEW r \in Reminders,
                      reminder[r].status = "pending", ~reminder[r].late,
                      install[reminder[r].install].state = "gone"
               PROVE  FALSE
    BY DEF UninstallSweeps
  <2>1. reminder[r] # NoReminder /\ reminder[r] \in ReminderRow
    BY DEF InstallsInv, TypeOK, NoReminder
  <2>2. kind = "reminder" /\ reminder[r].install \in Ids
    BY <2>1 DEF InstallsInv, TablesInv, ReminderRow
  <2>3. Unswept(reminder[r].install) = {}
    BY <2>2 DEF InstallsInv, TablesInv
  <2> QED
    BY <2>3 DEF Unswept
<1> QED
  BY <1>1, InstallsInvariant, PTL
=============================================================================
