--------------------------- MODULE AccountsProofs ---------------------------
(***************************************************************************)
(* Proofs about Accounts.  IInv adds to the properties what a handler      *)
(* holds between two statements (Held) and that only an id that was used   *)
(* is cached; each is preserved by every step, so the properties hold for  *)
(* any number of accounts, requests and instances.                         *)
(***************************************************************************)
EXTENDS Accounts, TLAPS

LEMMA Shapes ==
    /\ NoRow \in Row
    /\ Gone \in Row
    /\ NoEntry \in Entry
    /\ Idle \in Call
    /\ Defaults \in Settings
    /\ Defaults # NoSettings
    /\ NoSettings \notin Settings
BY ConstantsAssumption
   DEF NoRow, Gone, Row, NoEntry, Entry, Idle, Call, Ops, NoInput, NoSettings,
       Defaults, Settings

LEMMA InitIInv == Init => IInv
<1> SUFFICES ASSUME Init PROVE IInv
  OBVIOUS
<1>1. TypeOK
  BY Shapes DEF Init, TypeOK
<1>2. ASSUME NEW w \in Workers PROVE Held(w) /\ ~At(w, "refused")
  BY DEF Init, Held, At, Idle
<1>3. \A u \in Users : ~Cached(u) /\ rows[u].status = "unborn"
  BY DEF Init, Cached, NoRow
<1>4. StaleIsExplained
  BY <1>3 DEF StaleIsExplained, Stale
<1>5. OneAccountPerEmail
  BY <1>3 DEF OneAccountPerEmail, Stored, Init
<1> QED BY <1>1, <1>2, <1>3, <1>4, <1>5 DEF IInv, RefusedOnlyWhenGone

LEMMA ApplySettings ==
    ASSUME NEW input \in Inputs, NEW s \in Settings
    PROVE  /\ Apply(input, s) \in Settings
           /\ Apply(input, s).wake \in Wakes
BY ConstantsAssumption DEF Apply, Inputs, Settings

\* What Found leaves the handler with: nothing, or the user's own settings.
LEMMA FoundHolds ==
    ASSUME NEW w \in Workers, NEW u \in Users,
           NEW input \in Inputs \cup {NoInput}, NEW s \in Settings,
           TypeOK, Found(w, u, input, s)
    PROVE  \E c \in Call :
             /\ call' = [call EXCEPT ![w] = c]
             /\ \/ c = Idle
                \/ /\ c.op = "saveSettings" /\ c.user = u
                   /\ c.save.wake \in Wakes
<1>1. CASE input = NoInput
  BY <1>1, Shapes DEF Found, Return, Goto
<1>2. CASE input # NoInput
  <2> DEFINE c == [Idle EXCEPT !.op = "saveSettings", !.user = u,
                               !.save = Apply(input, s)]
  <2>1. c \in Call /\ c.op = "saveSettings" /\ c.user = u
          /\ c.save = Apply(input, s)
    BY <1>2, ApplySettings, Shapes DEF Call, Idle, Ops
  <2>2. call' = [call EXCEPT ![w] = c]
    BY <1>2 DEF Found, Goto
  <2> QED BY <1>2, <2>1, <2>2, ApplySettings
<1> QED BY <1>1, <1>2

-----------------------------------------------------------------------------
(* Type correctness.                                                       *)

LEMMA CallMoves ==
    ASSUME NEW w \in Workers, NEW c \in Call, TypeOK,
           call' = [call EXCEPT ![w] = c]
    PROVE  /\ call' \in [Workers -> Call]
           /\ call'[w] = c
           /\ \A v \in Workers \ {w} : call'[v] = call[v]
BY DEF TypeOK

\* One request acts, or time passes.
Acts(w) ==
    \/ \E e \in Emails, n \in Names, b \in BOOLEAN : Create(w, e, n, b)
    \/ InsertUser(w)
    \/ PublishCreated(w)
    \/ \E u \in Users :
         \/ GetByID(w, u)
         \/ \E n \in Names : Update(w, u, n)
         \/ Delete(w, u)
         \/ \E input \in Inputs \cup {NoInput} : FindSettings(w, u, input)
    \/ Load(w)
    \/ Fill(w)
    \/ WriteUser(w)
    \/ Invalidate(w)
    \/ InvalidateFails(w)
    \/ CreateSettings(w)
    \/ RefindSettings(w)
    \/ SaveSettings(w)
    \/ GiveUp(w)

LEMMA Steps == Next => Tick \/ \E w \in Workers : Acts(w)
BY DEF Next, Acts

(***************************************************************************)
(* What the acting handler holds after its step, and that the tables keep  *)
(* their types.                                                            *)
(***************************************************************************)
Keeps(w) ==
    /\ rows' \in [Users -> Row]
    /\ cache' \in [Users -> Entry]
    /\ settings' \in [Users -> Settings \cup {NoSettings}]
    /\ events' \subseteq Users
    /\ \E c \in Call : call' = [call EXCEPT ![w] = c]

LEMMA AgedEntry ==
    ASSUME NEW entry \in Entry
    PROVE  /\ Aged(entry) \in Entry
           /\ Aged(entry) # NoEntry =>
                /\ Aged(entry).row = entry.row
                /\ Aged(entry).excused = entry.excused
BY Shapes, ConstantsAssumption DEF Aged, Entry

LEMMA TickType == TypeOK /\ Tick => TypeOK'
BY AgedEntry, Shapes DEF TypeOK, Tick

LEMMA ActsType ==
    ASSUME NEW w \in Workers, TypeOK, \A v \in Workers : Held(v), Acts(w)
    PROVE  Keeps(w)
<1> USE Shapes
<1>1. ASSUME NEW e \in Emails, NEW n \in Names, NEW b \in BOOLEAN,
             Create(w, e, n, b)
      PROVE  Keeps(w)
  BY <1>1 DEF Create, Keeps, TypeOK, Goto, Idle, Call, Ops, Row
<1>2. CASE InsertUser(w)
  BY <1>2 DEF InsertUser, Keeps, TypeOK, Goto, Idle, Call, Ops
<1>3. CASE PublishCreated(w)
  BY <1>3 DEF PublishCreated, Keeps, TypeOK, Goto, Return, Held, At
<1>4. ASSUME NEW u \in Users, GetByID(w, u) PROVE Keeps(w)
  BY <1>4 DEF GetByID, Keeps, TypeOK, Goto, Idle, Call, Ops
<1>5. ASSUME NEW u \in Users, NEW n \in Names, Update(w, u, n)
      PROVE  Keeps(w)
  <2>1. [rows[u] EXCEPT !.name = n] \in Row
    BY DEF TypeOK, Row
  <2> QED BY <1>5, <2>1 DEF Update, Keeps, TypeOK, Goto, Idle, Call, Ops
<1>6. ASSUME NEW u \in Users, Delete(w, u) PROVE Keeps(w)
  BY <1>6 DEF Delete, Keeps, TypeOK, Goto, Idle, Call, Ops
<1>7. ASSUME NEW u \in Users, NEW input \in Inputs \cup {NoInput},
             FindSettings(w, u, input)
      PROVE  Keeps(w)
  <2>1. CASE HasSettings(u)
    <3>1. settings[u] \in Settings /\ Found(w, u, input, settings[u])
      BY <1>7, <2>1 DEF FindSettings, HasSettings, TypeOK
    <3>2. \E c \in Call : call' = [call EXCEPT ![w] = c]
      BY <3>1, FoundHolds
    <3> QED BY <1>7, <3>2 DEF FindSettings, Keeps, TypeOK
  <2>2. CASE ~HasSettings(u)
    BY <1>7, <2>2 DEF FindSettings, Keeps, TypeOK, Goto, Idle, Call, Ops
  <2> QED BY <2>1, <2>2
<1>8. CASE Load(w)
  <2>1. call[w] \in Call /\ call[w].user \in Users
    BY <1>8 DEF Load, Held, At, TypeOK
  <2>2. [call[w] EXCEPT !.op = "fill", !.row = rows[call[w].user]] \in Call
    BY <2>1 DEF Call, Ops, TypeOK
  <2>3. \E c \in Call : call' = [call EXCEPT ![w] = c]
    BY <1>8, <2>2 DEF Load, Goto, Return
  <2> QED BY <1>8, <2>3 DEF Load, Keeps, TypeOK
<1>9. CASE Fill(w)
  <2>1. call[w].user \in Users /\ call[w].row \in Row
    BY <1>9 DEF Fill, Held, At, TypeOK, Call
  <2>2. [row |-> call[w].row, left |-> TTL,
         excused |-> call[w].row # rows[call[w].user]] \in Entry
    BY <2>1, ConstantsAssumption DEF Entry
  <2> QED BY <1>9, <2>1, <2>2 DEF Fill, Keeps, TypeOK, Goto, Return
<1>10. CASE WriteUser(w)
  <2>1. call[w].user \in Users /\ call[w].row \in Row
    BY <1>10 DEF WriteUser, Held, At, TypeOK, Call
  <2>2. [Idle EXCEPT !.op = "invalidate", !.user = call[w].user] \in Call
    BY <2>1 DEF Call, Ops
  <2>3. rows' \in [Users -> Row]
    BY <1>10, <2>1 DEF WriteUser, TypeOK
  <2>4. \E c \in Call : call' = [call EXCEPT ![w] = c]
    BY <1>10, <2>2 DEF WriteUser, Goto, Return
  <2> QED BY <1>10, <2>3, <2>4 DEF WriteUser, Keeps, TypeOK
<1>11. CASE Invalidate(w)
  BY <1>11 DEF Invalidate, Keeps, TypeOK, Goto, Return
<1>12. CASE InvalidateFails(w)
  BY <1>12 DEF InvalidateFails, Keeps, TypeOK, Goto, Return, Entry
<1>13. CASE CreateSettings(w)
  <2>1. call[w].user \in Users /\ call[w].input \in Inputs \cup {NoInput}
    BY <1>13 DEF CreateSettings, Held, At, TypeOK, Call
  <2>2. \E c \in Call : call' = [call EXCEPT ![w] = c]
    <3>1. CASE Found(w, call[w].user, call[w].input, Defaults)
      BY <3>1, <2>1, FoundHolds
    <3>2. CASE \E b \in BOOLEAN :
                 call' = [call EXCEPT ![w] =
                            [call[w] EXCEPT !.op = "refind", !.fault = b]]
      BY <3>2 DEF TypeOK, Call, Ops
    <3>3. call[w] \in Call
      BY DEF TypeOK
    <3>4. [call[w] EXCEPT !.op = "refind"] =
            [call[w] EXCEPT !.op = "refind", !.fault = call[w].fault]
      BY <3>3 DEF Call
    <3> QED BY <1>13, <3>1, <3>2, <3>3, <3>4 DEF CreateSettings, Goto, Call
  <2>3. settings' \in [Users -> Settings \cup {NoSettings}]
    BY <1>13 DEF CreateSettings, TypeOK
  <2> QED BY <1>13, <2>2, <2>3 DEF CreateSettings, Keeps, TypeOK
<1>14. CASE RefindSettings(w)
  <2>1. call[w].user \in Users /\ call[w].input \in Inputs \cup {NoInput}
    BY <1>14 DEF RefindSettings, Held, At, TypeOK, Call
  <2>2. CASE HasSettings(call[w].user)
    <3>1. settings[call[w].user] \in Settings
      BY <2>1, <2>2 DEF HasSettings, TypeOK
    <3>2. \E c \in Call : call' = [call EXCEPT ![w] = c]
      BY <1>14, <2>1, <2>2, <3>1, FoundHolds DEF RefindSettings
    <3> QED BY <1>14, <3>2 DEF RefindSettings, Keeps, TypeOK
  <2>3. CASE ~HasSettings(call[w].user)
    BY <1>14, <2>1, <2>3
       DEF RefindSettings, Refuse, Return, Goto, Keeps, TypeOK, Idle, Call, Ops
  <2> QED BY <2>2, <2>3
<1>15. CASE SaveSettings(w)
  BY <1>15 DEF SaveSettings, Keeps, TypeOK, Goto, Return, Call
<1>16. CASE GiveUp(w)
  BY <1>16 DEF GiveUp, Keeps, TypeOK, Goto, Return
<1> QED BY <1>1, <1>2, <1>3, <1>4, <1>5, <1>6, <1>7, <1>8, <1>9, <1>10, <1>11,
           <1>12, <1>13, <1>14, <1>15, <1>16 DEF Acts

-----------------------------------------------------------------------------
(* How the tables develop, whoever acts: an id is used once and for all,   *)
(* an address stays with its account, settings go only with the account.   *)

Evolves ==
    \A u \in Users :
      /\ rows[u].status # "unborn" =>
           /\ rows'[u].status # "unborn"
           /\ rows'[u].status = "stored" =>
                rows[u].status = "stored" /\ rows'[u].email = rows[u].email
      /\ rows[u].status = "deleted" => rows'[u].status = "deleted"
      /\ HasSettings(u) => HasSettings(u)' \/ rows'[u].status = "deleted"

LEMMA SameTables == rows' = rows /\ settings' = settings => Evolves
BY DEF Evolves, HasSettings

LEMMA ActsEvolve ==
    ASSUME NEW w \in Workers, TypeOK, \A v \in Workers : Held(v), Acts(w)
    PROVE  Evolves
<1>1. CASE InsertUser(w)
  <2>1. PICK u \in Users : /\ rows[u].status = "unborn"
                          /\ rows' = [rows EXCEPT ![u] = call[w].row]
    BY <1>1 DEF InsertUser
  <2> QED BY <1>1, <2>1 DEF InsertUser, Evolves, HasSettings, TypeOK
<1>2. CASE WriteUser(w)
  <2>1. /\ call[w].user \in Users
        /\ call[w].row.status = "stored"
        /\ Stored(call[w].user) => call[w].row.email = rows[call[w].user].email
    BY <1>2 DEF WriteUser, Held, At
  <2> QED BY <1>2, <2>1 DEF WriteUser, Evolves, Stored, HasSettings, TypeOK
<1>3. ASSUME NEW u \in Users, Delete(w, u) PROVE Evolves
  BY <1>3 DEF Delete, Evolves, Gone, Stored, HasSettings, TypeOK
<1>4. CASE CreateSettings(w)
  <2>1. call[w].user \in Users
    BY <1>4 DEF CreateSettings, Held, At
  <2> QED BY <1>4, <2>1, Shapes
          DEF CreateSettings, Evolves, Conflicts, HasSettings, TypeOK
<1>5. CASE SaveSettings(w)
  <2>1. call[w].save # NoSettings
    BY <1>5, ConstantsAssumption DEF SaveSettings, Held, At, NoSettings
  <2> QED BY <1>5, <2>1 DEF SaveSettings, Evolves, HasSettings, TypeOK
<1>6. ASSUME rows' = rows /\ settings' = settings PROVE Evolves
  BY <1>6, SameTables
<1> QED BY <1>1, <1>2, <1>3, <1>4, <1>5, <1>6
        DEF Acts, Create, PublishCreated, GetByID, Update, FindSettings, Load,
            Fill, Invalidate, InvalidateFails, RefindSettings, GiveUp

\* A handler that does not act keeps what it holds.
LEMMA OthersHold ==
    ASSUME NEW v \in Workers, TypeOK, Held(v), Evolves, call'[v] = call[v]
    PROVE  Held(v)'
<1> DEFINE c == call[v]
<1>1. CASE c.op \in {"idle", "create"}
  BY <1>1 DEF Held
<1>2. CASE c.op \notin {"idle", "create"}
  <2>1. c.user \in Users
    BY <1>2 DEF Held
  <2> QED BY <1>2, <2>1 DEF Held, Evolves, Stored, HasSettings
<1> QED BY <1>1, <1>2

\* The acting handler's next statement finds what it needs.
LEMMA ActorHolds ==
    ASSUME NEW w \in Workers, TypeOK, \A v \in Workers : Held(v), Acts(w)
    PROVE  /\ Held(w)'
           /\ At(w, "refused")' => rows'[call'[w].user].status = "deleted"
<1> DEFINE Goal ==
      /\ Held(w)'
      /\ At(w, "refused")' => rows'[call'[w].user].status = "deleted"
<1>r. ASSUME call'[w] = Idle PROVE Goal
  BY <1>r DEF Held, At, Idle
<1>e. Evolves
  BY ActsEvolve
<1>t. call \in [Workers -> Call] /\ rows \in [Users -> Row]
  BY DEF TypeOK
<1>f. ASSUME NEW u \in Users, NEW input \in Inputs \cup {NoInput},
             NEW s \in Settings, Found(w, u, input, s),
             rows'[u].status # "unborn"
      PROVE  Goal
  <2>1. PICK c \in Call : /\ call' = [call EXCEPT ![w] = c]
                         /\ \/ c = Idle
                            \/ /\ c.op = "saveSettings" /\ c.user = u
                               /\ c.save.wake \in Wakes
    BY <1>f, FoundHolds
  <2>2. call'[w] = c
    BY <2>1, <1>t
  <2> QED BY <1>r, <1>f, <2>1, <2>2 DEF Held, At
<1>1. ASSUME NEW e \in Emails, NEW n \in Names, NEW b \in BOOLEAN,
             Create(w, e, n, b) PROVE Goal
  BY <1>1, <1>t DEF Create, Goto, Held, At, Idle
<1>2. CASE InsertUser(w)
  <2>1. PICK u \in Users : /\ rows' = [rows EXCEPT ![u] = call[w].row]
                          /\ call' = [call EXCEPT ![w] =
                                [Idle EXCEPT !.op = "announce", !.user = u]]
    BY <1>2 DEF InsertUser, Goto
  <2>2. call[w].row.status = "stored"
    BY <1>2 DEF InsertUser, Held, At
  <2> QED BY <1>t, <2>1, <2>2 DEF Held, At, Idle
<1>3. ASSUME NEW u \in Users, GetByID(w, u) PROVE Goal
  BY <1>3, <1>t DEF GetByID, Goto, Held, At, Idle
<1>4. ASSUME NEW u \in Users, NEW n \in Names, Update(w, u, n) PROVE Goal
  BY <1>4, <1>t DEF Update, Goto, Held, At, Idle, Stored, Row
<1>5. ASSUME NEW u \in Users, Delete(w, u) PROVE Goal
  BY <1>5, <1>t DEF Delete, Goto, Held, At, Idle, Gone, NoRow
<1>6. ASSUME NEW u \in Users, NEW input \in Inputs \cup {NoInput},
             FindSettings(w, u, input)
      PROVE  Goal
  <2>1. CASE HasSettings(u)
    <3>1. settings[u] \in Settings /\ Found(w, u, input, settings[u])
            /\ rows'[u].status # "unborn"
      BY <1>6, <2>1 DEF FindSettings, HasSettings, TypeOK
    <3> QED BY <3>1, <1>f
  <2>2. CASE ~HasSettings(u)
    BY <1>6, <2>2, <1>t DEF FindSettings, Goto, Held, At, Idle
  <2> QED BY <2>1, <2>2
<1>7. CASE Load(w)
  <2>1. call[w].user \in Users
    BY <1>7 DEF Load, Held, At
  <2>2. CASE Stored(call[w].user)
    <3>1. PICK c : c = [call[w] EXCEPT !.op = "fill", !.row = rows[call[w].user]]
      OBVIOUS
    <3>2. c.op = "fill" /\ c.user = call[w].user /\ c.row = rows[call[w].user]
      BY <1>t, <3>1 DEF Call
    <3>3. call'[w] = c /\ rows' = rows
      BY <1>7, <1>t, <2>2, <3>1 DEF Load, Goto
    <3> QED BY <2>1, <2>2, <3>2, <3>3 DEF Held, At, Stored
  <2>3. CASE ~Stored(call[w].user)
    BY <1>7, <2>3, <1>t, <1>r DEF Load, Goto, Return
  <2> QED BY <2>2, <2>3
<1>8. CASE WriteUser(w)
  <2>1. call[w].user \in Users /\ call[w].row.status = "stored"
    BY <1>8 DEF WriteUser, Held, At
  <2>2. CASE Stored(call[w].user)
    <3>1. PICK c : c = [Idle EXCEPT !.op = "invalidate", !.user = call[w].user]
      OBVIOUS
    <3>2. c.op = "invalidate" /\ c.user = call[w].user
      BY <3>1 DEF Idle
    <3>3. /\ call'[w] = c /\ rows' = [rows EXCEPT ![call[w].user] = call[w].row]
      BY <1>8, <1>t, <2>2, <3>1 DEF WriteUser, Goto
    <3> QED BY <1>t, <2>1, <3>2, <3>3 DEF Held, At
  <2>3. CASE ~Stored(call[w].user)
    BY <1>8, <2>3, <1>t, <1>r DEF WriteUser, Goto, Return
  <2> QED BY <2>2, <2>3
<1>9. CASE CreateSettings(w)
  <2> DEFINE u == call[w].user
  <2>1. /\ u \in Users /\ call[w].input \in Inputs \cup {NoInput}
        /\ rows[u].status # "unborn" /\ rows' = rows
    BY <1>9, <1>t DEF CreateSettings, Held, At, Call
  <2>2. CASE Found(w, u, call[w].input, Defaults)
    BY <2>1, <2>2, <1>f, Shapes
  <2>3. ASSUME Conflicts(u), settings' = settings,
               Goto(w, [call[w] EXCEPT !.op = "refind"])
        PROVE  Goal
    <3>1. HasSettings(u) \/ rows[u].status = "deleted"
      BY <2>1, <2>3, <1>t DEF Conflicts, Stored, Row
    <3> QED BY <2>1, <2>3, <3>1, <1>t DEF Goto, Held, At, HasSettings, Call
  <2>4. ASSUME Goto(w, [call[w] EXCEPT !.op = "refind", !.fault = TRUE])
        PROVE  Goal
    BY <2>1, <2>4, <1>t DEF Goto, Held, At, Call
  <2> QED BY <1>9, <2>2, <2>3, <2>4 DEF CreateSettings
<1>10. CASE RefindSettings(w)
  <2> DEFINE u == call[w].user
  <2>1. /\ u \in Users /\ call[w].input \in Inputs \cup {NoInput}
        /\ rows[u].status # "unborn" /\ rows' = rows
    BY <1>10, <1>t DEF RefindSettings, Held, At, Call
  <2>2. CASE HasSettings(u) /\ Found(w, u, call[w].input, settings[u])
    <3>1. settings[u] \in Settings
      BY <2>1, <2>2 DEF HasSettings, TypeOK
    <3> QED BY <2>1, <2>2, <3>1, <1>f
  <2>3. CASE Return(w)
    BY <2>3, <1>t, <1>r DEF Return, Goto
  <2>4. CASE ~HasSettings(u) /\ ~call[w].fault /\ Refuse(w, u)
    <3>1. rows[u].status = "deleted"
      BY <1>10, <2>4 DEF RefindSettings, Held, At
    <3> QED BY <2>1, <2>4, <3>1, <1>t DEF Refuse, Goto, Held, At, Idle
  <2> QED BY <1>10, <2>2, <2>3, <2>4 DEF RefindSettings
<1>11. ASSUME Return(w) PROVE Goal
  BY <1>11, <1>t, <1>r DEF Return, Goto
<1>12. Goal
  BY <1>1, <1>2, <1>3, <1>4, <1>5, <1>6, <1>7, <1>8, <1>9, <1>10, <1>11
     DEF Acts, PublishCreated, Fill, Invalidate, InvalidateFails,
         SaveSettings, GiveUp
<1> QED BY <1>12

-----------------------------------------------------------------------------
(* The cache.                                                              *)

Unused == \A u \in Users : rows[u].status = "unborn" => ~Cached(u)

Explained(u) == \/ cache[u].excused
                \/ \E w \in Workers : At(w, "invalidate") /\ call[w].user = u

LEMMA TickKeepsCache == IInv /\ Tick => Unused' /\ StaleIsExplained'
<1> SUFFICES ASSUME IInv, Tick, NEW u \in Users
             PROVE  /\ rows'[u].status = "unborn" => ~Cached(u)'
                    /\ Stale(u)' => Explained(u)'
  BY DEF Unused, StaleIsExplained, Explained
<1>1. cache'[u] # NoEntry =>
        /\ cache[u] # NoEntry
        /\ cache'[u].row = cache[u].row
        /\ cache'[u].excused = cache[u].excused
  BY AgedEntry DEF Tick, Cached, IInv, TypeOK
<1>2. rows' = rows /\ call' = call
  BY DEF Tick
<1> QED BY <1>1, <1>2 DEF IInv, StaleIsExplained, Explained, Stale, Cached, At

\* A step that changes neither the row nor the entry keeps the explanation,
\* unless it was the invalidation of that entry.
LEMMA UntouchedStale ==
    ASSUME IInv, NEW w \in Workers, NEW u \in Users,
           rows'[u] = rows[u], cache'[u] = cache[u],
           ~(At(w, "invalidate") /\ call[w].user = u),
           \A v \in Workers \ {w} : call'[v] = call[v]
    PROVE  Stale(u)' => Explained(u)'
BY DEF IInv, StaleIsExplained, Explained, Stale, Cached, At

LEMMA ActsKeepCache ==
    ASSUME IInv, NEW w \in Workers, Acts(w)
    PROVE  Unused' /\ StaleIsExplained'
<1> DEFINE Goal(u) ==
      /\ rows'[u].status = "unborn" => ~Cached(u)'
      /\ Stale(u)' => Explained(u)'
<1> DEFINE Same(u) == rows'[u] = rows[u] /\ cache'[u] = cache[u]
<1>t. /\ call \in [Workers -> Call] /\ rows \in [Users -> Row]
      /\ cache \in [Users -> Entry]
      /\ TypeOK /\ \A v \in Workers : Held(v)
  BY DEF IInv, TypeOK
<1>k. PICK c \in Call : call' = [call EXCEPT ![w] = c]
  BY <1>t, ActsType DEF Keeps
<1>o. call'[w] = c /\ \A v \in Workers \ {w} : call'[v] = call[v]
  BY <1>t, <1>k
<1>s. ASSUME NEW u \in Users, Same(u),
             ~(At(w, "invalidate") /\ call[w].user = u)
      PROVE  Goal(u)
  BY <1>s, <1>o, UntouchedStale DEF IInv, Cached
<1>1. ASSUME NEW u \in Users, InsertUser(w) PROVE Goal(u)
  <2>1. PICK x \in Users : /\ rows[x].status = "unborn"
                          /\ rows' = [rows EXCEPT ![x] = call[w].row]
    BY <1>1 DEF InsertUser
  <2>2. ~At(w, "invalidate") /\ cache' = cache
    BY <1>1 DEF InsertUser, At
  <2>3. CASE u = x
    BY <2>1, <2>2, <2>3 DEF IInv, Cached, Stale
  <2>4. CASE u # x
    BY <1>t, <2>1, <2>2, <2>4, <1>s
  <2> QED BY <2>3, <2>4
<1>2. ASSUME NEW u \in Users, WriteUser(w) PROVE Goal(u)
  <2>1. /\ call[w].user \in Users /\ call[w].row.status = "stored"
        /\ cache' = cache /\ ~At(w, "invalidate")
    BY <1>2, <1>t DEF WriteUser, Held, At
  <2>2. CASE Stored(call[w].user) /\ u = call[w].user
    <3>1. rows'[u].status = "stored"
      BY <1>2, <1>t, <2>1, <2>2 DEF WriteUser
    <3>2. call'[w].op = "invalidate" /\ call'[w].user = u
      <4>1. PICK d : d = [Idle EXCEPT !.op = "invalidate", !.user = u]
        OBVIOUS
      <4>2. d.op = "invalidate" /\ d.user = u
        BY <4>1 DEF Idle
      <4>3. call' = [call EXCEPT ![w] = d]
        BY <1>2, <2>2, <4>1 DEF WriteUser, Goto
      <4> QED BY <1>t, <4>2, <4>3
    <3> QED BY <3>1, <3>2 DEF Explained, At
  <2>3. CASE ~(Stored(call[w].user) /\ u = call[w].user)
    BY <1>2, <1>t, <2>1, <2>3, <1>s DEF WriteUser
  <2> QED BY <2>2, <2>3
<1>3. ASSUME NEW u \in Users, NEW x \in Users, Delete(w, x) PROVE Goal(u)
  <2>1. CASE u = x
    <3>1. rows'[u].status = "deleted"
      BY <1>3, <1>t, <2>1 DEF Delete, Gone, NoRow
    <3>2. call'[w].op = "invalidate" /\ call'[w].user = u
      BY <1>3, <1>t, <2>1 DEF Delete, Goto, Idle
    <3> QED BY <3>1, <3>2 DEF Explained, At
  <2>2. CASE u # x
    BY <1>3, <1>t, <2>2, <1>s DEF Delete, At
  <2> QED BY <2>1, <2>2
<1>4. ASSUME NEW u \in Users, Fill(w) PROVE Goal(u)
  <2>1. call[w].user \in Users /\ rows[call[w].user].status # "unborn"
    BY <1>4, <1>t DEF Fill, Held, At
  <2>2. CASE u = call[w].user
    <3>1. /\ cache'[u].row = call[w].row
          /\ cache'[u].excused = (call[w].row # rows[u])
          /\ rows' = rows
      BY <1>4, <1>t, <2>2 DEF Fill
    <3> QED BY <2>1, <2>2, <3>1 DEF Stale, Explained
  <2>3. CASE u # call[w].user
    BY <1>4, <1>t, <2>3, <1>s DEF Fill, At
  <2> QED BY <2>2, <2>3
<1>5. ASSUME NEW u \in Users, Invalidate(w) PROVE Goal(u)
  <2>1. CASE u = call[w].user
    BY <1>5, <1>t, <2>1 DEF Invalidate, Cached, Stale
  <2>2. CASE u # call[w].user
    BY <1>5, <1>t, <2>2, <1>s DEF Invalidate
  <2> QED BY <2>1, <2>2
<1>6. ASSUME NEW u \in Users, InvalidateFails(w) PROVE Goal(u)
  <2>1. CASE u = call[w].user
    <3>1. CASE Cached(u)
      <4>1. cache'[u].excused /\ rows' = rows
        BY <1>6, <1>t, <2>1, <3>1 DEF InvalidateFails, Entry
      <4> QED BY <4>1, <3>1, <1>t DEF Explained, IInv
    <3>2. CASE ~Cached(u)
      BY <1>6, <2>1, <3>2 DEF InvalidateFails, Cached, Stale
    <3> QED BY <3>1, <3>2
  <2>2. CASE u # call[w].user
    BY <1>6, <1>t, <2>2, <1>s DEF InvalidateFails
  <2> QED BY <2>1, <2>2
<1>7. ASSUME NEW u \in Users, rows' = rows, cache' = cache,
             ~At(w, "invalidate")
      PROVE  Goal(u)
  BY <1>7, <1>s
<1>8. ASSUME NEW u \in Users PROVE Goal(u)
  BY <1>1, <1>2, <1>3, <1>4, <1>5, <1>6, <1>7
     DEF Acts, Create, PublishCreated, GetByID, Update, FindSettings, Load,
         CreateSettings, RefindSettings, SaveSettings, GiveUp, At
<1> QED BY <1>8 DEF Unused, StaleIsExplained, Explained

-----------------------------------------------------------------------------
(* Registration and first access.                                          *)

\* Only InsertUser brings an address into use, and only a free one.
LEMMA ActsKeepEmails ==
    ASSUME IInv, NEW w \in Workers, Acts(w)
    PROVE  OneAccountPerEmail'
<1>t. /\ call \in [Workers -> Call] /\ rows \in [Users -> Row]
      /\ TypeOK /\ \A v \in Workers : Held(v)
      /\ OneAccountPerEmail
  BY DEF IInv, TypeOK
<1>e. Evolves
  BY <1>t, ActsEvolve
<1>v. \A u \in events' : u \in events \/ (u = call[w].user /\ At(w, "announce"))
  BY DEF Acts, Create, InsertUser, PublishCreated, GetByID, Update, Delete,
         FindSettings, Load, Fill, WriteUser, Invalidate, InvalidateFails,
         CreateSettings, RefindSettings, SaveSettings, GiveUp
<1>1. \A u \in events' : rows'[u].status # "unborn"
  BY <1>t, <1>e, <1>v DEF Evolves, OneAccountPerEmail, TypeOK, Held, At
<1>2. ASSUME NEW u \in Users, NEW v \in Users,
             Stored(u)', Stored(v)', rows'[u].email = rows'[v].email
      PROVE  u = v
  <2>1. CASE InsertUser(w)
    <3>1. PICK x \in Users : /\ rows[x].status = "unborn"
                            /\ rows' = [rows EXCEPT ![x] = call[w].row]
      BY <2>1 DEF InsertUser
    <3>2. \A y \in Users : Stored(y) => rows[y].email # call[w].row.email
      BY <2>1 DEF InsertUser, Taken
    <3> QED BY <1>2, <1>t, <3>1, <3>2 DEF OneAccountPerEmail, Stored
  <2>2. CASE ~InsertUser(w)
    <3>1. ASSUME NEW y \in Users, rows[y].status = "unborn"
          PROVE  rows'[y] = rows[y]
      BY <1>t, <2>2, <3>1
         DEF Acts, Create, PublishCreated, GetByID, Update, Delete,
             FindSettings, Load, Fill, WriteUser, Invalidate, InvalidateFails,
             CreateSettings, RefindSettings, SaveSettings, GiveUp, Stored
    <3>2. \A y \in Users : Stored(y)' =>
            Stored(y) /\ rows'[y].email = rows[y].email
      BY <1>e, <3>1 DEF Evolves, Stored
    <3> QED BY <1>2, <1>t, <3>2 DEF OneAccountPerEmail
  <2> QED BY <2>1, <2>2
<1> QED BY <1>1, <1>2 DEF OneAccountPerEmail

LEMMA ActsKeepIInv ==
    ASSUME IInv, NEW w \in Workers, Acts(w)
    PROVE  IInv'
<1>t. TypeOK /\ \A v \in Workers : Held(v)
  BY DEF IInv
<1>1. Keeps(w) /\ Evolves
  BY <1>t, ActsType, ActsEvolve
<1>2. PICK c \in Call : call' = [call EXCEPT ![w] = c]
  BY <1>1 DEF Keeps
<1>3. /\ call' \in [Workers -> Call]
      /\ \A v \in Workers \ {w} : call'[v] = call[v]
  BY <1>t, <1>2, CallMoves
<1>4. TypeOK'
  BY <1>1, <1>3 DEF Keeps, TypeOK
<1>5. ASSUME NEW v \in Workers
      PROVE  /\ Held(v)'
             /\ At(v, "refused")' => rows'[call'[v].user].status = "deleted"
  <2>1. CASE v = w
    BY <1>t, <2>1, ActorHolds
  <2>2. CASE v # w
    <3>1. call'[v] = call[v]
      BY <1>3, <2>2
    <3>2. Held(v)'
      BY <1>t, <1>1, <3>1, OthersHold
    <3>3. At(v, "refused") => call[v].user \in Users
      BY <1>t DEF Held, At
    <3>4. At(v, "refused") => rows[call[v].user].status = "deleted"
      BY DEF IInv, RefusedOnlyWhenGone
    <3> QED BY <1>1, <3>1, <3>2, <3>3, <3>4 DEF At, Evolves
  <2> QED BY <2>1, <2>2
<1>6. RefusedOnlyWhenGone'
  BY <1>5 DEF RefusedOnlyWhenGone
<1>7. Unused' /\ StaleIsExplained'
  BY ActsKeepCache
<1>8. OneAccountPerEmail'
  BY ActsKeepEmails
<1> QED BY <1>4, <1>5, <1>6, <1>7, <1>8 DEF IInv, Unused

LEMMA NextIInv == IInv /\ [Next]_vars => IInv'
<1> SUFFICES ASSUME IInv, [Next]_vars PROVE IInv'
  OBVIOUS
<1>1. CASE Tick
  <2>1. TypeOK'
    BY <1>1, TickType DEF IInv
  <2>2. rows' = rows /\ settings' = settings /\ events' = events /\ call' = call
    BY <1>1 DEF Tick
  <2>3. \A w \in Workers : Held(w)'
    BY <2>2 DEF IInv, Held, Stored, HasSettings
  <2>4. OneAccountPerEmail' /\ RefusedOnlyWhenGone'
    BY <2>2 DEF IInv, OneAccountPerEmail, RefusedOnlyWhenGone, Stored, At
  <2>5. Unused' /\ StaleIsExplained'
    BY <1>1, TickKeepsCache
  <2> QED BY <2>1, <2>3, <2>4, <2>5 DEF IInv, Unused
<1>2. ASSUME NEW w \in Workers, Acts(w) PROVE IInv'
  BY <1>2, ActsKeepIInv
<1>3. CASE UNCHANGED vars
  BY <1>3 DEF vars, IInv, TypeOK, Held, Stored, HasSettings, Cached, Stale,
              StaleIsExplained, OneAccountPerEmail, RefusedOnlyWhenGone, At
<1> QED BY <1>1, <1>2, <1>3, Steps

-----------------------------------------------------------------------------
(* The theorems.                                                           *)

\* The strengthening of the properties holds in every reachable state.
THEOREM InductiveInvariant == Spec => []IInv
<1> QED BY InitIInv, NextIInv, PTL DEF Spec

\* Every variable keeps its type, whatever the number of requests.
THEOREM TypeCorrect == Spec => []TypeOK
<1>1. IInv => TypeOK
  BY DEF IInv
<1> QED BY <1>1, InductiveInvariant, PTL

(***************************************************************************)
(* The cache is behind the table only by an invalidation that is still to  *)
(* come or was lost, or by a load that an update overtook                  *)
(* (user/service.go:105-135, cache.go:73-90).                              *)
(***************************************************************************)
THEOREM StaleExplained == Spec => []StaleIsExplained
<1>1. IInv => StaleIsExplained
  BY DEF IInv
<1> QED BY <1>1, InductiveInvariant, PTL

(***************************************************************************)
(* One account per address, and events only about accounts that were       *)
(* committed, however many registrations race (user/service.go:49-81).     *)
(***************************************************************************)
THEOREM Registration == Spec => []OneAccountPerEmail
<1>1. IInv => OneAccountPerEmail
  BY DEF IInv
<1> QED BY <1>1, InductiveInvariant, PTL

(***************************************************************************)
(* A request for settings is refused without a store error only when the   *)
(* account is gone (assistant_settings/service.go:42-48).                  *)
(***************************************************************************)
THEOREM FirstAccess == Spec => []RefusedOnlyWhenGone
<1>1. IInv => RefusedOnlyWhenGone
  BY DEF IInv
<1> QED BY <1>1, InductiveInvariant, PTL

(***************************************************************************)
(* No step puts the defaults over settings a user has saved                *)
(* (assistant_settings/service.go:34-49, :83).                             *)
(***************************************************************************)
THEOREM DefaultsKept == Spec => DefaultsNeverOverwrite
<1> DEFINE Keeping == \A u \in Users :
      HasSettings(u) /\ settings[u] # Defaults => settings'[u] # Defaults
<1>1. IInv /\ [Next]_vars => [Keeping]_vars
  <2> SUFFICES ASSUME IInv, Next, NEW u \in Users,
                      HasSettings(u), settings[u] # Defaults
               PROVE  settings'[u] # Defaults
    OBVIOUS
  <2>t. settings \in [Users -> Settings \cup {NoSettings}]
    BY DEF IInv, TypeOK
  <2>1. CASE settings' = settings
    BY <2>1
  <2>2. ASSUME NEW w \in Workers, NEW x \in Users, Delete(w, x)
        PROVE  settings'[u] # Defaults
    BY <2>2, <2>t, Shapes DEF Delete
  <2>3. ASSUME NEW w \in Workers, CreateSettings(w)
        PROVE  settings'[u] # Defaults
    BY <2>3, <2>t DEF CreateSettings, Conflicts
  <2>4. ASSUME NEW w \in Workers, SaveSettings(w)
        PROVE  settings'[u] # Defaults
    <3>1. call[w].save # Defaults
      BY <2>4, ConstantsAssumption DEF SaveSettings, IInv, Held, At, Defaults
    <3> QED BY <2>4, <2>t, <3>1 DEF SaveSettings
  <2>5. \/ settings' = settings
        \/ \E w \in Workers : \/ \E x \in Users : Delete(w, x)
                               \/ CreateSettings(w)
                               \/ SaveSettings(w)
    BY DEF Next, Tick, Create, InsertUser, PublishCreated, GetByID, Update,
           FindSettings, Load, Fill, WriteUser, Invalidate, InvalidateFails,
           RefindSettings, GiveUp
  <2> QED BY <2>1, <2>2, <2>3, <2>4, <2>5
<1> QED BY <1>1, InductiveInvariant, PTL DEF Spec, DefaultsNeverOverwrite
=============================================================================
