--------------------------- MODULE RemindersProofs ---------------------------
(***************************************************************************)
(* Proofs about Reminders, for every number of users, reminders, request   *)
(* handlers and application instances.                                     *)
(***************************************************************************)
EXTENDS Reminders, TLAPS

LEMMA NoRowType == NoRow \in Row /\ \A u \in Users : Purged(u) \in Row
<1>1. Never \in Times
  BY ConstantsAssumption DEF Times, Never
<1>2. NoRow \in Row
  BY <1>1 DEF NoRow, Row
<1>3. ASSUME NEW u \in Users PROVE Purged(u) \in Row
  BY <1>2 DEF Purged, Row
<1> QED
  BY <1>2, <1>3

LEMMA IdleType == Idle \in Call
  BY NoRowType, ConstantsAssumption DEF Idle, Call, Ops, Times, Never

LEMMA ChangedType ==
  ASSUME NEW op \in Ops, NEW row \in Row, NEW t \in Times
  PROVE  Changed(op, row, t) \in Row
  BY DEF Changed, Ops, Row, Stored

\* what a process holds after a read is a well-formed call
LEMMA HoldType ==
  ASSUME TypeOK, NEW p \in Procs, NEW op \in Ops,
         NEW u \in Users \cup {None}, NEW ids, Hold(p, op, u, ids)
  PROVE  call' \in [Procs -> Call]
<1>1. [id \in Ids |-> IF id \in ids THEN rows[id] ELSE NoRow] \in [Ids -> Row]
  BY NoRowType DEF TypeOK
<1>2. [op |-> op, user |-> u, since |-> now,
       copy |-> [id \in Ids |-> IF id \in ids THEN rows[id] ELSE NoRow]] \in Call
  BY <1>1 DEF Call, TypeOK
<1> QED
  BY <1>2 DEF Hold, TypeOK

\* a stamp a write may carry is a time
LEMMA StampType ==
  ASSUME TypeOK, NEW p \in Procs, NEW t \in call[p].since..now
  PROVE  t \in Times /\ call[p].since <= t /\ t <= now
  BY ConstantsAssumption DEF TypeOK, Call, Times, Never

LEMMA ReleaseType ==
  ASSUME TypeOK, NEW p \in Procs, NEW id \in Ids
  PROVE  Release(p, id) \in Call
<1>1. call[p] \in Call
  BY DEF TypeOK
<1>2. [call[p] EXCEPT !.copy[id] = NoRow] \in Call
  BY <1>1, NoRowType DEF Call
<1> QED
  BY <1>2, IdleType DEF Release
-----------------------------------------------------------------------------
(* Type correctness, one step per action.                                  *)

LEMMA TypeStep == TypeOK /\ [Next]_vars => TypeOK'
<1> SUFFICES ASSUME TypeOK, [Next]_vars PROVE TypeOK'
  OBVIOUS
<1>0. Workers \subseteq Procs /\ Dispatchers \subseteq Procs
  BY DEF Procs
<1>1. CASE Tick
  BY <1>1, ConstantsAssumption DEF Tick, TypeOK, Times, Never
<1>2. ASSUME NEW u \in Users, NEW m \in Messages, NEW at \in Times,
             NEW inst \in Installs \cup {None}, Create(u, inst, m, at)
      PROVE  TypeOK'
  <2>1. [NoRow EXCEPT !.status = "pending", !.kind = "time", !.owner = u,
                      !.install = inst, !.message = m, !.remindAt = at] \in Row
    BY NoRowType DEF Row, Stored
  <2> QED
    BY <1>2, <2>1 DEF Create, Insert, TypeOK
<1>3. ASSUME NEW u \in Users, CreateLocation(u) PROVE TypeOK'
  <2>1. [NoRow EXCEPT !.status = "pending", !.kind = "location",
                      !.owner = u] \in Row
    BY NoRowType DEF Row, Stored
  <2> QED
    BY <1>3, <2>1 DEF CreateLocation, Insert, TypeOK
<1>4. ASSUME NEW u \in Users, PurgeUser(u) PROVE TypeOK'
  BY <1>4, NoRowType DEF PurgeUser, TypeOK
<1>5. ASSUME NEW w \in Workers, WorkerStep(w) PROVE TypeOK'
  <2>1. ASSUME NEW u \in Users, NEW ids, NEW op \in Ops, Hold(w, op, u, ids),
               UNCHANGED <<now, rows, due, sent>>
        PROVE  TypeOK'
    BY <1>0, <2>1, HoldType DEF TypeOK
  <2> QED
    BY <1>5, <2>1 DEF WorkerStep, MarkDelivered, Cancel, MarkTriggered,
                      DeleteByMessage, CancelPendingForUserPlugin, Ops
<1>6. ASSUME NEW d \in Dispatchers, FindDue(d) PROVE TypeOK'
  BY <1>6 DEF FindDue, TypeOK
<1>7. ASSUME NEW d \in Dispatchers, NEW id \in Ids, MarkNotified(d, id)
      PROVE  TypeOK'
  <2>1. call' \in [Procs -> Call]
    BY <1>0, <1>7, HoldType DEF MarkNotified, Ops
  <2> QED
    BY <1>7, <2>1 DEF MarkNotified, TypeOK
<1>8. ASSUME NEW d \in Dispatchers, NEW id \in Ids, SkipDue(d, id)
      PROVE  TypeOK'
  BY <1>8 DEF SkipDue, TypeOK
<1>9. ASSUME NEW d \in Dispatchers, Crash(d) PROVE TypeOK'
  BY <1>9, IdleType DEF Crash, TypeOK
<1>10. ASSUME NEW p \in Procs, NEW id \in Ids, NEW t \in call[p].since..now,
              Update(p, id, t)
       PROVE  TypeOK'
  <2>1. call[p] \in Call /\ call[p].op \in Ops /\ call[p].copy[id] \in Row
    BY DEF TypeOK, Call
  <2>2. Changed(call[p].op, call[p].copy[id], t) \in Row
    BY <2>1, StampType, ChangedType
  <2>3. call' \in [Procs -> Call]
    BY <1>10, ReleaseType DEF Update, TypeOK
  <2>4. rows' \in [Ids -> Row]
    BY <1>10, <2>2 DEF Update, TypeOK
  <2>5. sent' \in [Dispatchers -> [Ids -> Nat]]
    BY <1>10 DEF Update, TypeOK
  <2> QED
    BY <1>10, <2>3, <2>4, <2>5 DEF Update, TypeOK
<1>11. ASSUME NEW p \in Procs, UpdateFails(p) PROVE TypeOK'
  BY <1>11, IdleType DEF UpdateFails, TypeOK
<1>12. CASE UNCHANGED vars
  BY <1>12 DEF vars, TypeOK
<1> QED
  BY <1>1, <1>2, <1>3, <1>4, <1>5, <1>6, <1>7, <1>8, <1>9, <1>10, <1>11,
     <1>12 DEF Next, DispatcherStep, Write

LEMMA TypeInit == Init => TypeOK
  BY NoRowType, IdleType, ConstantsAssumption DEF Init, TypeOK, Times, Never

\* every variable of the component keeps its type
THEOREM TypeCorrect == Spec => []TypeOK
  BY TypeInit, TypeStep, PTL DEF Spec
-----------------------------------------------------------------------------
(* The inductive invariant.                                                *)

\* one write keeps a row coherent when it starts from a coherent copy that
\* satisfies the guard of its operation and is not stamped after the write
LEMMA ChangedCoherent ==
  ASSUME NEW op \in Ops \ {"idle"}, NEW row \in Row, NEW t \in Times,
         row.status \in Stored, Coherent(row),
         row.notifiedAt <= t, t # Never,
         op = "notify" => /\ row.status = "pending" /\ row.kind = "time"
                          /\ row.remindAt <= t,
         op = "deliver" => row.status = "notified"
  PROVE  /\ Coherent(Changed(op, row, t))
         /\ Changed(op, row, t).notifiedAt <= t
         /\ Changed(op, row, t).status \in Stored \ {"pending"}
  BY ConstantsAssumption
     DEF Coherent, Changed, Ops, Row, Stored, Times, Never

\* a process that does not move keeps its copies good
LEMMA CallFrame ==
  ASSUME TypeOK, now' \in Times, NEW p \in Procs, CallOK(p),
         call'[p] = call[p], now <= now',
         p \in Dispatchers => sent'[p] = sent[p],
         \A id \in Ids : rows[id].status # "unborn" =>
                            rows'[id].status # "unborn"
  PROVE  CallOK(p)'
<1>1. call[p].since \in Nat /\ now \in Nat /\ now' \in Nat
  BY ConstantsAssumption DEF TypeOK, Call, Times, Never
<1>2. call'[p].since <= now'
  BY <1>1 DEF CallOK
<1>3. ASSUME NEW id \in Held(p)' PROVE CopyOK(p, id)'
  <2>1. id \in Held(p) /\ CopyOK(p, id)
    BY <1>3 DEF CallOK, Held
  <2>2. call[p].op = "notify" => p \in Dispatchers
    BY DEF CallOK
  <2> QED
    BY <2>1, <2>2 DEF CopyOK, Held
<1> QED
  BY <1>2, <1>3 DEF CallOK, Held

\* a process with nothing in hand is fine
LEMMA IdleOK ==
  ASSUME now' \in Times, NEW p \in Procs, call'[p] = Idle
  PROVE  CallOK(p)'
<1>1. Held(p)' = {}
  BY DEF Held, Idle, NoRow
<1> QED
  BY <1>1, ConstantsAssumption DEF CallOK, Idle, Times, Never

\* a read that has passed the checks of its operation
LEMMA HoldOK ==
  ASSUME IInv, NEW p \in Procs, NEW op \in Ops \ {"idle"},
         NEW u \in Users \cup {None}, NEW ids, Hold(p, op, u, ids),
         UNCHANGED <<now, rows, sent>>,
         \A id \in Ids : id \in ids => Exists(id),
         IF p \in Dispatchers THEN op = "notify" ELSE op # "notify",
         op = "notify" =>
            \A id \in Ids : id \in ids => IsDue(rows[id]) /\ sent[p][id] = 0,
         op = "deliver" =>
            \A id \in Ids : id \in ids => rows[id].status = "notified"
  PROVE  \A q \in Procs : CallOK(q)'
<1> DEFINE new == [op |-> op, user |-> u, since |-> now,
                   copy |-> [id \in Ids |-> IF id \in ids THEN rows[id]
                                                          ELSE NoRow]]
<1>1. TypeOK /\ now \in Nat /\ now # Never
  BY ConstantsAssumption DEF IInv, TypeOK, Times, Never
<1>2. call' = [call EXCEPT ![p] = new]
  BY DEF Hold
<1>3. call'[p] = new /\ \A q \in Procs \ {p} : call'[q] = call[q]
  BY <1>1, <1>2 DEF TypeOK
<1>4. ASSUME NEW id \in Held(p)'
      PROVE  CopyOK(p, id)'
  <2>1. id \in Ids /\ id \in ids /\ call'[p].copy[id] = rows[id]
    BY <1>3, <1>4 DEF Held, NoRow
  <2>2. rows[id].status \in Stored /\ rows[id].status # "unborn"
    BY <2>1 DEF Exists, Stored
  <2>3. Coherent(rows[id]) /\ rows[id].notifiedAt <= now
    BY <2>1 DEF IInv, RowsCoherent
  <2>4. call'[p].op = op /\ call'[p].since = now
    BY <1>3
  <2> QED
    BY <2>1, <2>2, <2>3, <2>4 DEF CopyOK, IsDue
<1>5. CallOK(p)'
  BY <1>1, <1>3, <1>4 DEF CallOK
<1>6. ASSUME NEW q \in Procs \ {p} PROVE CallOK(q)'
  BY <1>1, <1>3, CallFrame DEF IInv, TypeOK
<1> QED
  BY <1>5, <1>6
LEMMA InitInv == Init => IInv
<1> SUFFICES ASSUME Init PROVE IInv
  OBVIOUS
<1>1. \A id \in Ids : Coherent(rows[id]) /\ rows[id].notifiedAt <= now
  BY DEF Init, Coherent, NoRow, Never
<1>2. \A p \in Procs : CallOK(p)
  BY DEF Init, CallOK, Held, Idle, NoRow, Never
<1>3. \A d \in Dispatchers : DueOK(d) /\ SentOK(d)
  BY DEF Init, DueOK, SentOK
<1> QED
  BY <1>1, <1>2, <1>3, TypeInit DEF IInv, RowsCoherent, Init, Never

\* the clock: what was due or stamped stays so
LEMMA TickInv == ASSUME IInv, TypeOK', Tick PROVE IInv'
<1>1. now \in Nat /\ now' = now + 1 /\ now' \in Times
  BY ConstantsAssumption DEF IInv, TypeOK, Tick, Times, Never
<1>2. \A p \in Procs : CallOK(p)'
  BY <1>1, CallFrame DEF IInv, Tick
<1>3. \A id \in Ids : rows[id].notifiedAt \in Nat /\ rows[id].remindAt \in Nat
  BY ConstantsAssumption DEF IInv, TypeOK, Row, Times, Never
<1>4. \A d \in Dispatchers : DueOK(d)'
  BY <1>1, <1>3 DEF IInv, TypeOK, DueOK, IsDue, Tick
<1>5. \A d \in Dispatchers : SentOK(d)'
  BY DEF IInv, SentOK, Tick
<1>6. RowsCoherent' /\ \A id \in Ids : rows'[id].notifiedAt <= now'
  BY <1>1, <1>3 DEF IInv, RowsCoherent, Tick
<1> QED
  BY <1>1, <1>2, <1>4, <1>5, <1>6 DEF IInv, Never

\* steps that add rows or remove an account's rows, and touch nothing else:
\* a row that exists is left alone or purged, a new one has no stamps
LEMMA RowsInv ==
  ASSUME IInv, TypeOK', UNCHANGED <<now, call, due, sent>>,
         \A id \in Ids :
            \/ rows'[id] = rows[id]
            \/ /\ rows[id].status = "unborn"
               /\ Coherent(rows'[id]) /\ rows'[id].notifiedAt = Never
               /\ rows'[id].status = "pending"
            \/ \E u \in Users : rows'[id] = Purged(u)
  PROVE  IInv'
<1>1. TypeOK /\ now \in Nat /\ now' \in Times
  BY ConstantsAssumption DEF IInv, TypeOK, Times, Never
<1>2. \A u \in Users : /\ Purged(u).status = "purged" /\ Coherent(Purged(u))
                       /\ Purged(u).notifiedAt = Never
  BY DEF Purged, NoRow, Coherent, Never
<1>3. \A id \in Ids : rows[id].status # "unborn" =>
                         rows'[id] = rows[id] \/ rows'[id].status = "purged"
  BY <1>2
<1>4. \A p \in Procs : CallOK(p)'
  BY <1>1, <1>3, CallFrame DEF IInv
<1>5. \A d \in Dispatchers : DueOK(d)'
  BY <1>1, <1>3 DEF IInv, TypeOK, DueOK, IsDue
<1>6. \A d \in Dispatchers : SentOK(d)'
  <2> SUFFICES ASSUME NEW d \in Dispatchers, NEW id \in Ids
               PROVE  /\ sent[d][id] <= 1
                      /\ sent[d][id] # 0 =>
                            rows'[id].status \notin {"unborn", "pending"}
    BY DEF SentOK
  <2> QED
    BY <1>3 DEF IInv, SentOK
<1>7. RowsCoherent' /\ \A id \in Ids : rows'[id].notifiedAt <= now'
  BY <1>1, <1>2 DEF IInv, RowsCoherent, Never
<1> QED
  BY <1>1, <1>4, <1>5, <1>6, <1>7 DEF IInv

\* a handler's read
LEMMA WorkerInv ==
  ASSUME IInv, TypeOK', NEW w \in Workers, WorkerStep(w) PROVE IInv'
<1>1. w \in Procs /\ w \notin Dispatchers
  BY ConstantsAssumption DEF Procs
<1>2. ASSUME NEW u \in Users, NEW op \in {"deliver", "cancel", "trigger"},
             NEW ids, Hold(w, op, u, ids), UNCHANGED <<now, rows, due, sent>>,
             \A id \in Ids : id \in ids => Exists(id),
             op = "deliver" =>
                \A id \in Ids : id \in ids => rows[id].status = "notified"
      PROVE  IInv'
  <2>1. \A p \in Procs : CallOK(p)'
    BY <1>1, <1>2, HoldOK DEF Ops
  <2> QED
    BY <1>2, <2>1 DEF IInv, RowsCoherent, DueOK, SentOK, IsDue
<1>3. ASSUME NEW u \in Users, NEW id \in Ids, MarkDelivered(w, u, id)
      PROVE  IInv'
  BY <1>2, <1>3 DEF MarkDelivered, Owned
<1>4. ASSUME NEW u \in Users, NEW id \in Ids, Cancel(w, u, id) PROVE IInv'
  BY <1>2, <1>4 DEF Cancel, Owned
<1>5. ASSUME NEW u \in Users, NEW id \in Ids, MarkTriggered(w, u, id)
      PROVE  IInv'
  BY <1>2, <1>5 DEF MarkTriggered, Owned
<1>6. ASSUME NEW u \in Users, NEW query, DeleteByMessage(w, u, query)
      PROVE  IInv'
  BY <1>2, <1>6 DEF DeleteByMessage, PendingTime, Owned
<1>7. ASSUME NEW u \in Users, NEW inst, CancelPendingForUserPlugin(w, u, inst)
      PROVE  IInv'
  BY <1>2, <1>7 DEF CancelPendingForUserPlugin, PendingTime, Owned
<1> QED
  BY <1>3, <1>4, <1>5, <1>6, <1>7 DEF WorkerStep
\* the dispatcher's query, its reads and its restarts
LEMMA DispatcherInv ==
  ASSUME IInv, TypeOK', NEW d \in Dispatchers, DispatcherStep(d) PROVE IInv'
<1>0. now' = now
  BY DEF DispatcherStep, FindDue, MarkNotified, SkipDue, Crash
<1>1. d \in Procs /\ TypeOK /\ now' \in Times /\ now <= now'
  BY <1>0, ConstantsAssumption DEF Procs, IInv, TypeOK, Times, Never
<1>2. CASE FindDue(d)
  <2>1. \A p \in Procs : CallOK(p)'
    BY <1>1, <1>2, CallFrame DEF IInv, FindDue
  <2>2. \A e \in Dispatchers : DueOK(e)'
    BY <1>1, <1>2 DEF IInv, TypeOK, FindDue, DueOK, IsDue
  <2> QED
    BY <1>2, <2>1, <2>2 DEF IInv, FindDue, RowsCoherent, SentOK
<1>3. ASSUME NEW id \in Ids, MarkNotified(d, id) PROVE IInv'
  <2>1. IsDue(rows[id]) /\ Exists(id) /\ sent[d][id] = 0
    BY <1>3 DEF IInv, MarkNotified, DueOK, SentOK, Exists, Stored
  <2>2. \A p \in Procs : CallOK(p)'
    BY <1>1, <1>3, <2>1, HoldOK DEF MarkNotified, Ops
  <2>3. \A e \in Dispatchers : DueOK(e)'
    BY <1>1, <1>3 DEF IInv, TypeOK, MarkNotified, DueOK, IsDue
  <2> QED
    BY <1>3, <2>2, <2>3 DEF IInv, MarkNotified, RowsCoherent, SentOK
<1>4. ASSUME NEW id \in Ids, SkipDue(d, id) PROVE IInv'
  <2>1. \A p \in Procs : CallOK(p)'
    BY <1>1, <1>4, CallFrame DEF IInv, SkipDue
  <2>2. \A e \in Dispatchers : DueOK(e)'
    BY <1>1, <1>4 DEF IInv, TypeOK, SkipDue, DueOK, IsDue
  <2> QED
    BY <1>4, <2>1, <2>2 DEF IInv, SkipDue, RowsCoherent, SentOK
<1>5. CASE Crash(d)
  <2>1. \A p \in Procs \ {d} : call'[p] = call[p]
    BY <1>1, <1>5 DEF Crash, TypeOK
  <2>2. \A p \in Procs \ {d} : CallOK(p)'
    BY <1>1, <1>5, <2>1, CallFrame DEF IInv, Crash
  <2>3. CallOK(d)'
    BY <1>1, <1>5, IdleOK DEF Crash, TypeOK
  <2>4. \A e \in Dispatchers : DueOK(e)'
    BY <1>1, <1>5 DEF IInv, TypeOK, Crash, DueOK, IsDue
  <2> QED
    BY <1>5, <2>2, <2>3, <2>4 DEF IInv, Crash, RowsCoherent, SentOK
<1> QED
  BY <1>2, <1>3, <1>4, <1>5 DEF DispatcherStep

\* a whole-row write, whoever makes it and however old its copy is
LEMMA UpdateInv ==
  ASSUME IInv, TypeOK', NEW p \in Procs, NEW id \in Ids,
         NEW t \in call[p].since..now, Update(p, id, t)
  PROVE  IInv'
<1> DEFINE c == call[p].copy[id]
           op == call[p].op
<1>1. /\ TypeOK /\ now' = now /\ now \in Times /\ now \in Nat
      /\ call[p] \in Call /\ c \in Row /\ op \in Ops
  BY ConstantsAssumption DEF IInv, TypeOK, Call, Times, Never, Update
<1>2. t \in Times /\ call[p].since <= t /\ t <= now /\ t \in Nat
      /\ call[p].since \in Nat
  BY <1>1, StampType, ConstantsAssumption DEF Call, Times, Never
<1>3. id \in Held(p) /\ op # "idle" /\ CopyOK(p, id) /\ t # Never
  BY <1>1, <1>2 DEF IInv, CallOK, Update, Never
<1>4. c.notifiedAt \in Nat /\ c.remindAt \in Nat
  BY <1>1, ConstantsAssumption DEF Row, Times, Never
<1>5. /\ Coherent(rows'[id]) /\ rows'[id].notifiedAt <= t
      /\ rows'[id].status \in Stored \ {"pending"}
  <2>1. rows'[id] = Changed(op, c, t)
    BY <1>1 DEF Update, TypeOK
  <2>2. c.status \in Stored /\ Coherent(c) /\ c.notifiedAt <= t
    BY <1>2, <1>3, <1>4 DEF CopyOK
  <2>3. op = "notify" => /\ c.status = "pending" /\ c.kind = "time"
                         /\ c.remindAt <= t
    BY <1>2, <1>3, <1>4 DEF CopyOK
  <2>4. op = "deliver" => c.status = "notified"
    BY <1>3 DEF CopyOK
  <2> QED
    BY <1>1, <1>2, <1>3, <2>1, <2>2, <2>3, <2>4, ChangedCoherent
<1>6. \A i \in Ids \ {id} : rows'[i] = rows[i]
  BY <1>1 DEF Update, TypeOK
<1>7. rows'[id].notifiedAt \in Nat
  BY ConstantsAssumption DEF TypeOK, Row, Times, Never
<1>8. RowsCoherent' /\ \A i \in Ids : rows'[i].notifiedAt <= now'
  BY <1>1, <1>2, <1>5, <1>6, <1>7 DEF IInv, RowsCoherent
<1>9. \A i \in Ids : rows[i].status # "unborn" => rows'[i].status # "unborn"
  BY <1>5, <1>6 DEF Stored
<1>10. call'[p] = Release(p, id) /\ \A q \in Procs \ {p} : call'[q] = call[q]
  BY <1>1 DEF Update, TypeOK
<1>11. \A q \in Procs \ {p} : CallOK(q)'
  <2>1. \A q \in Procs \ {p} : q \in Dispatchers => sent'[q] = sent[q]
    BY <1>1 DEF Update, TypeOK
  <2> QED
    BY <1>1, <1>9, <1>10, <2>1, CallFrame DEF IInv
<1>12. CallOK(p)'
  <2>1. CASE Held(p) = {id}
    BY <1>1, <1>10, <2>1, IdleOK DEF Release
  <2>2. CASE Held(p) # {id}
    <3>1. call'[p] = [call[p] EXCEPT !.copy[id] = NoRow]
      BY <1>10, <2>2 DEF Release
    <3>2. /\ call'[p].op = op /\ call'[p].since = call[p].since
          /\ call'[p].copy[id] = NoRow
          /\ \A i \in Ids \ {id} : call'[p].copy[i] = call[p].copy[i]
      BY <1>1, <3>1 DEF Call
    <3>3. Held(p)' = Held(p) \ {id}
      BY <3>2 DEF Held, NoRow
    <3>4. ASSUME NEW i \in Held(p)' PROVE CopyOK(p, i)'
      <4>1. i \in Ids \ {id} /\ i \in Held(p) /\ CopyOK(p, i)
        BY <3>3, <3>4 DEF IInv, CallOK, Held
      <4>2. op = "notify" => p \in Dispatchers /\ sent'[p][i] = sent[p][i]
        BY <1>1, <4>1 DEF IInv, CallOK, Update, TypeOK
      <4> QED
        BY <1>9, <3>2, <4>1, <4>2 DEF CopyOK
    <3> QED
      BY <1>1, <1>3, <3>2, <3>4 DEF IInv, CallOK
  <2> QED
    BY <2>1, <2>2
<1>13. \A d \in Dispatchers : DueOK(d)'
  BY <1>1, <1>5, <1>6, <1>9 DEF IInv, TypeOK, DueOK, IsDue, Update
<1>14. ASSUME NEW d \in Dispatchers, NEW i \in Ids
       PROVE  /\ sent'[d][i] <= 1
              /\ sent'[d][i] # 0 =>
                    rows'[i].status \notin {"unborn", "pending"}
  <2>1. CASE d = p /\ i = id
    <3>1. op = "notify"
      BY <1>3, <2>1 DEF IInv, CallOK
    <3>2. sent[d][i] = 0 /\ sent'[d][i] = 1
      BY <1>1, <1>3, <2>1, <3>1 DEF CopyOK, Update, TypeOK
    <3> QED
      BY <1>5, <2>1, <3>2 DEF Stored
  <2>2. CASE ~(d = p /\ i = id)
    <3>1. sent'[d][i] = sent[d][i]
      BY <1>1, <2>2 DEF Update, TypeOK
    <3>2. rows'[i].status \in {"unborn", "pending"} => rows'[i] = rows[i]
      BY <1>5, <1>6 DEF Stored
    <3> QED
      BY <3>1, <3>2 DEF IInv, SentOK
  <2> QED
    BY <2>1, <2>2
<1> QED
  BY <1>1, <1>8, <1>11, <1>12, <1>13, <1>14 DEF IInv, SentOK

\* a write that fails leaves the process with nothing in hand
LEMMA FailInv ==
  ASSUME IInv, TypeOK', NEW p \in Procs, UpdateFails(p) PROVE IInv'
<1>1. TypeOK /\ now' \in Times /\ now <= now'
  BY ConstantsAssumption DEF IInv, TypeOK, Times, Never, UpdateFails
<1>2. \A q \in Procs \ {p} : call'[q] = call[q]
  BY <1>1 DEF UpdateFails, TypeOK
<1>3. \A q \in Procs \ {p} : CallOK(q)'
  BY <1>1, <1>2, CallFrame DEF IInv, UpdateFails
<1>4. CallOK(p)'
  BY <1>1, IdleOK DEF UpdateFails, TypeOK
<1> QED
  BY <1>3, <1>4 DEF IInv, UpdateFails, RowsCoherent, DueOK, SentOK, IsDue

LEMMA NextInv == IInv /\ [Next]_vars => IInv'
<1> SUFFICES ASSUME IInv, [Next]_vars PROVE IInv'
  OBVIOUS
<1>1. TypeOK'
  BY TypeStep DEF IInv
<1>2. ASSUME NEW u \in Users, NEW m, NEW at \in Times, NEW inst,
             Create(u, inst, m, at)
      PROVE  IInv'
  BY <1>1, <1>2, RowsInv
     DEF IInv, TypeOK, Create, Insert, Coherent, NoRow, Never
<1>3. ASSUME NEW u \in Users, CreateLocation(u) PROVE IInv'
  BY <1>1, <1>3, RowsInv
     DEF IInv, TypeOK, CreateLocation, Insert, Coherent, NoRow, Never
<1>4. ASSUME NEW u \in Users, PurgeUser(u) PROVE IInv'
  BY <1>1, <1>4, RowsInv DEF IInv, TypeOK, PurgeUser
<1>5. CASE UNCHANGED vars
  BY <1>5 DEF vars, IInv, TypeOK, RowsCoherent, CallOK, Held, CopyOK, DueOK,
              SentOK, IsDue
<1> QED
  BY <1>1, <1>2, <1>3, <1>4, <1>5, TickInv, WorkerInv, DispatcherInv,
     UpdateInv, FailInv DEF Next, Write

\* what the theorems below rest on
THEOREM InductiveInvariant == Spec => []IInv
  BY InitInv, NextInv, PTL DEF Spec

-----------------------------------------------------------------------------
(* The theorems.                                                           *)

\* however reads and whole-row writes interleave, the columns of a row fit
\* its status and each other
THEOREM Coherence == Spec => []RowsCoherent
<1>1. IInv => RowsCoherent
  BY DEF IInv
<1> QED
  BY <1>1, InductiveInvariant, PTL

\* an instance's dispatcher records a notification at most once
THEOREM AtMostOnce == Spec => []NotifiedAtMostOnce
<1>1. IInv => NotifiedAtMostOnce
  BY DEF IInv, SentOK, NotifiedAtMostOnce
<1> QED
  BY <1>1, InductiveInvariant, PTL
\* what a step can do to one row
LEMMA RowStep ==
  ASSUME IInv, Next, NEW id \in Ids
  PROVE  ~Rearms(id) /\ ~Resurrects(id)
<1>1. TypeOK
  BY DEF IInv
<1>2. ASSUME NEW i \in Ids, NEW row, Insert(i, row)
      PROVE  ~Rearms(id) /\ ~Resurrects(id)
  BY <1>1, <1>2 DEF Insert, TypeOK, Rearms, Resurrects
<1>3. ASSUME NEW u \in Users, PurgeUser(u)
      PROVE  ~Rearms(id) /\ ~Resurrects(id)
  BY <1>3 DEF PurgeUser, Owned, Exists, Stored, Purged, NoRow, Rearms,
              Resurrects
<1>4. ASSUME NEW p \in Procs, NEW i \in Ids, NEW t \in call[p].since..now,
             Update(p, i, t)
      PROVE  ~Rearms(id) /\ ~Resurrects(id)
  <2>1. CASE i = id
    <3>1. call[p] \in Call /\ call[p].copy[i] \in Row
      BY <1>1 DEF TypeOK, Call
    <3>2. rows'[i] = Changed(call[p].op, call[p].copy[i], t)
      BY <1>1, <1>4 DEF Update, TypeOK
    <3>3. call[p].op # "idle" /\ CopyOK(p, i)
      BY <1>4 DEF IInv, CallOK, Update
    <3>4. rows'[i].status # "pending"
      BY <3>1, <3>2, <3>3 DEF Changed, Call, Ops, Row, CopyOK
    <3>5. rows[i].status # "purged"
      BY <1>4 DEF Update, Exists, Stored
    <3> QED
      BY <2>1, <3>4, <3>5 DEF Rearms, Resurrects
  <2>2. CASE i # id
    BY <1>1, <1>4, <2>2 DEF Update, TypeOK, Rearms, Resurrects
  <2> QED
    BY <2>1, <2>2
<1>5. ASSUME UNCHANGED rows PROVE ~Rearms(id) /\ ~Resurrects(id)
  BY <1>5 DEF Rearms, Resurrects
<1>6. ASSUME NEW w \in Workers, WorkerStep(w) PROVE UNCHANGED rows
  BY <1>6 DEF WorkerStep, MarkDelivered, Cancel, MarkTriggered,
              DeleteByMessage, CancelPendingForUserPlugin
<1>7. ASSUME NEW d \in Dispatchers, DispatcherStep(d) PROVE UNCHANGED rows
  BY <1>7 DEF DispatcherStep, FindDue, MarkNotified, SkipDue, Crash
<1> QED
  BY <1>2, <1>3, <1>4, <1>5, <1>6, <1>7
     DEF Next, Write, Create, CreateLocation, Tick, UpdateFails

\* nothing a process holds re-arms a reminder that has left pending
THEOREM NeverRearmed == Spec => PendingOnlyOnce
<1>1. IInv /\ [Next]_vars => [\A id \in Ids : ~Rearms(id)]_rows
  BY RowStep DEF vars
<1> QED
  BY <1>1, InductiveInvariant, PTL DEF Spec, PendingOnlyOnce

\* nothing a process holds brings a removed reminder back
THEOREM NeverResurrected == Spec => PurgedStaysPurged
<1>1. IInv /\ [Next]_vars => [\A id \in Ids : ~Resurrects(id)]_rows
  BY RowStep DEF vars
<1> QED
  BY <1>1, InductiveInvariant, PTL DEF Spec, PurgedStaysPurged
-----------------------------------------------------------------------------
(* The promise.  What it sees of a step: the status of each reminder, and of *)
(* each process its operation and what it holds.                            *)

\* a process that does not move looks the same, and so does the whole when only
\* the clock or a batch moved
LEMMA SameHands ==
  ASSUME NEW p \in Procs, call'[p] = call[p]
  PROVE  call'[p].op = call[p].op /\ Held(p)' = Held(p)
BY DEF Held

LEMMA PromiseStutter ==
  ASSUME UNCHANGED <<rows, call, sent>> PROVE UNCHANGED Promise!vars
<1>1. \A p \in Procs : call'[p].op = call[p].op /\ Held(p)' = Held(p)
  BY SameHands
<1> QED
  BY <1>1 DEF Promise!vars

LEMMA PromiseInit == Init => Promise!Init
<1> SUFFICES ASSUME Init PROVE Promise!Init
  OBVIOUS
<1>1. \A p \in Procs : call[p].op = "idle" /\ Held(p) = {}
  BY DEF Init, Idle, Held, NoRow
<1>2. \A id \in Ids : rows[id].status = "unborn"
  BY DEF Init, NoRow
<1>3. \A d \in Dispatchers : {id \in Ids : sent[d][id] # 0} = {}
  BY DEF Init
<1> QED
  BY <1>1, <1>2, <1>3 DEF Promise!Init, Promise!Procs, Procs

\* a read that has passed its checks begins the operation
LEMMA PromiseBegins ==
  ASSUME IInv, NEW p \in Procs,
         NEW o \in {"notify", "deliver", "cancel", "trigger"},
         NEW u, NEW S \in SUBSET Ids, S # {}, Hold(p, o, u, S),
         UNCHANGED <<rows, sent>>,
         p \in Dispatchers <=> o = "notify",
         \A id \in S : /\ rows[id].status \in Stored
                        /\ rows[id].status \in Promise!Admits(o)
  PROVE  Promise!Next
<1>1. TypeOK /\ call[p] = Idle
  BY DEF IInv, Hold
<1>2. \A q \in Procs \ {p} : call'[q] = call[q]
  BY <1>1 DEF Hold, TypeOK
<1>3. /\ call'[p].op = o
      /\ \A id \in Ids :
           call'[p].copy[id] = IF id \in S THEN rows[id] ELSE NoRow
  BY <1>1 DEF Hold, TypeOK
<1>4. Held(p)' = S
  BY <1>3 DEF Held, NoRow, Stored
<1>5. \A q \in Procs \ {p} : call'[q].op = call[q].op /\ Held(q)' = Held(q)
  BY <1>2, SameHands
<1>6. call[p].op = "idle"
  BY <1>1 DEF Idle
<1>7. Promise!Begin(p, o, S)
  BY <1>3, <1>4, <1>5, <1>6 DEF Promise!Begin
<1> QED
  BY <1>7 DEF Promise!Next, Promise!Procs, Procs

\* a call that is over, whatever it still held
LEMMA PromiseGivesUp ==
  ASSUME IInv, NEW p \in Procs, call[p] # Idle,
         call' = [call EXCEPT ![p] = Idle],
         UNCHANGED <<rows, sent>>, call[p].op # "idle"
  PROVE  Promise!Next
<1>1. call'[p] = Idle /\ \A q \in Procs \ {p} : call'[q] = call[q]
  BY DEF IInv, TypeOK
<1>2. call'[p].op = "idle" /\ Held(p)' = {}
  BY <1>1 DEF Idle, Held, NoRow
<1>3. \A q \in Procs \ {p} : call'[q].op = call[q].op /\ Held(q)' = Held(q)
  BY <1>1, SameHands
<1>4. Promise!GiveUp(p)
  BY <1>2, <1>3 DEF Promise!GiveUp, Promise!Puts
<1> QED
  BY <1>4 DEF Promise!Next, Promise!Procs, Procs

LEMMA PromiseGivesUpOrNothing ==
  ASSUME IInv, NEW p \in Procs, call' = [call EXCEPT ![p] = Idle],
         UNCHANGED <<rows, sent>>
  PROVE  Promise!Next \/ UNCHANGED Promise!vars
<1>1. CASE call[p].op # "idle"
  <2>1. call[p] # Idle
    BY <1>1 DEF Idle
  <2>2. Promise!Next
    BY <1>1, <2>1, PromiseGivesUp
  <2> QED
    BY <2>2
<1>2. CASE call[p].op = "idle"
  <2>1. call'[p] = Idle /\ \A q \in Procs \ {p} : call'[q] = call[q]
    BY DEF IInv, TypeOK
  <2>2. Held(p) = {} /\ Held(p)' = {}
    BY <1>2, <2>1 DEF IInv, CallOK, Held, Idle, NoRow
  <2>3. call'[p].op = "idle"
    BY <2>1 DEF Idle
  <2>4. \A q \in Procs : call'[q].op = call[q].op /\ Held(q)' = Held(q)
    BY <1>2, <2>1, <2>2, <2>3, SameHands
  <2> QED
    BY <2>4 DEF Promise!vars
<1> QED
  BY <1>1, <1>2

\* a new row is a new pending reminder
LEMMA PromiseCreates ==
  ASSUME IInv, NEW id \in Ids, NEW row, Insert(id, row), row.status = "pending"
  PROVE  Promise!Next
<1>1. rows[id].status = "unborn"
  BY DEF Insert
<1>2. rows'[id].status = "pending" /\ \A i \in Ids \ {id} : rows'[i] = rows[i]
  BY DEF Insert, IInv, TypeOK
<1>3. \A p \in Procs : call'[p].op = call[p].op /\ Held(p)' = Held(p)
  BY SameHands DEF Insert
<1>4. sent' = sent
  BY DEF Insert
<1>5. Promise!Create(id)
  BY <1>1, <1>2, <1>3, <1>4 DEF Promise!Create
<1> QED
  BY <1>5 DEF Promise!Next

\* an account goes with all its reminders
LEMMA PromiseRemoves ==
  ASSUME IInv, NEW u \in Users, PurgeUser(u) PROVE Promise!Next
<1>0. PICK S \in SUBSET Ids : S = {id \in Ids : Owned(u, id)}
  OBVIOUS
<1>1. \A id \in S : rows[id].status \in Stored
  BY <1>0 DEF Owned, Exists
<1>2. \A id \in Ids :
        rows'[id].status = IF id \in S THEN "purged" ELSE rows[id].status
  BY <1>0 DEF PurgeUser, Purged, NoRow
<1>3. \A p \in Procs : call'[p].op = call[p].op /\ Held(p)' = Held(p)
  BY SameHands DEF PurgeUser
<1>4. sent' = sent
  BY DEF PurgeUser
<1>5. Promise!Remove(S)
  BY <1>1, <1>2, <1>3, <1>4 DEF Promise!Remove, Promise!Stored, Stored
<1> QED
  BY <1>5 DEF Promise!Next

\* a handler's read
LEMMA PromiseServes ==
  ASSUME IInv, NEW w \in Workers, WorkerStep(w) PROVE Promise!Next
<1>1. w \in Procs /\ w \notin Dispatchers
  BY ConstantsAssumption DEF Procs
<1>2. ASSUME NEW u, NEW o \in {"deliver", "cancel", "trigger"},
             NEW S \in SUBSET Ids, S # {}, Hold(w, o, u, S),
             UNCHANGED <<now, rows, due, sent>>,
             \A id \in S : Exists(id) /\ rows[id].status \in Promise!Admits(o)
      PROVE  Promise!Next
  BY <1>1, <1>2, PromiseBegins DEF Exists
<1>3. ASSUME NEW u \in Users, NEW id \in Ids, MarkDelivered(w, u, id)
      PROVE  Promise!Next
  BY <1>2, <1>3 DEF MarkDelivered, Owned, Promise!Admits
<1>4. ASSUME NEW u \in Users, NEW id \in Ids, Cancel(w, u, id)
      PROVE  Promise!Next
  BY <1>2, <1>4
     DEF Cancel, Owned, Exists, Promise!Admits, Promise!Stored, Stored
<1>5. ASSUME NEW u \in Users, NEW id \in Ids, MarkTriggered(w, u, id)
      PROVE  Promise!Next
  BY <1>2, <1>5
     DEF MarkTriggered, Owned, Exists, Promise!Admits, Promise!Stored, Stored
<1>6. ASSUME NEW u \in Users, NEW S \in SUBSET PendingTime(u), S # {},
             Hold(w, "cancel", u, S), UNCHANGED <<now, rows, due, sent>>
      PROVE  Promise!Next
  <2>1. \A id \in S : id \in Ids /\ Exists(id) /\ rows[id].status = "pending"
    BY <1>6 DEF PendingTime, Owned
  <2>2. "pending" \in Promise!Admits("cancel")
    BY DEF Promise!Admits, Promise!Stored
  <2> QED
    BY <1>2, <1>6, <2>1, <2>2
<1>7. ASSUME NEW u \in Users, NEW query, DeleteByMessage(w, u, query)
      PROVE  Promise!Next
  BY <1>6, <1>7 DEF DeleteByMessage
<1>8. ASSUME NEW u \in Users, NEW inst, CancelPendingForUserPlugin(w, u, inst)
      PROVE  Promise!Next
  BY <1>6, <1>8 DEF CancelPendingForUserPlugin
<1> QED
  BY <1>3, <1>4, <1>5, <1>7, <1>8 DEF WorkerStep

LEMMA PromiseDispatches ==
  ASSUME IInv, NEW d \in Dispatchers, DispatcherStep(d)
  PROVE  Promise!Next \/ UNCHANGED Promise!vars
<1>1. d \in Procs
  BY DEF Procs
<1>2. ASSUME NEW id \in Ids, MarkNotified(d, id) PROVE Promise!Next
  <2>1. Hold(d, "notify", None, {id}) /\ rows[id].status = "pending"
    BY <1>2 DEF MarkNotified
  <2>2. /\ rows[id].status \in Stored
        /\ rows[id].status \in Promise!Admits("notify")
    BY <2>1 DEF Stored, Promise!Admits
  <2>3. UNCHANGED <<rows, sent>>
    BY <1>2 DEF MarkNotified
  <2> QED
    BY <1>1, <2>1, <2>2, <2>3, PromiseBegins
<1>3. CASE Crash(d)
  BY <1>1, <1>3, PromiseGivesUpOrNothing DEF Crash
<1>4. ASSUME FindDue(d) \/ \E id \in Ids : SkipDue(d, id)
      PROVE  UNCHANGED Promise!vars
  BY <1>4, PromiseStutter DEF FindDue, SkipDue
<1> QED
  BY <1>2, <1>3, <1>4 DEF DispatcherStep

\* a write is the effect of its operation on a reminder that still exists: the
\* copy may be stale, the status it puts is not
LEMMA PromiseTakesEffect ==
  ASSUME IInv, NEW p \in Procs, NEW id \in Ids,
         NEW t \in call[p].since..now, Update(p, id, t)
  PROVE  Promise!Next
<1> DEFINE c == call[p].copy[id]
           o == call[p].op
           Told(d) == {i \in Ids : sent[d][i] # 0}
<1>1. TypeOK /\ call[p] \in Call /\ c \in Row /\ o \in Ops
  BY DEF IInv, TypeOK, Call
<1>2. /\ id \in Held(p) /\ o # "idle" /\ CopyOK(p, id)
      /\ rows[id].status \in Stored
  BY DEF IInv, CallOK, Update, Exists
<1>3. rows'[id] = Changed(o, c, t) /\ \A i \in Ids \ {id} : rows'[i] = rows[i]
  BY <1>1 DEF Update, TypeOK
<1>4. Changed(o, c, t).status = Promise!Effect(o)
  <2>1. o = "deliver" => c.status = "notified"
    BY <1>2 DEF CopyOK
  <2> QED
    BY <1>1, <1>2, <2>1 DEF Changed, Promise!Effect, Ops, Row
<1>5. \A i \in Ids :
        rows'[i].status = IF i = id THEN Promise!Effect(o) ELSE rows[i].status
  BY <1>3, <1>4
<1>6. call'[p] = Release(p, id) /\ \A q \in Procs \ {p} : call'[q] = call[q]
  BY <1>1 DEF Update, TypeOK
<1>7. /\ Held(p)' = Held(p) \ {id}
      /\ call'[p].op = IF Held(p) \ {id} = {} THEN "idle" ELSE o
  <2>1. CASE Held(p) = {id}
    BY <1>6, <2>1 DEF Release, Held, Idle, NoRow
  <2>2. CASE Held(p) # {id}
    <3>1. call'[p] = [call[p] EXCEPT !.copy[id] = NoRow]
      BY <1>6, <2>2 DEF Release
    <3>2. /\ call'[p].op = o /\ call'[p].copy[id] = NoRow
          /\ \A i \in Ids \ {id} : call'[p].copy[i] = call[p].copy[i]
      BY <1>1, <3>1 DEF Call
    <3>3. Held(p)' = Held(p) \ {id}
      BY <3>2 DEF Held, NoRow
    <3>4. Held(p) \ {id} # {}
      BY <1>2, <2>2
    <3> QED
      BY <3>2, <3>3, <3>4
  <2> QED
    BY <2>1, <2>2
<1>8. \A q \in Procs \ {p} : call'[q].op = call[q].op /\ Held(q)' = Held(q)
  BY <1>6, SameHands
<1>9. /\ [i \in Ids |-> rows[i].status]'
        = [[i \in Ids |-> rows[i].status]
             EXCEPT ![id] = Promise!Effect([q \in Procs |-> call[q].op][p])]
      /\ Promise!Puts(p, [q \in Procs |-> Held(q)][p] \ {id})
      /\ id \in [q \in Procs |-> Held(q)][p]
      /\ [i \in Ids |-> rows[i].status][id] \in Promise!Stored
  <2>0. /\ [q \in Procs |-> Held(q)][p] = Held(p)
        /\ [q \in Procs |-> call[q].op][p] = o
    OBVIOUS
  <2>1. [q \in Procs |-> Held(q)]'
          = [[q \in Procs |-> Held(q)] EXCEPT ![p] = Held(p) \ {id}]
    BY <1>7, <1>8
  <2>2. [q \in Procs |-> call[q].op]'
          = IF Held(p) \ {id} = {}
            THEN [[q \in Procs |-> call[q].op] EXCEPT ![p] = "idle"]
            ELSE [q \in Procs |-> call[q].op]
    BY <1>7, <1>8
  <2> QED
    BY <1>2, <1>5, <2>0, <2>1, <2>2 DEF Promise!Puts, Promise!Stored, Stored
<1>10. CASE p \in Dispatchers
  <2>1. sent[p][id] = 0
    BY <1>2, <1>10 DEF CopyOK, IInv, CallOK
  <2>2. sent' = [sent EXCEPT ![p][id] = @ + 1]
    BY <1>10 DEF Update
  <2>3. /\ sent'[p][id] = 1
        /\ \A i \in Ids \ {id} : sent'[p][i] = sent[p][i]
        /\ \A d \in Dispatchers \ {p} : sent'[d] = sent[d]
    BY <1>1, <1>10, <2>1, <2>2 DEF TypeOK
  <2>4. /\ id \notin Told(p) /\ Told(p)' = Told(p) \cup {id}
        /\ \A d \in Dispatchers \ {p} : Told(d)' = Told(d)
    BY <2>1, <2>3
  <2>5. [d \in Dispatchers |-> Told(d)]'
          = [[d \in Dispatchers |-> Told(d)] EXCEPT ![p] = @ \cup {id}]
    BY <1>10, <2>4
  <2>6. Promise!TakeEffect(p, id)
    BY <1>9, <1>10, <2>4, <2>5 DEF Promise!TakeEffect, Promise!Puts
  <2> QED
    BY <2>6 DEF Promise!Next, Promise!Procs, Procs
<1>11. CASE p \notin Dispatchers
  <2>1. sent' = sent
    BY <1>11 DEF Update
  <2>2. Promise!TakeEffect(p, id)
    BY <1>9, <1>11, <2>1 DEF Promise!TakeEffect, Promise!Puts
  <2> QED
    BY <2>2 DEF Promise!Next, Promise!Procs, Procs
<1> QED
  BY <1>10, <1>11

LEMMA PromiseStep ==
  IInv /\ [Next]_vars => Promise!Next \/ UNCHANGED Promise!vars
<1> SUFFICES ASSUME IInv, [Next]_vars
             PROVE  Promise!Next \/ UNCHANGED Promise!vars
  OBVIOUS
<1>1. CASE Tick \/ UNCHANGED vars
  BY <1>1, PromiseStutter DEF Tick, vars
<1>2. ASSUME NEW u, NEW m, NEW at, NEW inst, Create(u, inst, m, at)
      PROVE  Promise!Next
  <2>1. PICK id \in Ids :
          Insert(id, [NoRow EXCEPT !.status = "pending", !.kind = "time",
                                   !.owner = u, !.install = inst,
                                   !.message = m, !.remindAt = at])
    BY <1>2 DEF Create
  <2> QED
    BY <2>1, PromiseCreates DEF NoRow
<1>3. ASSUME NEW u, CreateLocation(u) PROVE Promise!Next
  <2>1. PICK id \in Ids :
          Insert(id, [NoRow EXCEPT !.status = "pending", !.kind = "location",
                                   !.owner = u])
    BY <1>3 DEF CreateLocation
  <2> QED
    BY <2>1, PromiseCreates DEF NoRow
<1>4. ASSUME NEW p \in Procs, UpdateFails(p)
      PROVE  Promise!Next \/ UNCHANGED Promise!vars
  BY <1>4, PromiseGivesUpOrNothing DEF UpdateFails
<1> QED
  BY <1>1, <1>2, <1>3, <1>4, PromiseRemoves, PromiseServes, PromiseDispatches,
     PromiseTakesEffect DEF Next, Write

\* whole-row writes of stale copies show nothing outside but what the promise
\* allows, for every number of instances and request handlers
THEOREM RemindersImplement == Spec => ImplementsPromise
<1>1. IInv /\ [Next]_vars => [Promise!Next]_(Promise!vars)
  BY PromiseStep
<1> QED
  BY <1>1, PromiseInit, InductiveInvariant, PTL
     DEF Spec, ImplementsPromise, Promise!Spec
=============================================================================
