------------------------------ MODULE Reminders ------------------------------
(***************************************************************************)
(* The reminder component: the rows of the reminders table, the request    *)
(* handlers that change them (src/internal/domain/reminder/service.go) and *)
(* the scheduled dispatcher of every application instance                  *)
(* (dispatcher.go).                                                        *)
(*                                                                         *)
(* Every mutating operation of the service is a read of one or more rows,  *)
(* a check of the copies it got, and a write of each whole row back by id. *)
(* Nothing locks the row or compares a version, so a read and its write    *)
(* are separate steps here and other processes may act in between.         *)
(*                                                                         *)
(* A row is always a record; status "unborn" stands for an id no row has   *)
(* used yet and "purged" for a row that was removed.  Times are whole      *)
(* numbers from 1; Never (0) is the nil pointer.                           *)
(***************************************************************************)
EXTENDS Naturals, FiniteSets

CONSTANTS
    Users,        \* accounts
    Installs,     \* ids of user_plugins rows a reminder may point to
    Messages,     \* reminder messages; a query matches a set of them
    Ids,          \* reminder ids; a uuid is never given out twice
    Workers,      \* goroutines serving requests, in any instance
    Dispatchers,  \* one "reminder-dispatch" loop per application instance
    MaxTime,      \* bound of the clock
    None          \* the nil pointer / empty string

ASSUME ConstantsAssumption ==
    /\ MaxTime \in Nat \ {0}
    /\ None \notin Users \cup Installs \cup Messages
    /\ Workers \cap Dispatchers = {}

VARIABLES
    now,    \* the clock all instances share
    rows,   \* the reminders table
    call,   \* what each process is between a read and its writes
    due,    \* what is left of each dispatcher's current batch
    sent    \* history: notifications each dispatcher recorded, per reminder

vars == <<now, rows, call, due, sent>>

Procs == Workers \cup Dispatchers

Never == 0
Times == Never..MaxTime

Stored == {"pending", "notified", "triggered", "cancelled"}

Row == [status : Stored \cup {"unborn", "purged"},
        kind : {"time", "location"},
        owner : Users \cup {None},
        install : Installs \cup {None},
        message : Messages \cup {None},
        remindAt : Times,
        notifiedAt : Times,
        deliveredAt : Times,
        triggeredAt : Times]

NoRow == [status |-> "unborn", kind |-> "time", owner |-> None,
          install |-> None, message |-> None, remindAt |-> Never,
          notifiedAt |-> Never, deliveredAt |-> Never, triggeredAt |-> Never]

\* the owner is kept to remember that the account is gone
Purged(u) == [NoRow EXCEPT !.status = "purged", !.owner = u]

\* reminders.user_id references users: a deleted account takes no new rows
AccountGone(u) ==
    \E id \in Ids : rows[id].status = "purged" /\ rows[id].owner = u

Ops == {"idle", "notify", "deliver", "cancel", "trigger"}

(***************************************************************************)
(* copy[id] is the row as the process read it, NoRow if it holds none.     *)
(* Its update may carry any time stamp from since, when it read, to now.   *)
(***************************************************************************)
Call == [op : Ops, user : Users \cup {None}, since : Times,
         copy : [Ids -> Row]]

Idle == [op |-> "idle", user |-> None, since |-> Never,
         copy |-> [id \in Ids |-> NoRow]]

Held(p) == {id \in Ids : call[p].copy[id].status # "unborn"}

Exists(id) == rows[id].status \in Stored

Init ==
    /\ now = 1
    /\ rows = [id \in Ids |-> NoRow]
    /\ call = [p \in Procs |-> Idle]
    /\ due = [d \in Dispatchers |-> {}]
    /\ sent = [d \in Dispatchers |-> [id \in Ids |-> 0]]

Tick ==
    /\ now < MaxTime
    /\ now' = now + 1
    /\ UNCHANGED <<rows, call, due, sent>>

-----------------------------------------------------------------------------
(* Creation.  One INSERT of a fresh id; a validation failure or a store    *)
(* error leaves the table alone.                                           *)

Insert(id, row) ==
    /\ rows[id].status = "unborn"
    /\ rows' = [rows EXCEPT ![id] = row]
    /\ UNCHANGED <<now, call, due, sent>>

Create(u, inst, m, at) ==
    /\ at > now
    /\ ~AccountGone(u)
    /\ \E id \in Ids :
         Insert(id, [NoRow EXCEPT !.status = "pending", !.kind = "time",
                                  !.owner = u, !.install = inst,
                                  !.message = m, !.remindAt = at])

CreateLocation(u) ==
    /\ ~AccountGone(u)
    /\ \E id \in Ids :
         Insert(id, [NoRow EXCEPT !.status = "pending", !.kind = "location",
                                  !.owner = u])

-----------------------------------------------------------------------------
(* Reads.  Hold is what is left in the goroutine's variables when a read    *)
(* has passed the operation's checks; every other outcome (not found, not   *)
(* owned, wrong status, already done, ambiguous, store error) returns       *)
(* without touching the table and so is no step.                           *)

Hold(p, op, u, ids) ==
    /\ call[p] = Idle
    /\ call' = [call EXCEPT ![p] =
                  [op |-> op, user |-> u, since |-> now,
                   copy |-> [id \in Ids |-> IF id \in ids THEN rows[id]
                                                          ELSE NoRow]]]

Owned(u, id) == Exists(id) /\ rows[id].owner = u

\* mutant: the acknowledgement does not ask for a notified reminder
MarkDeliveredAnyStatus(w, u, id) ==
    /\ Owned(u, id)
    /\ Hold(w, "deliver", u, {id})
    /\ UNCHANGED <<now, rows, due, sent>>

MarkDelivered(w, u, id) ==
    /\ Owned(u, id)
    /\ rows[id].status = "notified"
    /\ Hold(w, "deliver", u, {id})
    /\ UNCHANGED <<now, rows, due, sent>>

Cancel(w, u, id) ==
    /\ Owned(u, id)
    /\ rows[id].status # "cancelled"
    /\ Hold(w, "cancel", u, {id})
    /\ UNCHANGED <<now, rows, due, sent>>

MarkTriggered(w, u, id) ==
    /\ Owned(u, id)
    /\ rows[id].status # "triggered"
    /\ Hold(w, "trigger", u, {id})
    /\ UNCHANGED <<now, rows, due, sent>>

PendingTime(u) ==
    {id \in Ids : Owned(u, id) /\ rows[id].kind = "time"
                               /\ rows[id].status = "pending"}

\* query is the set of messages that contain the searched substring
DeleteByMessage(w, u, query) ==
    LET matches == {id \in PendingTime(u) : rows[id].message \in query} IN
    \E id \in Ids :
        /\ matches = {id}
        /\ Hold(w, "cancel", u, {id})
        /\ UNCHANGED <<now, rows, due, sent>>

CancelPendingForUserPlugin(w, u, inst) ==
    LET items == {id \in PendingTime(u) : rows[id].install = inst} IN
    /\ items # {}
    /\ Hold(w, "cancel", u, items)
    /\ UNCHANGED <<now, rows, due, sent>>

-----------------------------------------------------------------------------
(* The dispatcher: one query for the due reminders, then one MarkNotified   *)
(* per result.  due[d] holds the results not yet looked at.                 *)

IsDue(row) == row.kind = "time" /\ row.status = "pending"
                                /\ row.remindAt <= now

\* mutant: the query asks for remind_at < now
FindDueStrict(d) ==
    LET found == {id \in Ids : IsDue(rows[id]) /\ rows[id].remindAt < now} IN
    /\ call[d] = Idle
    /\ due[d] = {}
    /\ found # {}
    /\ due' = [due EXCEPT ![d] = found]
    /\ UNCHANGED <<now, rows, call, sent>>

FindDue(d) ==
    /\ call[d] = Idle
    /\ due[d] = {}
    /\ \E id \in Ids : IsDue(rows[id])
    /\ due' = [due EXCEPT ![d] = {id \in Ids : IsDue(rows[id])}]
    /\ UNCHANGED <<now, rows, call, sent>>

MarkNotified(d, id) ==
    /\ id \in due[d]
    /\ rows[id].status = "pending"
    /\ Hold(d, "notify", None, {id})
    /\ due' = [due EXCEPT ![d] = @ \ {id}]
    /\ UNCHANGED <<now, rows, sent>>

\* the row is gone or no longer pending, or the read failed: logged, skipped
SkipDue(d, id) ==
    /\ id \in due[d]
    /\ call[d] = Idle
    /\ due' = [due EXCEPT ![d] = @ \ {id}]
    /\ UNCHANGED <<now, rows, call, sent>>

-----------------------------------------------------------------------------
(* Writes.  store.Update overwrites every column of the row with the id     *)
(* and answers ErrNotFound when there is none.                             *)

\* mutant: notified_at is set, the status is not
ChangedStatusForgotten(op, row, t) ==
    CASE op = "notify"  -> [row EXCEPT !.notifiedAt = t]
      [] op = "deliver" -> [row EXCEPT !.deliveredAt = t]
      [] op = "cancel"  -> [row EXCEPT !.status = "cancelled"]
      [] OTHER          -> [row EXCEPT !.status = "triggered",
                                       !.triggeredAt = t]

Changed(op, row, t) ==
    CASE op = "notify"  -> [row EXCEPT !.status = "notified", !.notifiedAt = t]
      [] op = "deliver" -> [row EXCEPT !.deliveredAt = t]
      [] op = "cancel"  -> [row EXCEPT !.status = "cancelled"]
      [] op = "trigger" -> [row EXCEPT !.status = "triggered",
                                       !.triggeredAt = t]
      [] OTHER          -> row

\* a batch goes on with its next copy, any other call is over
Release(p, id) ==
    IF Held(p) = {id} THEN Idle ELSE [call[p] EXCEPT !.copy[id] = NoRow]

\* mutant: the write inserts the row when it is gone
UpdateUpsert(p, id, t) ==
    /\ id \in Held(p)
    /\ rows' = [rows EXCEPT ![id] = Changed(call[p].op, call[p].copy[id], t)]
    /\ call' = [call EXCEPT ![p] = Release(p, id)]
    /\ sent' = IF p \in Dispatchers
               THEN [sent EXCEPT ![p][id] = @ + 1] ELSE sent
    /\ UNCHANGED <<now, due>>

Update(p, id, t) ==
    /\ id \in Held(p)
    /\ Exists(id)
    /\ rows' = [rows EXCEPT ![id] = Changed(call[p].op, call[p].copy[id], t)]
    /\ call' = [call EXCEPT ![p] = Release(p, id)]
    /\ sent' = IF p \in Dispatchers
               THEN [sent EXCEPT ![p][id] = @ + 1] ELSE sent
    /\ UNCHANGED <<now, due>>

\* ErrNotFound, a store error or a cancelled context: the call returns the
\* error and drops the copies it still holds; a dispatcher logs it and goes on
UpdateFails(p) ==
    /\ call[p] # Idle
    /\ call' = [call EXCEPT ![p] = Idle]
    /\ UNCHANGED <<now, rows, due, sent>>

\* the instance stops between two steps of a dispatch; after the restart the
\* loop begins with an empty batch
Crash(d) ==
    /\ due[d] # {} \/ call[d] # Idle
    /\ call' = [call EXCEPT ![d] = Idle]
    /\ due' = [due EXCEPT ![d] = {}]
    /\ UNCHANGED <<now, rows, sent>>

\* deleting an account removes its reminders (ON DELETE CASCADE)
PurgeUser(u) ==
    /\ \E id \in Ids : Owned(u, id)
    /\ rows' = [id \in Ids |-> IF Owned(u, id) THEN Purged(u) ELSE rows[id]]
    /\ UNCHANGED <<now, call, due, sent>>

-----------------------------------------------------------------------------
WorkerStep(w) ==
    \E u \in Users :
        \/ \E id \in Ids : \/ MarkDelivered(w, u, id)
                           \/ Cancel(w, u, id)
                           \/ MarkTriggered(w, u, id)
        \/ \E query \in SUBSET Messages : DeleteByMessage(w, u, query)
        \/ \E inst \in Installs : CancelPendingForUserPlugin(w, u, inst)

DispatcherStep(d) ==
    \/ FindDue(d)
    \/ \E id \in Ids : MarkNotified(d, id) \/ SkipDue(d, id)
    \/ Crash(d)

Write(p) == \E id \in Ids, t \in call[p].since..now : Update(p, id, t)

Next ==
    \/ Tick
    \/ \E u \in Users, m \in Messages, at \in Times :
         \E inst \in Installs \cup {None} : Create(u, inst, m, at)
    \/ \E u \in Users : CreateLocation(u) \/ PurgeUser(u)
    \/ \E w \in Workers : WorkerStep(w)
    \/ \E d \in Dispatchers : DispatcherStep(d)
    \/ \E p \in Procs : Write(p) \/ UpdateFails(p)

Spec == Init /\ [][Next]_vars

(***************************************************************************)
(* The ticker calls Dispatch again and again, so the dispatcher's own      *)
(* steps are weakly fair.  A read or write may fail, but the store does    *)
(* not fail for ever: whenever it is tried again and again it succeeds     *)
(* (strong fairness).  Nothing is assumed of users.                        *)
(***************************************************************************)
Fairness ==
    \A d \in Dispatchers :
        /\ WF_vars(FindDue(d) \/ UpdateFails(d) \/ \E id \in Ids : SkipDue(d, id))
        /\ SF_vars(\E id \in Ids : MarkNotified(d, id))
        /\ SF_vars(Write(d))

FairSpec == Spec /\ Fairness
-----------------------------------------------------------------------------
(* Properties.                                                             *)

TypeOK ==
    /\ now \in Times
    /\ rows \in [Ids -> Row]
    /\ call \in [Procs -> Call]
    /\ due \in [Dispatchers -> SUBSET Ids]
    /\ sent \in [Dispatchers -> [Ids -> Nat]]

Coherent(row) ==
    /\ row.status = "pending" =>
         row.notifiedAt = Never /\ row.triggeredAt = Never
    /\ row.status = "notified" =>
         row.notifiedAt # Never /\ row.triggeredAt = Never
    /\ row.status = "triggered" => row.triggeredAt # Never
    /\ row.notifiedAt # Never =>
         row.kind = "time" /\ row.notifiedAt >= row.remindAt
    /\ row.deliveredAt # Never =>
         row.notifiedAt # Never /\ row.deliveredAt >= row.notifiedAt

(***************************************************************************)
(* However reads and whole-row writes of handlers and dispatchers          *)
(* interleave, a row never mixes the columns of two writers: its stamps    *)
(* fit its status, only a time reminder is notified, never before it is    *)
(* due, and it is acknowledged only after that.                            *)
(***************************************************************************)
RowsCoherent == \A id \in Ids : Coherent(rows[id])

(***************************************************************************)
(* One dispatcher records the notification of a reminder at most once,     *)
(* whatever stale copies others write back, and whether its own writes     *)
(* fail, its batches overlap with cancellations or it is restarted.        *)
(***************************************************************************)
NotifiedAtMostOnce ==
    \A d \in Dispatchers, id \in Ids : sent[d][id] <= 1

(***************************************************************************)
(* A reminder that has left pending is never pending again: no stale copy  *)
(* re-arms what was notified, triggered or cancelled.                      *)
(***************************************************************************)
Rearms(id) == /\ rows[id].status \notin {"unborn", "pending"}
              /\ rows'[id].status = "pending"

PendingOnlyOnce == [][\A id \in Ids : ~Rearms(id)]_rows

(***************************************************************************)
(* A write still under way when the account is deleted does not bring the  *)
(* row back.                                                               *)
(***************************************************************************)
Resurrects(id) == /\ rows[id].status = "purged"
                  /\ rows'[id].status # "purged"

PurgedStaysPurged == [][\A id \in Ids : ~Resurrects(id)]_rows

(***************************************************************************)
(* Seen from outside, where there are no copies and no stamps, every       *)
(* status is the effect of one operation that saw the reminder in a status *)
(* that admits it, taken once, on a reminder that still exists: whole-row  *)
(* writes of stale copies put nothing else into the table.                 *)
(***************************************************************************)
Promise == INSTANCE ReminderPromise WITH
    status <- [id \in Ids |-> rows[id].status],
    op <- [p \in Procs |-> call[p].op],
    hands <- [p \in Procs |-> Held(p)],
    told <- [d \in Dispatchers |-> {id \in Ids : sent[d][id] # 0}]

ImplementsPromise == Promise!Spec

(***************************************************************************)
(* A reminder that is due is eventually notified, unless it is cancelled,  *)
(* triggered or removed first: no interleaving, failed write or restart    *)
(* makes the dispatcher forget it.                                         *)
(***************************************************************************)
DueIsSettled ==
    \A id \in Ids : IsDue(rows[id]) ~> rows[id].status # "pending"

(***************************************************************************)
(* The inductive strengthening.  What a process holds was coherent when it *)
(* read it, was stamped no later than that, and still carries the guard    *)
(* its operation checked; what waits in a batch is a due reminder or no    *)
(* longer pending; a reminder a dispatcher has recorded has left pending.  *)
(***************************************************************************)
CopyOK(p, id) ==
    LET c == call[p].copy[id] IN
    /\ c.status \in Stored
    /\ Coherent(c)
    /\ c.notifiedAt <= call[p].since
    /\ rows[id].status # "unborn"
    /\ call[p].op = "notify" =>
         /\ c.status = "pending" /\ c.kind = "time"
         /\ c.remindAt <= call[p].since
         /\ sent[p][id] = 0
    /\ call[p].op = "deliver" => c.status = "notified"

CallOK(p) ==
    /\ call[p].since <= now
    /\ call[p].op = "idle" => Held(p) = {}
    /\ call[p].op # "idle" => call[p].since # Never
    /\ IF p \in Dispatchers THEN call[p].op \in {"idle", "notify"}
                            ELSE call[p].op # "notify"
    /\ \A id \in Held(p) : CopyOK(p, id)

DueOK(d) ==
    \A id \in due[d] :
        /\ rows[id].status # "unborn"
        /\ rows[id].status = "pending" => IsDue(rows[id])

SentOK(d) ==
    \A id \in Ids :
        /\ sent[d][id] <= 1
        /\ sent[d][id] # 0 => rows[id].status \notin {"unborn", "pending"}

IInv ==
    /\ TypeOK
    /\ now # Never
    /\ RowsCoherent
    /\ \A id \in Ids : rows[id].notifiedAt <= now
    /\ \A p \in Procs : CallOK(p)
    /\ \A d \in Dispatchers : DueOK(d) /\ SentOK(d)
=============================================================================
