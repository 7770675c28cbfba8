------------------------------- MODULE Stores -------------------------------
(***************************************************************************)
(* The generic store (src/pkg/store): one interface, three drivers.        *)
(* Repositories build a Query once; Postgres renders it as SQL, MongoDB as *)
(* a filter document, and the in-memory store of the tests evaluates it.   *)
(* The model keeps what a query selects under each driver, and the three   *)
(* operations in which statements of several callers meet: an insert in a  *)
(* transaction, the claim of a record, and a listing read page by page.    *)
(*                                                                         *)
(* One collection is looked at in a behaviour (schema): the reminders,     *)
(* whose columns the repository's questions are about, or the users, which *)
(* are listed newest first (the plugin catalog is listed by the same code).*)
(* A text is known by which words occur in it, and whether between percent *)
(* signs, which is all a pattern can tell.                                 *)
(***************************************************************************)
EXTENDS Integers, Sequences, FiniteSets

CONSTANTS
    Ids,        \* primary keys, never given out twice
    Owners,     \* user ids
    Words,      \* words a text may contain and a search may ask for
    Claimers,   \* callers of FindOneAndUpdate
    Drivers,    \* DB_DRIVER, and the store of the tests
    DayLength,  \* length of a day; times count from the beginning of day 0
    Times,      \* instants reminders are set for
    MaxStamp,   \* bound: how many instants created_at can tell apart
    DefaultPage, MaxPage,  \* PerPage when none fits, and its limit
    None        \* NULL

ASSUME StoresAssumption ==
    /\ Drivers \subseteq {"postgres", "mongo", "memory"}
    /\ Times \subseteq Nat /\ DayLength \in Nat \ {0} /\ MaxStamp \in Nat
    /\ DefaultPage \in Nat \ {0} /\ MaxPage \in Nat /\ MaxPage >= DefaultPage
    /\ IsFiniteSet(Ids)
    /\ None \notin Ids \cup Owners \cup Claimers \cup Nat

VARIABLES
    driver,  \* the driver in use
    schema,  \* the collection looked at
    rows,    \* its records
    stamp,   \* the clock behind created_at
    tx,      \* records inserted in a transaction that is still open
    claim,   \* the row a claimer's subquery has locked
    claims,  \* history: claims of a record since it was last written
    walk     \* a listing read page by page

storesVars == <<driver, schema, rows, stamp, tx, claim, claims, walk>>

Schemas == {"reminders", "users"}
Occurs == {"absent", "plain", "quoted"}
Texts == [Words -> Occurs]
Statuses == {"pending", "notified", "triggered", "cancelled"}

Row == [owner : Owners, kind : {"time", "location", "user"}, status : Statuses,
        at : Times \cup {None}, delivered : BOOLEAN, text : Texts,
        created : 0..MaxStamp]

Nullable == {"at"}

\* NULL is no value of a column, and no column is called NULL
ASSUME NullAssumption ==
    /\ None \notin Statuses /\ None \notin {"time", "location", "user"} /\ None \notin Texts
    /\ None # "created"

Stored(i) == rows[i] # None
Present == {i \in Ids : Stored(i)}

-----------------------------------------------------------------------------
(* query.go: a query is a sequence of conditions, an order and a page.     *)

Condition(field, op, value) == [field |-> field, op |-> op, value |-> value]

NewQuery == [conditions |-> <<>>, order |-> None, desc |-> FALSE,
             limit |-> 0, offset |-> 0]

Where(q, op, field, value) ==
    [q EXCEPT !.conditions = Append(@, Condition(field, op, value))]

OrderBy(q, field, desc) == [q EXCEPT !.order = field, !.desc = desc]

Paginate(q, limit, offset) == [q EXCEPT !.limit = limit, !.offset = offset]

Ranges == {"gt", "gte", "lt", "lte"}

InRange(op, v, w) ==
    \/ op = "gt" /\ v > w
    \/ op = "gte" /\ v >= w
    \/ op = "lt" /\ v < w
    \/ op = "lte" /\ v <= w

Scalar(op, v, w) ==
    \/ op = "eq" /\ v = w
    \/ op = "ne" /\ v # w
    \/ op = "in" /\ v \in w

\* postgres.go, buildWhere: a comparison with NULL selects nothing; ILIKE takes
\* the percent signs of the pattern as wildcards
SqlHolds(r, c) ==
    LET v == r[c.field] IN
    /\ v # None
    /\ \/ Scalar(c.op, v, c.value)
       \/ c.op \in Ranges /\ InRange(c.op, v, c.value)
       \/ c.op = "like" /\ v[c.value] # "absent"

SqlSelects(r, conditions) ==
    \A k \in DOMAIN conditions : SqlHolds(r, conditions[k])

\* mongo.go, toBSONFilter: a document with one entry for each field, so that a
\* later condition on a field replaces an earlier one
MongoFilter(conditions) ==
    [f \in {conditions[k].field : k \in DOMAIN conditions} |->
        conditions[CHOOSE k \in DOMAIN conditions :
                      /\ conditions[k].field = f
                      /\ \A l \in DOMAIN conditions :
                            conditions[l].field = f => l <= k]]

\* how the server evaluates an entry: $ne selects missing values, a $regex has
\* no wildcard called percent
MongoHolds(r, c) ==
    LET v == r[c.field] IN
    \/ Scalar(c.op, v, c.value)
    \/ c.op \in Ranges /\ v # None /\ InRange(c.op, v, c.value)
    \/ c.op = "like" /\ v[c.value] = "quoted"

MongoSelects(r, conditions) ==
    LET filter == MongoFilter(conditions) IN
    \A f \in DOMAIN filter : MongoHolds(r, filter[f])

\* memory.go, conditionMatches: equality, membership and substrings; every other
\* operator matches nothing, and a pointer, which is what a column that may be
\* NULL is, equals no value
MemoryHolds(r, c) ==
    \/ c.field \notin Nullable /\ Scalar(c.op, r[c.field], c.value)
    \/ c.field \in Nullable /\ c.op = "ne"
    \/ c.op = "like" /\ r[c.field][c.value] # "absent"

MemorySelects(r, conditions) ==
    \A k \in DOMAIN conditions : MemoryHolds(r, conditions[k])

Selects(d, r, conditions) ==
    \/ d = "postgres" /\ SqlSelects(r, conditions)
    \/ d = "mongo" /\ MongoSelects(r, conditions)
    \/ d = "memory" /\ MemorySelects(r, conditions)

Selected(d, q) == {i \in Present : Selects(d, rows[i], q.conditions)}

\* the sequences in which a driver may return the records of S: ties are in no
\* particular order, and not in the same one from query to query
Sorted(S, field, desc) ==
    {s \in [1..Cardinality(S) -> S] :
        /\ \A j, k \in DOMAIN s : j # k => s[j] # s[k]
        /\ field # None =>
              \A j, k \in DOMAIN s : j < k =>
                 IF desc THEN rows[s[j]][field] >= rows[s[k]][field]
                         ELSE rows[s[j]][field] <= rows[s[k]][field]}

\* memory.go, paginate; LIMIT and OFFSET; SetLimit and SetSkip
Page(s, q) ==
    LET rest == SubSeq(s, q.offset + 1, Len(s)) IN
    IF q.limit > 0 THEN SubSeq(rest, 1, IF q.limit < Len(rest) THEN q.limit ELSE Len(rest))
                   ELSE rest

Found(d, q) == {Page(s, q) : s \in Sorted(Selected(d, q), q.order, q.desc)}

-----------------------------------------------------------------------------
(* The queries of the repositories.                                        *)

UtcDayBounds(t) == [start |-> (t \div DayLength) * DayLength,
                    end |-> (t \div DayLength) * DayLength + DayLength]

\* mutant: what is due this instant is left out
DueBefore(now) ==
    OrderBy(Where(Where(Where(NewQuery, "eq", "kind", "time"),
                        "eq", "status", "pending"),
                  "lt", "at", now),
            "at", FALSE)

FindDue(now) ==
    OrderBy(Where(Where(Where(NewQuery, "eq", "kind", "time"),
                        "eq", "status", "pending"),
                  "lte", "at", now),
            "at", FALSE)

TimeRemindersOf(u) ==
    Where(Where(NewQuery, "eq", "owner", u), "eq", "kind", "time")

WithinDay(q, day) == Where(Where(q, "gte", "at", day.start), "lt", "at", day.end)

FindActiveByUser(u, filter, now) ==
    LET all == OrderBy(Where(TimeRemindersOf(u), "in", "status", {"pending", "notified"}),
                       "at", FALSE)
    IN  CASE filter = "today" -> WithinDay(all, UtcDayBounds(now))
          [] filter = "tomorrow" -> WithinDay(all, UtcDayBounds(now + DayLength))
          [] OTHER -> all

FindPendingByUserAndMessage(u, word) ==
    OrderBy(Where(Where(TimeRemindersOf(u), "eq", "status", "pending"),
                  "like", "text", word),
            "at", FALSE)

FindNotified(u) ==
    OrderBy(Where(TimeRemindersOf(u), "eq", "status", "notified"), "at", FALSE)

\* the loop over the result keeps what was not delivered yet
PendingDelivery(d, u) == {i \in Selected(d, FindNotified(u)) : ~rows[i].delivered}

FindByUserAndStatus(u, status) ==
    OrderBy(Where(Where(Where(NewQuery, "eq", "owner", u), "eq", "kind", "location"),
                  "eq", "status", status),
            "created", TRUE)

\* user/service.go, List: an absurd page or size is replaced, not refused
PerPage(n) == IF n < 1 \/ n > MaxPage THEN DefaultPage ELSE n

\* mutant: pages are cut out of an unsorted listing
UnsortedList(page, perPage) == Paginate(NewQuery, perPage, (page - 1) * perPage)

ListQuery(page, perPage) ==
    Paginate(OrderBy(NewQuery, "created", TRUE), perPage, (page - 1) * perPage)

-----------------------------------------------------------------------------
(* Statements.  A walk is a client that reads a listing page by page until *)
(* the pages it was told of are read; each page is a Find and a Count.     *)
(* there are the records that have been there since it began; tied those    *)
(* that shared a created_at when a page was read, torn tells that a record *)
(* was deleted meanwhile (both are history).                               *)

Walk == [page : 1..(Cardinality(Ids) + 1), size : 1..MaxPage,
         step : {"find", "count", "done"}, seen : SUBSET Ids,
         there : SUBSET Ids, tied : SUBSET Ids, torn : BOOLEAN]

NewRow(u, kind, at, text) ==
    [owner |-> u, kind |-> kind, status |-> "pending", at |-> at, delivered |-> FALSE,
     text |-> text, created |-> stamp]

NewRows ==
    IF schema = "users"
    THEN {NewRow(u, "user", None, [w \in Words |-> "absent"]) : u \in Owners}
    ELSE {NewRow(u, "time", t, x) : u \in Owners, t \in Times, x \in Texts}
         \cup {NewRow(u, "location", None, [w \in Words |-> "absent"]) : u \in Owners}

Fresh(i) == claims[i] = -1 /\ tx[i] = None

StoresTypeOK ==
    /\ driver \in Drivers /\ schema \in Schemas
    /\ rows \in [Ids -> Row \cup {None}] /\ tx \in [Ids -> Row \cup {None}]
    /\ stamp \in 0..MaxStamp
    /\ claim \in [Claimers -> Ids \cup {None}]
    /\ claims \in [Ids -> -1..(Cardinality(Claimers) + 1)]
    /\ walk \in Walk \cup {None}

StoresInit ==
    /\ driver \in Drivers /\ schema \in Schemas
    /\ rows = [i \in Ids |-> None] /\ tx = [i \in Ids |-> None]
    /\ stamp = 0
    /\ claim = [c \in Claimers |-> None]
    /\ claims = [i \in Ids |-> -1]
    /\ walk = None

Tick ==
    /\ stamp < MaxStamp /\ schema = "users"
    /\ stamp' = stamp + 1
    /\ UNCHANGED <<driver, schema, rows, tx, claim, claims, walk>>

\* TxManager.Do begins a transaction and runs the insert in it: nobody else sees
\* the record yet.  The in-memory store has no transactions.
Begin(i, r) ==
    /\ Fresh(i) /\ schema = "users" /\ driver # "memory"
    /\ tx' = [tx EXCEPT ![i] = r]
    /\ UNCHANGED <<driver, schema, rows, stamp, claim, claims, walk>>

Commit(i) ==
    /\ tx[i] # None
    /\ rows' = [rows EXCEPT ![i] = tx[i]]
    /\ tx' = [tx EXCEPT ![i] = None]
    /\ claims' = [claims EXCEPT ![i] = 0]
    /\ UNCHANGED <<driver, schema, stamp, claim, walk>>

\* the insert or the commit failed; the id is not used again
Rollback(i) ==
    /\ tx[i] # None
    /\ tx' = [tx EXCEPT ![i] = None]
    /\ claims' = [claims EXCEPT ![i] = 0]
    /\ UNCHANGED <<driver, schema, rows, stamp, claim, walk>>

\* Create outside a transaction: NoopTxManager, and the reminders
Create(i, r) ==
    /\ Fresh(i)
    /\ schema = "reminders" \/ driver = "memory"
    /\ rows' = [rows EXCEPT ![i] = r]
    /\ claims' = [claims EXCEPT ![i] = 0]
    /\ UNCHANGED <<driver, schema, stamp, tx, claim, walk>>

Locked(i) == \E c \in Claimers : claim[c] = i

\* the columns the reminder service writes
Coherent(r) ==
    /\ r.status = "triggered" => r.kind = "location"
    /\ r.status = "notified" => r.kind = "time"
    /\ r.delivered => r.status = "notified"

\* Update replaces every column but the key; a row somebody has locked has to wait
Update(i, status, delivered) ==
    /\ Stored(i) /\ ~Locked(i) /\ schema = "reminders"
    /\ Coherent([rows[i] EXCEPT !.status = status, !.delivered = delivered])
    /\ rows' = [rows EXCEPT ![i].status = status, ![i].delivered = delivered]
    /\ claims' = [claims EXCEPT ![i] = 0]
    /\ UNCHANGED <<driver, schema, stamp, tx, claim, walk>>

Delete(i) ==
    /\ Stored(i) /\ ~Locked(i)
    /\ rows' = [rows EXCEPT ![i] = None]
    /\ walk' = IF walk # None /\ walk.step # "done"
               THEN [walk EXCEPT !.there = @ \ {i}, !.torn = TRUE] ELSE walk
    /\ UNCHANGED <<driver, schema, stamp, tx, claim, claims>>

-----------------------------------------------------------------------------
(* FindOneAndUpdate, here with the query and the assignment that claim the *)
(* oldest pending reminder.                                                *)

Claimable == OrderBy(Where(Where(NewQuery, "eq", "kind", "time"), "eq", "status", "pending"),
                     "at", FALSE)

SetNotified(i) ==
    /\ rows' = [rows EXCEPT ![i].status = "notified"]
    /\ claims' = [claims EXCEPT ![i] = @ + 1]

\* mutant: the subquery reads without locking
LockedToo(S) == S

\* rows the subquery considers: SKIP LOCKED passes over the others
Unlocked(S) == {i \in S : ~Locked(i)}

\* the subquery of the UPDATE has chosen and locked its row ...
LockRow(c) ==
    /\ driver = "postgres" /\ schema = "reminders" /\ claim[c] = None
    /\ \E s \in Sorted(Unlocked(Selected(driver, Claimable)), Claimable.order, Claimable.desc) :
          1 \in DOMAIN s /\ claim' = [claim EXCEPT ![c] = s[1]]
    /\ UNCHANGED <<driver, schema, rows, stamp, tx, claims, walk>>

\* ... and the UPDATE writes it
WriteLocked(c) ==
    /\ claim[c] # None
    /\ SetNotified(claim[c])
    /\ claim' = [claim EXCEPT ![c] = None]
    /\ UNCHANGED <<driver, schema, stamp, tx, walk>>

\* findOneAndUpdate is one atomic command of the server; the in-memory store
\* holds its mutex
ClaimAtOnce ==
    /\ driver # "postgres" /\ schema = "reminders"
    /\ \E s \in Sorted(Selected(driver, Claimable), Claimable.order, Claimable.desc) :
          1 \in DOMAIN s /\ SetNotified(s[1])
    /\ UNCHANGED <<driver, schema, stamp, tx, claim, walk>>

-----------------------------------------------------------------------------
Tied(i) == \E j \in Present \ {i} : rows[j].created = rows[i].created

StartWalk(perPage) ==
    /\ walk = None /\ schema = "users"
    /\ walk' = [page |-> 1, size |-> PerPage(perPage), step |-> "find", seen |-> {},
                there |-> Present, tied |-> {}, torn |-> FALSE]
    /\ UNCHANGED <<driver, schema, rows, stamp, tx, claim, claims>>

\* List: the statement that finds the page ...
FindPage ==
    /\ walk # None /\ walk.step = "find"
    /\ \E s \in Found(driver, ListQuery(walk.page, walk.size)) :
          walk' = [walk EXCEPT !.step = "count", !.seen = @ \cup {s[k] : k \in DOMAIN s},
                              !.tied = @ \cup {i \in Present : Tied(i)}]
    /\ UNCHANGED <<driver, schema, rows, stamp, tx, claim, claims>>

\* ... and the one that counts the total; the client goes on while there are
\* pages left
CountAll ==
    /\ walk # None /\ walk.step = "count"
    /\ walk' = IF walk.page * walk.size < Cardinality(Selected(driver, NewQuery))
               THEN [walk EXCEPT !.page = @ + 1, !.step = "find"]
               ELSE [walk EXCEPT !.step = "done"]
    /\ UNCHANGED <<driver, schema, rows, stamp, tx, claim, claims>>

StoresNext ==
    \/ Tick
    \/ \E i \in Ids, r \in NewRows : Begin(i, r) \/ Create(i, r)
    \/ \E i \in Ids : Commit(i) \/ Rollback(i) \/ Delete(i)
    \/ \E i \in Ids, status \in Statuses, delivered \in BOOLEAN : Update(i, status, delivered)
    \/ \E c \in Claimers : LockRow(c) \/ WriteLocked(c)
    \/ ClaimAtOnce
    \/ \E n \in 0..(MaxPage + 1) : StartWalk(n)
    \/ FindPage
    \/ CountAll

StoresSpec == StoresInit /\ [][StoresNext]_storesVars

-----------------------------------------------------------------------------
(* Properties.                                                             *)

TimeOf(u) == {i \in Present : rows[i].owner = u /\ rows[i].kind = "time"}
ActiveOf(u) == {i \in TimeOf(u) : rows[i].status \in {"pending", "notified"}}
OnDay(u, day) == {i \in ActiveOf(u) : rows[i].at \div DayLength = day}
PendingAbout(u, word) ==
    {i \in TimeOf(u) : rows[i].status = "pending" /\ rows[i].text[word] # "absent"}
DueAt(now) ==
    {i \in Present : rows[i].kind = "time" /\ rows[i].status = "pending" /\ rows[i].at <= now}
PlacesOf(u, status) ==
    {i \in Present : rows[i].owner = u /\ rows[i].kind = "location" /\ rows[i].status = status}

Question(q, means) == [query |-> q.conditions, means |-> means]

\* The questions the repositories ask, with what each one means.
Questions ==
    {Question(FindDue(now), DueAt(now)) : now \in Times}
    \cup {Question(FindActiveByUser(u, "all", 0), ActiveOf(u)) : u \in Owners}
    \cup {Question(FindActiveByUser(u, "today", now), OnDay(u, now \div DayLength))
            : u \in Owners, now \in Times}
    \cup {Question(FindActiveByUser(u, "tomorrow", now), OnDay(u, now \div DayLength + 1))
            : u \in Owners, now \in Times}
    \cup {Question(FindPendingByUserAndMessage(u, w), PendingAbout(u, w))
            : u \in Owners, w \in Words}
    \cup {Question(FindByUserAndStatus(u, st), PlacesOf(u, st)) : u \in Owners, st \in Statuses}

\* A query every driver evaluates alike: no field twice, no pattern, no <> on a
\* column that may be NULL; the in-memory store has no ranges either.
Portable(d, conditions) ==
    \A k \in DOMAIN conditions :
       /\ \A l \in DOMAIN conditions : conditions[l].field = conditions[k].field => l = k
       /\ d # "postgres" => conditions[k].op # "ne" \/ conditions[k].field \notin Nullable
       /\ d = "mongo" => conditions[k].op # "like"
       /\ d = "memory" => conditions[k].op \notin Ranges

SelectedBy(d, conditions) == {i \in Present : Selects(d, rows[i], conditions)}

\* Each repository question selects the records it means: on Postgres always,
\* under another driver when the query is portable.  Bounds of a day belong to
\* one day, an instant that is due is due.
QuestionsAreAnswered ==
    \A d \in Drivers :
       /\ \A q \in Questions :
             (d = "postgres" \/ Portable(d, q.query)) => SelectedBy(d, q.query) = q.means
       /\ \A u \in Owners :
             PendingDelivery(d, u) =
                {i \in TimeOf(u) : rows[i].status = "notified" /\ ~rows[i].delivered}

\* Nobody claims a record that somebody else has claimed and nobody has written
\* since: callers of FindOneAndUpdate never share one.
ClaimedOnce == \A i \in Ids : claims[i] <= 1

\* A listing read to its last page has shown every record that was there all
\* the time, whatever was registered meanwhile, unless a record was deleted
\* under it or two of them carry the same created_at.
MissedIsExplained ==
    (walk # None /\ walk.step = "done") =>
       \A i \in walk.there \ walk.seen : walk.torn \/ i \in walk.tied

=============================================================================
