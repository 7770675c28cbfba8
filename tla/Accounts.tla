------------------------------ MODULE Accounts ------------------------------
(***************************************************************************)
(* User accounts (src/internal/domain/user/service.go), the read-through   *)
(* cache in front of them (src/pkg/cache/cache.go) and the settings row    *)
(* each account gets on first access                                       *)
(* (src/internal/domain/assistant_settings/service.go).                    *)
(*                                                                         *)
(* A handler is a sequence of single statements against the users table,   *)
(* the cache, the settings table and the queue.  Nothing joins them: the   *)
(* transaction of Create holds one INSERT.  Each statement is a step, so   *)
(* other requests run between any two.  What a handler holds in the        *)
(* meantime is call[w].                                                    *)
(*                                                                         *)
(* Authenticate, Refresh and List read the users table and change nothing, *)
(* so they are no steps; neither is an answer that leaves everything as it *)
(* was (a cache hit, a conflict, a validation error, a missing account).   *)
(***************************************************************************)
EXTENDS Naturals, FiniteSets

CONSTANTS
    Users,       \* account ids; a uuid is never given out twice
    Emails,      \* normalised addresses
    Names,       \* display names, the one mutable column
    Wakes,       \* wake words a user saves, other than the default
    Thresholds,  \* location thresholds a user may save
    Workers,     \* goroutines serving requests, in any instance
    TTL,         \* lifetime of a cache entry, in ticks
    DefaultWake, \* DefaultWakeWord
    DefaultThreshold,  \* DefaultLocationReminderThresholdMeters
    None         \* nil

ASSUME ConstantsAssumption ==
    /\ TTL \in Nat \ {0}
    /\ None \notin Users \cup Emails \cup Names \cup Wakes \cup Thresholds
    /\ DefaultWake \notin Wakes
    /\ DefaultThreshold # None

VARIABLES
    rows,      \* the users table
    cache,     \* the entries under "user:<id>"
    settings,  \* the assistant_settings table
    events,    \* ids of the accounts announced on user.created
    call       \* what each handler holds between two statements

vars == <<rows, cache, settings, events, call>>

Row == [status : {"unborn", "stored", "deleted"},
        email : Emails \cup {None}, name : Names \cup {None}]

NoRow == [status |-> "unborn", email |-> None, name |-> None]
Gone == [NoRow EXCEPT !.status = "deleted"]

Stored(u) == rows[u].status = "stored"
Taken(e) == \E u \in Users : Stored(u) /\ rows[u].email = e

(***************************************************************************)
(* excused is history: the entry was filled with a row that had changed    *)
(* since it was loaded, or an invalidation of it was lost.                 *)
(***************************************************************************)
Entry == [row : Row, left : 1..TTL, excused : BOOLEAN]
NoEntry == [row |-> NoRow, left |-> 1, excused |-> FALSE]
Cached(u) == cache[u] # NoEntry

Settings == [wake : Wakes \cup {DefaultWake},
             threshold : Thresholds \cup {DefaultThreshold}]
Defaults == [wake |-> DefaultWake, threshold |-> DefaultThreshold]
NoSettings == [wake |-> None, threshold |-> None]
HasSettings(u) == settings[u] # NoSettings

\* the body of PUT settings; a nil threshold leaves the stored one
Inputs == [wake : Wakes, threshold : Thresholds \cup {None}]
NoInput == [wake |-> None, threshold |-> None]

Ops == {"idle", "create", "announce", "load", "fill", "write", "invalidate",
        "createSettings", "refind", "saveSettings", "refused"}

Call == [op : Ops, user : Users \cup {None}, row : Row,
         input : Inputs \cup {NoInput}, save : Settings \cup {NoSettings},
         fault : BOOLEAN]

Idle == [op |-> "idle", user |-> None, row |-> NoRow,
         input |-> NoInput, save |-> NoSettings, fault |-> FALSE]

At(w, op) == call[w].op = op

Goto(w, c) == call' = [call EXCEPT ![w] = c]
Return(w) == Goto(w, Idle)

Init ==
    /\ rows = [u \in Users |-> NoRow]
    /\ cache = [u \in Users |-> NoEntry]
    /\ settings = [u \in Users |-> NoSettings]
    /\ events = {}
    /\ call = [w \in Workers |-> Idle]

-----------------------------------------------------------------------------
(* Registration.  The look-up uses the address as it was typed, the insert *)
(* the normalised one: a spelling that differs finds nothing.              *)

Create(w, e, n, normalised) ==
    /\ At(w, "idle")
    /\ normalised => ~Taken(e)
    /\ Goto(w, [Idle EXCEPT !.op = "create",
                            !.row = [status |-> "stored", email |-> e,
                                     name |-> n]])
    /\ UNCHANGED <<rows, cache, settings, events>>

\* mutant: the look-up alone keeps addresses apart
InsertUserUnchecked(w) ==
    /\ At(w, "create")
    /\ \E u \in Users :
         /\ rows[u].status = "unborn"
         /\ rows' = [rows EXCEPT ![u] = call[w].row]
         /\ Goto(w, [Idle EXCEPT !.op = "announce", !.user = u])
    /\ UNCHANGED <<cache, settings, events>>

\* users.email is unique
InsertUser(w) ==
    /\ At(w, "create")
    /\ ~Taken(call[w].row.email)
    /\ \E u \in Users :
         /\ rows[u].status = "unborn"
         /\ rows' = [rows EXCEPT ![u] = call[w].row]
         /\ Goto(w, [Idle EXCEPT !.op = "announce", !.user = u])
    /\ UNCHANGED <<cache, settings, events>>

\* best effort: see GiveUp for a lost event
PublishCreated(w) ==
    /\ At(w, "announce")
    /\ events' = events \cup {call[w].user}
    /\ Return(w)
    /\ UNCHANGED <<rows, cache, settings>>

-----------------------------------------------------------------------------
(* GetByID: look-up, load and fill.                                        *)

GetByID(w, u) ==
    /\ At(w, "idle")
    /\ ~Cached(u)
    /\ Goto(w, [Idle EXCEPT !.op = "load", !.user = u])
    /\ UNCHANGED <<rows, cache, settings, events>>

Load(w) ==
    /\ At(w, "load")
    /\ IF Stored(call[w].user)
       THEN Goto(w, [call[w] EXCEPT !.op = "fill", !.row = rows[call[w].user]])
       ELSE Return(w)
    /\ UNCHANGED <<rows, cache, settings, events>>

Fill(w) ==
    LET u == call[w].user IN
    /\ At(w, "fill")
    /\ cache' = [cache EXCEPT ![u] =
                   [row |-> call[w].row, left |-> TTL,
                    excused |-> call[w].row # rows[u]]]
    /\ Return(w)
    /\ UNCHANGED <<rows, settings, events>>

\* mutant: stored without a TTL
KeptForever(entry) == entry

(***************************************************************************)
(* Time: an entry past its TTL is a miss, whoever removes it.              *)
(***************************************************************************)
Aged(entry) ==
    IF entry.left = 1 THEN NoEntry ELSE [entry EXCEPT !.left = @ - 1]

Tick ==
    /\ \E u \in Users : Cached(u)
    /\ cache' = [u \in Users |-> IF Cached(u) THEN Aged(cache[u]) ELSE NoEntry]
    /\ UNCHANGED <<rows, settings, events, call>>

-----------------------------------------------------------------------------
(* Update and Delete: the row first, then the entry.                       *)

Update(w, u, n) ==
    /\ At(w, "idle")
    /\ Stored(u)
    /\ Goto(w, [Idle EXCEPT !.op = "write", !.user = u,
                            !.row = [rows[u] EXCEPT !.name = n]])
    /\ UNCHANGED <<rows, cache, settings, events>>

\* mutant: the update leaves the entry to its TTL
WriteUserOnly(w) ==
    LET u == call[w].user IN
    /\ At(w, "write")
    /\ rows' = IF Stored(u) THEN [rows EXCEPT ![u] = call[w].row] ELSE rows
    /\ Return(w)
    /\ UNCHANGED <<cache, settings, events>>

\* no row with the id any more: the store answers not found
WriteUser(w) ==
    LET u == call[w].user IN
    /\ At(w, "write")
    /\ IF Stored(u)
       THEN /\ rows' = [rows EXCEPT ![u] = call[w].row]
            /\ Goto(w, [Idle EXCEPT !.op = "invalidate", !.user = u])
       ELSE Return(w) /\ UNCHANGED rows
    /\ UNCHANGED <<cache, settings, events>>

\* the settings row goes with the account (ON DELETE CASCADE)
Delete(w, u) ==
    /\ At(w, "idle")
    /\ Stored(u)
    /\ rows' = [rows EXCEPT ![u] = Gone]
    /\ settings' = [settings EXCEPT ![u] = NoSettings]
    /\ Goto(w, [Idle EXCEPT !.op = "invalidate", !.user = u])
    /\ UNCHANGED <<cache, events>>

Invalidate(w) ==
    /\ At(w, "invalidate")
    /\ cache' = [cache EXCEPT ![call[w].user] = NoEntry]
    /\ Return(w)
    /\ UNCHANGED <<rows, settings, events>>

\* the error is dropped, as is the rest of a handler that crashes here
InvalidateFails(w) ==
    LET u == call[w].user IN
    /\ At(w, "invalidate")
    /\ cache' = IF Cached(u) THEN [cache EXCEPT ![u].excused = TRUE] ELSE cache
    /\ Return(w)
    /\ UNCHANGED <<rows, settings, events>>

-----------------------------------------------------------------------------
(* Settings: GetOrCreate, alone (no input) or at the head of Update.  A    *)
(* token outlives its account, so the account may be gone.                 *)

Apply(input, s) ==
    [wake |-> input.wake,
     threshold |-> IF input.threshold = None THEN s.threshold
                                             ELSE input.threshold]

\* GetOrCreate has a row: GET answers it, PUT goes on to write its changes
Found(w, u, input, s) ==
    IF input = NoInput THEN Return(w)
    ELSE Goto(w, [Idle EXCEPT !.op = "saveSettings", !.user = u,
                              !.save = Apply(input, s)])

FindSettings(w, u, input) ==
    /\ At(w, "idle")
    /\ rows[u].status # "unborn"
    /\ IF HasSettings(u)
       THEN /\ input # NoInput
            /\ Found(w, u, input, settings[u])
       ELSE Goto(w, [Idle EXCEPT !.op = "createSettings", !.user = u,
                                 !.input = input])
    /\ UNCHANGED <<rows, cache, settings, events>>

\* an error although no statement failed on its own account
Refuse(w, u) == Goto(w, [Idle EXCEPT !.op = "refused", !.user = u])

\* mutant: the insert is an upsert
AccountMissing(u) == ~Stored(u)

\* the key is taken, or the account it references is gone
Conflicts(u) == HasSettings(u) \/ ~Stored(u)

\* mutant: a conflict is the end of the request
CreateSettingsOnce(w) ==
    LET u == call[w].user IN
    /\ At(w, "createSettings")
    /\ IF Conflicts(u)
       THEN Refuse(w, u) /\ UNCHANGED settings
       ELSE /\ settings' = [settings EXCEPT ![u] = Defaults]
            /\ Found(w, u, call[w].input, Defaults)
    /\ UNCHANGED <<rows, cache, events>>

CreateSettings(w) ==
    LET u == call[w].user IN
    /\ At(w, "createSettings")
    /\ \/ /\ ~Conflicts(u)
          /\ settings' = [settings EXCEPT ![u] = Defaults]
          /\ Found(w, u, call[w].input, Defaults)
       \/ /\ Conflicts(u)
          /\ Goto(w, [call[w] EXCEPT !.op = "refind"])
          /\ UNCHANGED settings
       \/ /\ Goto(w, [call[w] EXCEPT !.op = "refind", !.fault = TRUE])
          /\ UNCHANGED settings
    /\ UNCHANGED <<rows, cache, events>>

RefindSettings(w) ==
    LET u == call[w].user IN
    /\ At(w, "refind")
    /\ \/ HasSettings(u) /\ Found(w, u, call[w].input, settings[u])
       \/ ~HasSettings(u) /\ call[w].fault /\ Return(w)
       \/ ~HasSettings(u) /\ ~call[w].fault /\ Refuse(w, u)
    /\ UNCHANGED <<rows, cache, settings, events>>

SaveSettings(w) ==
    LET u == call[w].user IN
    /\ At(w, "saveSettings")
    /\ settings' = IF HasSettings(u)
                   THEN [settings EXCEPT ![u] = call[w].save] ELSE settings
    /\ Return(w)
    /\ UNCHANGED <<rows, cache, events>>

-----------------------------------------------------------------------------
(* The handler answers and is done, or a statement fails (a store, cache   *)
(* or broker error, an ended request context) or its process crashes, and  *)
(* it gives up.  A statement that took effect though its reply was lost is *)
(* its success followed by this, or by InvalidateFails.                    *)

GiveUp(w) ==
    /\ call[w].op \notin {"idle", "invalidate", "createSettings"}
    /\ Return(w)
    /\ UNCHANGED <<rows, cache, settings, events>>

Next ==
    \/ Tick
    \/ \E w \in Workers :
         \/ \E e \in Emails, n \in Names, b \in BOOLEAN : Create(w, e, n, b)
         \/ InsertUser(w)
         \/ PublishCreated(w)
         \/ \E u \in Users :
              \/ GetByID(w, u)
              \/ \E n \in Names : Update(w, u, n)
              \/ Delete(w, u)
              \/ \E input \in Inputs \cup {NoInput} : FindSettings(w, u, input)
         \/ Load(w)
         \/ Fill(w)
         \/ WriteUser(w)
         \/ Invalidate(w)
         \/ InvalidateFails(w)
         \/ CreateSettings(w)
         \/ RefindSettings(w)
         \/ SaveSettings(w)
         \/ GiveUp(w)

Spec == Init /\ [][Next]_vars

(***************************************************************************)
(* Only the clock is fair: no request has to arrive or to get on.          *)
(***************************************************************************)
FairSpec == Spec /\ WF_vars(Tick)

-----------------------------------------------------------------------------
\* Every variable holds a value of its kind.
TypeOK ==
    /\ rows \in [Users -> Row]
    /\ cache \in [Users -> Entry]
    /\ settings \in [Users -> Settings \cup {NoSettings}]
    /\ events \subseteq Users
    /\ call \in [Workers -> Call]

Stale(u) == Cached(u) /\ cache[u].row # rows[u]

(***************************************************************************)
(* What a handler holds between two statements still bears on the tables:  *)
(* the row it will write keeps the address of the account, the settings it *)
(* will save carry the user's own wake word, and a request that lost the   *)
(* race for the settings row has one to find unless the account is gone.   *)
(***************************************************************************)
Held(w) ==
    LET c == call[w] IN
    /\ c.op \notin {"idle", "create"} => c.user \in Users
    /\ c.op \notin {"idle", "create", "load"} => rows[c.user].status # "unborn"
    /\ c.op \in {"create", "fill", "write"} => c.row.status = "stored"
    /\ c.op = "write" /\ Stored(c.user) => c.row.email = rows[c.user].email
    /\ c.op = "saveSettings" => c.save.wake \in Wakes
    /\ c.op = "refind" /\ ~c.fault =>
         HasSettings(c.user) \/ rows[c.user].status = "deleted"

(***************************************************************************)
(* The promise of Update and Delete to invalidate (user/service.go:105,    *)
(* :125): an entry that differs from the table is about to be invalidated, *)
(* or was filled by a load that an update overtook, or its invalidation    *)
(* was lost.  Nothing else leaves the cache behind the table.              *)
(***************************************************************************)
StaleIsExplained ==
    \A u \in Users : Stale(u) =>
        \/ cache[u].excused
        \/ \E w \in Workers : At(w, "invalidate") /\ call[w].user = u

(***************************************************************************)
(* Whatever went wrong, a stale entry does not outlive its TTL, however    *)
(* often it is read (cache.go:58-90).                                      *)
(***************************************************************************)
StaleExpires == \A u \in Users : Stale(u) ~> ~Stale(u)

(***************************************************************************)
(* Two registrations of one address, however they are spelled and          *)
(* interleaved, leave one account, and an event goes out only for an       *)
(* account that was committed (user/service.go:72-78).                     *)
(***************************************************************************)
OneAccountPerEmail ==
    /\ \A u, v \in Users :
         Stored(u) /\ Stored(v) /\ rows[u].email = rows[v].email => u = v
    /\ \A u \in events : rows[u].status # "unborn"

(***************************************************************************)
(* First accesses that race for the settings row all get it: without a     *)
(* store error a request fails only if the account is gone                 *)
(* (assistant_settings/service.go:42-48).                                  *)
(***************************************************************************)
RefusedOnlyWhenGone ==
    \A w \in Workers : At(w, "refused") => rows[call[w].user].status = "deleted"

(***************************************************************************)
(* A late first access never puts the defaults over settings the user has  *)
(* saved (assistant_settings/service.go:34-49).                            *)
(***************************************************************************)
DefaultsNeverOverwrite ==
    [][\A u \in Users :
         HasSettings(u) /\ settings[u] # Defaults => settings'[u] # Defaults]_vars

\* The inductive invariant of the proofs.
IInv ==
    /\ TypeOK
    /\ \A w \in Workers : Held(w)
    /\ \A u \in Users : rows[u].status = "unborn" => ~Cached(u)
    /\ StaleIsExplained
    /\ OneAccountPerEmail
    /\ RefusedOnlyWhenGone
=============================================================================
