--------------------------- MODULE PluginInstalls ---------------------------
(***************************************************************************)
(* The installs of one catalog plugin by one user, with their credentials  *)
(* and the time reminders made through them: install, uninstall, enable,   *)
(* Google OAuth setup and Composio form setup (src/internal/domain/        *)
(* user_plugin, plugin_credential, plugin_setup).  Every operation is a    *)
(* sequence of store calls; an update writes the whole row that was read   *)
(* earlier.  The tables are Postgres', with their unique and foreign keys  *)
(* (src/migrations); reminders have no foreign key to an install.          *)
(***************************************************************************)
EXTENDS FiniteSets

CONSTANTS
    Ids,        \* install ids, each used once
    Creds,      \* credential ids, each used once
    Reminders,  \* reminder ids, each used once (these three sets are bounds)
    Calls,      \* concurrent calls
    None

ASSUME InstallsAssumption == None \notin Creds

VARIABLES
    kind,      \* the plugin: set up by OAuth, by a form, or the reminder plugin
    install,   \* table user_plugins
    cred,      \* table plugin_credentials: the credential of each install
    usedCreds, \* credential ids generated so far
    reminder,  \* table reminders, those of this plugin
    issued,    \* installs an OAuth state was signed for (reusable, 10 minutes)
    call,      \* the calls under way
    stored,    \* history: installs a credential was stored for
    swept      \* history: installs whose reminders an uninstall has listed

vars == <<kind, install, cred, usedCreds, reminder, issued, call, stored, swept>>
history == <<stored, swept>>

Setup == {"not_started", "in_progress", "completed", "failed"}

Row == [state : {"unborn", "live", "gone"}, enabled : BOOLEAN, setup : Setup,
        error : BOOLEAN, config : BOOLEAN]

RequiredSetup == kind # "reminder"

Fresh == [state |-> "unborn", enabled |-> TRUE,
          setup |-> IF RequiredSetup THEN "not_started" ELSE "completed",
          error |-> FALSE, config |-> FALSE]

Ops == {"install", "uninstall", "enable", "init", "callback", "submit",
        "remind"}

Points == {"insert", "write", "begin", "exchange", "findCred", "putCred",
           "delCred", "sweep", "cancel", "delete", "create"}

Call == [op : Ops, at : Points, id : Ids, row : Row,
         cred : Creds \cup {None}, todo : SUBSET Reminders]

NoReminder == [install |-> None, status |-> "none", late |-> FALSE]

ReminderRow == [install : Ids, status : {"pending", "cancelled"},
                late : BOOLEAN]

\* every variable keeps its type
TypeOK ==
    /\ kind \in {"oauth", "form", "reminder"}
    /\ install \in [Ids -> Row]
    /\ cred \in [Ids -> Creds \cup {None}]
    /\ usedCreds \subseteq Creds
    /\ reminder \in [Reminders -> ReminderRow \cup {NoReminder}]
    /\ issued \subseteq Ids
    /\ call \in [Calls -> Call \cup {None}]
    /\ stored \subseteq Ids /\ swept \subseteq Ids

Init ==
    /\ kind \in {"oauth", "form", "reminder"}
    /\ install = [i \in Ids |-> Fresh]
    /\ cred = [i \in Ids |-> None]
    /\ usedCreds = {}
    /\ reminder = [r \in Reminders |-> NoReminder]
    /\ issued = {}
    /\ call = [c \in Calls |-> None]
    /\ stored = {} /\ swept = {}

Live == {i \in Ids : install[i].state = "live"}

-----------------------------------------------------------------------------
(* Calls: how they begin, go on and return.                                *)

tables == <<kind, install, cred, usedCreds, reminder, issued>>

Begin(c, op, at, i, row) ==
    /\ call[c] = None
    /\ call' = [call EXCEPT ![c] =
                  [op |-> op, at |-> at, id |-> i, row |-> row, cred |-> None,
                   todo |-> {}]]
    /\ UNCHANGED <<tables, history>>

\* call c is at a point
At(c, at) == call[c] # None /\ call[c].at = at

Continue(c, at) == call' = [call EXCEPT ![c].at = at]

WriteNext(c, row) == call' = [call EXCEPT ![c].at = "write", ![c].row = row]

Return(c) == call' = [call EXCEPT ![c] = None]

\* a store call fails, or the process ends
Abort(c) == call[c] # None /\ Return(c) /\ UNCHANGED <<tables, history>>

WithSetup(row, s) == [row EXCEPT !.setup = s, !.error = (s = "failed")]

-----------------------------------------------------------------------------
(* Service.Install.  A plugin that is installed already is returned.       *)

FindInstall(c) ==
    /\ Live = {}
    /\ \E i \in Ids : Begin(c, "install", "insert", i, Fresh)

\* the unique index lets one of two inserts through
Insert(c) ==
    /\ At(c, "insert")
    /\ LET i == call[c].id
       IN  install' = IF Live = {} /\ install[i].state = "unborn"
                      THEN [install EXCEPT ![i] =
                              [call[c].row EXCEPT !.state = "live"]]
                      ELSE install
    /\ Return(c)
    /\ UNCHANGED <<kind, cred, usedCreds, reminder, issued, history>>

-----------------------------------------------------------------------------
(* What reads a row and writes it back: SetEnabled, InitSetup, the last    *)
(* step of the two setups, markFailed.                                     *)

SetEnabled(c, i, on) ==
    /\ i \in Live
    /\ Begin(c, "enable", "write", i, [install[i] EXCEPT !.enabled = on])

InitSetup(c, i) ==
    /\ kind = "oauth" /\ i \in Live
    /\ Begin(c, "init", "write", i, WithSetup(install[i], "in_progress"))

\* a row that is gone is not found; InitSetup returns the signed state
Update(c) ==
    /\ At(c, "write")
    /\ IF call[c].id \in Live
       THEN /\ install' = [install EXCEPT ![call[c].id] = call[c].row]
            /\ issued' = IF call[c].op = "init" THEN issued \cup {call[c].id}
                                                ELSE issued
       ELSE UNCHANGED <<install, issued>>
    /\ Return(c)
    /\ UNCHANGED <<kind, cred, usedCreds, reminder, history>>

-----------------------------------------------------------------------------
(* Setup: HandleCallback and SubmitSetup.                                  *)

\* a state may come back more than once
HandleCallback(c, i) ==
    /\ kind = "oauth" /\ i \in issued \cap Live
    /\ Begin(c, "callback", "exchange", i, install[i])

SubmitSetup(c, i) ==
    /\ kind = "form" /\ i \in Live
    /\ Begin(c, "submit", "begin", i, WithSetup(install[i], "in_progress"))

WriteInProgress(c) ==
    /\ At(c, "begin")
    /\ IF call[c].id \in Live
       THEN /\ install' = [install EXCEPT ![call[c].id] = call[c].row]
            /\ Continue(c, "exchange")
       ELSE UNCHANGED install /\ Return(c)
    /\ UNCHANGED <<kind, cred, usedCreds, reminder, issued, history>>

\* the code is refused, or the API key is not valid
ExchangeFails(c) ==
    /\ At(c, "exchange")
    /\ WriteNext(c, WithSetup(call[c].row, "failed"))
    /\ UNCHANGED <<tables, history>>

Exchanged(c) ==
    /\ At(c, "exchange")
    /\ Continue(c, "findCred")
    /\ UNCHANGED <<tables, history>>

\* upsertEncrypted reads the credential it may have to replace
FindCred(c) ==
    /\ At(c, "findCred")
    /\ call' = [call EXCEPT ![c].at = "putCred", ![c].cred = cred[call[c].id]]
    /\ UNCHANGED <<tables, history>>

Completed(c) == [WithSetup(call[c].row, "completed") EXCEPT
                   !.config = @ \/ call[c].op = "submit"]

UpdateCred(c) ==
    /\ At(c, "putCred") /\ call[c].cred # None
    /\ IF call[c].cred = cred[call[c].id]
       THEN WriteNext(c, Completed(c)) /\ stored' = stored \cup {call[c].id}
       ELSE WriteNext(c, WithSetup(call[c].row, "failed")) /\ UNCHANGED stored
    /\ UNCHANGED <<tables, swept>>

\* mutant: the install is completed even when nothing was stored
CreateCredFails(c) ==
    /\ At(c, "putCred") /\ call[c].cred = None
    /\ WriteNext(c, Completed(c))
    /\ UNCHANGED <<tables, history>>

\* the unique and the foreign key refuse a second one and one without install
CreateCred(c) ==
    /\ At(c, "putCred") /\ call[c].cred = None
    /\ LET i == call[c].id IN
       IF i \in Live /\ cred[i] = None
       THEN \E k \in Creds \ usedCreds :
              /\ cred' = [cred EXCEPT ![i] = k]
              /\ usedCreds' = usedCreds \cup {k}
              /\ stored' = stored \cup {i}
              /\ WriteNext(c, Completed(c))
       ELSE /\ WriteNext(c, WithSetup(call[c].row, "failed"))
            /\ UNCHANGED <<cred, usedCreds, stored>>
    /\ UNCHANGED <<kind, install, reminder, issued, swept>>

-----------------------------------------------------------------------------
(* Service.Uninstall.                                                      *)

Uninstall(c, i) ==
    /\ i \in Live
    /\ Begin(c, "uninstall", "delCred", i, install[i])

\* only the plugin with slug "reminder" has reminders to cancel
AfterCred == IF kind = "reminder" THEN "sweep" ELSE "delete"

\* The cleaner looks the install up again, by user and plugin: it may find
\* another install of the plugin than the one being removed.
FindDoomedCred(c) ==
    /\ At(c, "delCred") /\ call[c].cred = None
    /\ \/ \E j \in Live : /\ cred[j] # None
                        /\ call' = [call EXCEPT ![c].cred = cred[j]]
       \/ /\ \A j \in Live : cred[j] = None
          /\ Continue(c, AfterCred)
    /\ UNCHANGED <<tables, history>>

DeleteCred(c) ==
    /\ At(c, "delCred") /\ call[c].cred # None
    /\ IF \E j \in Ids : cred[j] = call[c].cred
       THEN Continue(c, AfterCred)
       ELSE Return(c)
    /\ cred' = [j \in Ids |-> IF cred[j] = call[c].cred THEN None ELSE cred[j]]
    /\ UNCHANGED <<kind, install, usedCreds, reminder, issued, history>>

PendingOf(i) == {r \in Reminders : /\ reminder[r].status = "pending"
                                   /\ reminder[r].install = i}

FindPending(c) ==
    /\ At(c, "sweep")
    /\ call' = [call EXCEPT ![c].at = "cancel", ![c].todo = PendingOf(call[c].id)]
    /\ swept' = swept \cup {call[c].id}
    /\ UNCHANGED <<tables, stored>>

CancelOne(c) ==
    /\ At(c, "cancel")
    /\ \E r \in call[c].todo :
         /\ reminder' = [reminder EXCEPT ![r].status = "cancelled"]
         /\ call' = [call EXCEPT ![c].todo = @ \ {r}]
    /\ UNCHANGED <<kind, install, cred, usedCreds, issued, history>>

\* mutant: a reminder that cannot be cancelled is passed over
CancelDoneEarly(c) ==
    /\ At(c, "cancel")
    /\ Continue(c, "delete")
    /\ UNCHANGED <<tables, history>>

CancelDone(c) ==
    /\ At(c, "cancel") /\ call[c].todo = {}
    /\ Continue(c, "delete")
    /\ UNCHANGED <<tables, history>>

\* mutant: the tables have no cascade
DeleteWithoutCascade(c) ==
    /\ At(c, "delete")
    /\ LET i == call[c].id
       IN  install' = IF i \in Live THEN [install EXCEPT ![i].state = "gone"]
                                    ELSE install
    /\ Return(c)
    /\ UNCHANGED <<kind, cred, usedCreds, reminder, issued, history>>

\* the credentials of the install go with it, ON DELETE CASCADE
Delete(c) ==
    /\ At(c, "delete")
    /\ LET i == call[c].id IN
       IF i \in Live THEN /\ install' = [install EXCEPT ![i].state = "gone"]
                          /\ cred' = [cred EXCEPT ![i] = None]
                     ELSE UNCHANGED <<install, cred>>
    /\ Return(c)
    /\ UNCHANGED <<kind, usedCreds, reminder, issued, history>>

-----------------------------------------------------------------------------
(* The assistant makes a reminder through an install it loaded earlier.    *)

Remind(c, i) ==
    /\ kind = "reminder" /\ i \in Live
    /\ install[i].enabled
    /\ Begin(c, "remind", "create", i, install[i])

CreateReminder(c) ==
    /\ At(c, "create")
    /\ \E r \in Reminders :
         /\ reminder[r] = NoReminder
         /\ reminder' = [reminder EXCEPT ![r] =
                           [install |-> call[c].id, status |-> "pending",
                            late |-> call[c].id \in swept]]
    /\ Return(c)
    /\ UNCHANGED <<kind, install, cred, usedCreds, issued, history>>

-----------------------------------------------------------------------------
Next == \E c \in Calls :
    \/ \E i \in Ids : \/ \E on \in BOOLEAN : SetEnabled(c, i, on)
                      \/ InitSetup(c, i) \/ HandleCallback(c, i)
                      \/ SubmitSetup(c, i) \/ Uninstall(c, i) \/ Remind(c, i)
    \/ FindInstall(c) \/ Insert(c) \/ Update(c)
    \/ WriteInProgress(c) \/ ExchangeFails(c) \/ Exchanged(c)
    \/ FindCred(c) \/ UpdateCred(c) \/ CreateCred(c)
    \/ FindDoomedCred(c) \/ DeleteCred(c)
    \/ FindPending(c) \/ CancelOne(c) \/ CancelDone(c) \/ Delete(c)
    \/ CreateReminder(c) \/ Abort(c)

Spec == Init /\ [][Next]_vars

-----------------------------------------------------------------------------
(* Properties.                                                             *)

(***************************************************************************)
(* Whole-row writes of stale copies never make a row no operation would    *)
(* write: the error message is there exactly when the setup failed, a      *)
(* completed form setup has its configuration, and a plugin without setup  *)
(* stays completed.                                                        *)
(***************************************************************************)
RowsCoherent ==
    \A i \in Live :
        /\ install[i].error <=> install[i].setup = "failed"
        /\ kind = "form" /\ install[i].setup = "completed" => install[i].config
        /\ ~RequiredSetup => install[i].setup = "completed"

(***************************************************************************)
(* An install the assistant may execute as set up has had its credential   *)
(* stored, whatever callbacks, retries and toggles overlap.  (It may have  *)
(* lost it again to an uninstall that did not get to its end.)             *)
(***************************************************************************)
CompletedWasStored ==
    \A i \in Live :
        RequiredSetup /\ install[i].setup = "completed" => i \in stored

(***************************************************************************)
(* What an install says of its setup is true: both of the above.           *)
(***************************************************************************)
SetupIsTruthful == RowsCoherent /\ CompletedWasStored

(***************************************************************************)
(* No credential outlives its install, although a setup may still be       *)
(* storing one while the uninstall deletes the row.                        *)
(***************************************************************************)
NoOrphanCredential == \A i \in Ids : cred[i] # None => i \in Live

(***************************************************************************)
(* When an install of the reminder plugin is gone, every reminder made     *)
(* before its uninstall listed them is cancelled: none fires for it.  (One *)
(* that is made through a copy of the install loaded earlier, after that,  *)
(* stays pending.)                                                         *)
(***************************************************************************)
UninstallSweeps ==
    \A r \in Reminders :
        reminder[r].status = "pending" /\ ~reminder[r].late =>
            install[reminder[r].install].state # "gone"
=============================================================================
