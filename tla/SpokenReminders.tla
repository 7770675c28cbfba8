--------------------------- MODULE SpokenReminders ---------------------------
(***************************************************************************)
(* Setting a reminder by voice: what the assistant makes of the words      *)
(* (src/internal/domain/assistant/wake_word.go), what it asks the user to  *)
(* confirm, and what the builtin executors then create (assistant/builtin/ *)
(* reminder.go and location_reminder.go), with the cache of geocoded       *)
(* addresses they share (src/pkg/places/cache.go).                         *)
(*                                                                         *)
(* Between the question and the answer the clock moves and the user may    *)
(* change the radius of location reminders; between the beginning and the  *)
(* end of a geocoding call the clock moves as well.  What becomes of a     *)
(* reminder once it exists is the subject of Reminders.                    *)
(***************************************************************************)
EXTENDS SpokenTimes

CONSTANTS
    Speakers,   \* users, each in a conversation of one reminder
    Radii, DefaultRadius,  \* values of location_reminder_threshold_meters
    CacheTTL,   \* of a geocoded address: 5 minutes in the code
    NoEntry,    \* nothing cached
    LastReminder  \* bound: where the clock of reminders stops

ASSUME RemindersAssumption ==
    /\ CacheTTL \in Nat \ {0} /\ LastReminder \in 0..LastNow
    /\ Radii \subseteq Nat /\ DefaultRadius \in Radii

VARIABLES
    geocodes,  \* the cache, of the one address the behaviour is about
    radius,    \* per user: the setting
    spoken     \* per user: the pending action and the request that serves it

reminderVars == <<now, geocodes, radius, spoken>>

\* A reminder at an instant the language model has worked out, or at a time as said.
Instant(t) == [form |-> "instant", at |-> t, phrase |-> NoTime]
AsSaid(p) == [form |-> "words", at |-> 0, phrase |-> p]

TimeOf(arg) == IF arg.form = "instant" THEN arg.at ELSE ParseDateTime(arg.phrase)

\* mutant: the words are kept, and understood when they are needed
NormalizeLater(arg) == arg

\* normalizeReminderRemindAt: words become an instant once
Normalize(arg) == Instant(TimeOf(arg))

ReminderKinds == {"time", "exact", "keyword", "other"}

\* until the request speaks of what it found, asOf (history) is when the provider
\* had it found, and changed (history) tells of a setting changed since the question
Untold == [stage |-> "idle", kind |-> "time", arg |-> Instant(0), prompt |-> NoTime,
           changed |-> FALSE, got |-> 0, began |-> 0, asOf |-> 0, told |-> "none", made |-> 0]

Tell(what) == [Untold EXCEPT !.stage = "over", !.told = what]

ReminderStages == {"idle", "ask", "confirm", "execute", "lookup", "call", "answer", "create", "over"}

ReminderTypeOK ==
    /\ now \in 0..LastNow
    /\ geocodes \in [asOf : 0..LastNow, until : Nat] \cup {NoEntry}
    /\ radius \in [Speakers -> Radii]
    /\ \A s \in Speakers : spoken[s].stage \in ReminderStages /\ spoken[s].kind \in ReminderKinds

ReminderInit ==
    /\ now = 0 /\ geocodes = NoEntry
    /\ radius = [s \in Speakers |-> DefaultRadius]
    /\ spoken = [s \in Speakers |-> Untold]

-----------------------------------------------------------------------------
(* advancePlugin and the follow-ups.                                       *)

\* a reminder at a time is always confirmed
SayTime(s, arg) ==
    /\ spoken[s].stage = "idle" \/ (spoken[s].stage = "ask" /\ spoken[s].kind = "time")
    /\ arg.form = "words" => Understood(arg.phrase)
    /\ LET given == Normalize(arg) IN
       spoken' = [spoken EXCEPT ![s] = [Untold EXCEPT !.stage = "confirm", !.arg = given,
                                                      !.prompt = TimeOf(given)]]
    /\ UNCHANGED <<now, geocodes, radius>>

\* no time, or one nobody understands: the question is put (again)
AskTime(s) ==
    /\ spoken[s].stage = "idle"
    /\ spoken' = [spoken EXCEPT ![s] = [Untold EXCEPT !.stage = "ask"]]
    /\ UNCHANGED <<now, geocodes, radius>>

\* a place: an address, a keyword for places nearby, or a mode nobody knows, which is
\* not asked for again; asks is ConfirmationRequired, and the radius of the question
\* is the setting of the moment
SayPlace(s, kind, asks) ==
    /\ spoken[s].stage = "idle" \/ (spoken[s].stage = "ask" /\ spoken[s].kind = kind)
    /\ spoken' = [spoken EXCEPT ![s] =
         [Untold EXCEPT !.kind = kind, !.stage = IF asks THEN "confirm" ELSE "execute",
                        !.prompt = IF asks THEN radius[s] ELSE NoTime]]
    /\ UNCHANGED <<now, geocodes, radius>>

\* a vague place ("home") is dropped and asked for
AskAddress(s) ==
    /\ spoken[s].stage = "idle"
    /\ spoken' = [spoken EXCEPT ![s] = [Untold EXCEPT !.kind = "exact", !.stage = "ask"]]
    /\ UNCHANGED <<now, geocodes, radius>>

ConfirmReminder(s, yes) ==
    /\ spoken[s].stage = "confirm"
    /\ spoken' = [spoken EXCEPT ![s] = IF yes THEN [@ EXCEPT !.stage = "execute"]
                                       ELSE Tell("refused")]
    /\ UNCHANGED <<now, geocodes, radius>>

-----------------------------------------------------------------------------
(* ExecuteReminder and ExecuteLocationReminder.                            *)

\* what is made is kept beside what was asked
Made(s, x) == [spoken[s] EXCEPT !.stage = "over", !.told = "set", !.made = x,
                                !.arg = Untold.arg, !.got = 0]

\* executeReminderCreate and Service.Create: the time has to lie ahead
CreateAtTime(s) ==
    /\ spoken[s].stage = "execute" /\ spoken[s].kind = "time"
    /\ LET at == TimeOf(spoken[s].arg) IN
       spoken' = [spoken EXCEPT ![s] = IF at > now THEN Made(s, at)
                                       ELSE Tell("past")]
    /\ UNCHANGED <<now, geocodes, radius>>

RejectMode(s) ==
    /\ spoken[s].stage = "execute" /\ spoken[s].kind = "other"
    /\ spoken' = [spoken EXCEPT ![s] = Tell("failed")]
    /\ UNCHANGED <<now, geocodes, radius>>

\* the radius is the setting, read again
ReadRadius(s) ==
    /\ spoken[s].stage = "execute" /\ spoken[s].kind \in {"exact", "keyword"}
    /\ spoken' = [spoken EXCEPT ![s].got = radius[s],
                                ![s].stage = IF spoken[s].kind = "exact" THEN "lookup" ELSE "create"]
    /\ UNCHANGED <<now, geocodes, radius>>

Hit == geocodes # NoEntry /\ now < geocodes.until

\* CachingProvider.Geocode
LookUpAddress(s) ==
    /\ spoken[s].stage = "lookup"
    /\ spoken' = [spoken EXCEPT ![s] =
         IF Hit THEN [@ EXCEPT !.began = now, !.asOf = geocodes.asOf, !.stage = "create"]
         ELSE [@ EXCEPT !.began = now, !.stage = "call"]]
    /\ UNCHANGED <<now, geocodes, radius>>

\* external: the provider finds the address ...
FindAddress(s) ==
    /\ spoken[s].stage = "call"
    /\ spoken' = [spoken EXCEPT ![s].asOf = now, ![s].stage = "answer"]
    /\ UNCHANGED <<now, geocodes, radius>>

\* mutant: the time to live counts from the answer
ExpiryFromAnswer(s) == now + CacheTTL

\* the time to live counts from the look-up
Expiry(s) == spoken[s].began + CacheTTL

\* ... and its answer is kept, over that of a call that was faster
KeepAddress(s) ==
    /\ spoken[s].stage = "answer"
    /\ geocodes' = [asOf |-> spoken[s].asOf, until |-> Expiry(s)]
    /\ spoken' = [spoken EXCEPT ![s].stage = "create"]
    /\ UNCHANGED <<now, radius>>

\* not found, or the call fails: nothing is kept
AddressFails(s, unclear) ==
    /\ spoken[s].stage = "call"
    /\ spoken' = [spoken EXCEPT ![s] = Tell(IF unclear THEN "unclear" ELSE "failed")]
    /\ UNCHANGED <<now, geocodes, radius>>

\* CreateLocation takes a radius of at least 1
CreateAtPlace(s) ==
    /\ spoken[s].stage = "create"
    /\ spoken' = [spoken EXCEPT ![s] = IF spoken[s].got < 1 THEN Tell("failed")
                                       ELSE Made(s, spoken[s].got)]
    /\ UNCHANGED <<now, geocodes, radius>>

\* the settings cannot be read, or the reminder not be stored
StoreFails(s) ==
    /\ \/ spoken[s].stage = "execute" /\ spoken[s].kind # "other"
       \/ spoken[s].stage = "create"
    /\ spoken' = [spoken EXCEPT ![s] = Tell("failed")]
    /\ UNCHANGED <<now, geocodes, radius>>

-----------------------------------------------------------------------------
\* PUT /settings, in another window, while it matters
ChangeRadius(s, r) ==
    /\ spoken[s].stage \in {"confirm", "execute"} /\ ~spoken[s].changed /\ r # radius[s]
    /\ radius' = [radius EXCEPT ![s] = r]
    /\ spoken' = [spoken EXCEPT ![s].changed = TRUE]
    /\ UNCHANGED <<now, geocodes>>

ReminderElapse ==
    /\ now < LastReminder
    /\ now' = now + 1
    /\ UNCHANGED <<geocodes, radius, spoken>>

ReminderNext ==
    \/ \E s \in Speakers :
          \/ \E p \in Phrases : SayTime(s, AsSaid(p))
          \/ \E t \in 0..LastReminder : SayTime(s, Instant(t))
          \/ AskTime(s) \/ AskAddress(s)
          \/ \E kind \in ReminderKinds \ {"time"}, asks \in BOOLEAN : SayPlace(s, kind, asks)
          \/ \E yes \in BOOLEAN : ConfirmReminder(s, yes)
          \/ CreateAtTime(s) \/ RejectMode(s) \/ ReadRadius(s)
          \/ LookUpAddress(s) \/ FindAddress(s) \/ KeepAddress(s)
          \/ \E unclear \in BOOLEAN : AddressFails(s, unclear)
          \/ CreateAtPlace(s) \/ StoreFails(s)
          \/ \E r \in Radii : ChangeRadius(s, r)
    \/ ReminderElapse

-----------------------------------------------------------------------------
(* Properties.                                                             *)

\* The reminder that is set is the one that was confirmed, however long the user
\* took to say yes: at the very instant of the question, and at the radius of the
\* question unless the setting was changed since.
ReminderIsAsConfirmed ==
    \A s \in Speakers : (spoken[s].told = "set" /\ spoken[s].prompt # NoTime) =>
       spoken[s].made = spoken[s].prompt \/ (spoken[s].kind # "time" /\ spoken[s].changed)

\* The coordinates of a reminder are an answer the provider gave at most CacheTTL
\* before the address was looked up, also when its calls are slow.
AnswersAreRecent ==
    \A s \in Speakers : (spoken[s].told = "set" /\ spoken[s].kind = "exact") =>
       spoken[s].asOf + CacheTTL >= spoken[s].began

=============================================================================
