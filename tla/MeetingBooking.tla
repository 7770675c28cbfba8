--------------------------- MODULE MeetingBooking ---------------------------
(***************************************************************************)
(* Booking a meeting with the google-calendar-meet plugin: the slot        *)
(* recommendation (src/internal/domain/calendar/availability/service.go),  *)
(* the times a user may name and the questions asked                       *)
(* (src/internal/domain/assistant/google_calendar_meet.go), the payload    *)
(* (assistant/builtin/google_calendar_meet.go, datetime.go), and the tool  *)
(* call with its list of accounts (src/pkg/composio/composio.go).          *)
(*                                                                         *)
(* The dialogue is one conversation; what happens when messages of a       *)
(* session overlap is the subject of AssistantSession.                     *)
(***************************************************************************)
EXTENDS SpokenTimes, FiniteSetsExt

CONSTANTS
    Weekend,               \* days without meetings
    WorkStart, WorkEnd,    \* WorkDayStartHour, WorkDayEndHour
    Duration,              \* DefaultMeetingDuration
    Horizon,               \* SearchHorizonDays, in ticks
    ZoneOffset,            \* how far MeetingTimezone is ahead of UTC, in ticks
    Calendars,             \* the organizer's calendar and the attendees'
    Agendas,               \* what a calendar may hold when it is looked at
    LastTick,              \* bound: the end of the calendars looked at
    MaxPeople,             \* bound: names and addresses
    MaxAccounts            \* bound: connected accounts in the manifest

ASSUME BookingAssumption ==
    /\ Weekend \subseteq 0..(WeekDays - 1)
    /\ WorkStart \in Nat /\ WorkEnd \in 0..DayTicks /\ WorkStart < WorkEnd
    /\ Duration \in Nat \ {0} /\ Horizon \in Nat /\ ZoneOffset \in Nat
    /\ LastTick \in Nat /\ LastNow + Horizon + ZoneOffset <= LastTick
    /\ MaxPeople \in Nat /\ MaxAccounts \in Nat
    /\ \A agenda \in Agendas : agenda \subseteq 0..LastTick

VARIABLES
    busy,      \* external: per calendar the ticks that are taken
    confirms,  \* Manifest.ConfirmationRequired, fixed
    accounts,  \* how many connected_account_ids the manifest pins, fixed
    talk       \* the pending action, and where the request that serves it is

bookingVars == <<now, busy, confirms, accounts, talk>>

Ticks == 0..LastTick

-----------------------------------------------------------------------------
(* availability/service.go                                                 *)

\* External: the free ticks between now and the horizon, of the calendars asked
\* for together, or, in the nested form, of each on its own.
Free(calendars, held) ==
    {t \in now..(now + Horizon - 1) : \A c \in calendars : t \notin held[c]}

\* parseFlexibleTime: an instant with a zone is what it says; one without is of the
\* zone that was asked for, but read as UTC, so that much later
ReadAs(free, zoned) == {t + (IF zoned THEN 0 ELSE ZoneOffset) : t \in free}

\* parseFreeSlots: the blocks of the answer; of the nested form the calendar that
\* happens to come first is read
Blocks(free) ==
    {b \in [start : free, end : {t + 1 : t \in free}] :
        /\ b.start < b.end
        /\ (b.start..(b.end - 1)) \subseteq free
        /\ b.start - 1 \notin free /\ b.end \notin free}

\* mutant: only the start of the meeting has to lie in the working hours
ValidUpToStart(t) ==
    /\ WeekdayOf(t) \notin Weekend
    /\ WorkStart <= TickOfDay(t) /\ TickOfDay(t) < WorkEnd

Meeting(t) == t..(t + Duration - 1)

IsValidSlotStart(t) ==
    /\ WeekdayOf(t) \notin Weekend
    /\ WorkStart <= TickOfDay(t) /\ TickOfDay(t) + Duration <= WorkEnd

\* a meeting can begin where a block begins, if it fits
FilterSlotStarts(blocks) ==
    {b.start : b \in {b \in blocks : b.end - b.start >= Duration /\ IsValidSlotStart(b.start)}}

RecommendSlot(free) ==
    LET starts == FilterSlotStarts(Blocks(free))
    IN  IF starts = {} THEN NoTime ELSE Min(starts)

-----------------------------------------------------------------------------
(* A time the user names.                                                  *)

\* isExplicitDateTime: a day, an "at" or figures; a period of the day is not enough
Explicit(p) == NamesWeekday(p) \/ p.day # "none" \/ p.form \in {"at", "first", "last"}

\* parseNaturalMeetingTime, reached when no clock time was understood: the day
\* named, at the default time
ParseDay(p) ==
    LET ahead == IF NamesWeekday(p)
                 THEN CHOOSE d \in 0..(WeekDays - 1) : (DayOf(now) + d) % WeekDays = p.weekday
                 ELSE 0
        target == (DayOf(now) + ahead) * DayTicks + DefaultTick
    IN  IF p.day = "tomorrow" \/ (p.day # "today" /\ target < now)
        THEN target + DayTicks ELSE target

ParseExplicitMeetingTime(p) == IF Understood(p) THEN ParseDateTime(p) ELSE ParseDay(p)

\* an address that is spoken has an "at" and no time
SpokenAddress == [weekday |-> NoTime, day |-> "none", clock |-> NoTime, form |-> "at"]

-----------------------------------------------------------------------------
(* The dialogue.  how, from, phrase, free, whole, since and told are       *)
(* history: where the time comes from, the answer as it was read, whether  *)
(* that was the free time of everybody, and what has been taken since;     *)
(* created counts the events made, lost the calls that made one but        *)
(* returned an error.                                                      *)

Silence == [stage |-> "idle", names |-> 0, emails |-> 0, wants |-> FALSE, start |-> NoTime,
            how |-> "none", from |-> 0, phrase |-> SpokenAddress, free |-> {}, since |-> {},
            whole |-> TRUE, account |-> 0, notFound |-> FALSE, created |-> 0, lost |-> 0,
            told |-> "none"]

Stages == {"idle", "email", "time", "lookup", "confirm", "create", "over"}

BookingTypeOK ==
    /\ now \in 0..LastNow
    /\ busy \in [Calendars -> SUBSET Ticks]
    /\ confirms \in BOOLEAN /\ accounts \in 0..MaxAccounts
    /\ talk.stage \in Stages /\ talk.names \in 0..MaxPeople /\ talk.emails \in 0..MaxPeople
    /\ talk.start \in Int \cup {NoTime} /\ talk.phrase \in Phrase
    /\ talk.account \in 0..(MaxAccounts + 1) /\ talk.created \in Nat /\ talk.lost \in Nat

BookingInit ==
    /\ now = 0
    /\ busy = [c \in Calendars |-> {}]
    /\ confirms \in BOOLEAN
    /\ accounts \in 0..MaxAccounts
    /\ talk = Silence

\* advanceGoogleCalendarMeet: addresses first, then a time, then the confirmation
Advance(t) ==
    [t EXCEPT !.stage =
        IF t.emails < t.names THEN "email"
        ELSE IF t.start = NoTime /\ t.wants THEN "lookup"
        ELSE IF t.start = NoTime THEN "time"
        ELSE IF confirms THEN "confirm" ELSE "create"]

\* a text joins the arguments: a request for a slot is remembered, a time is taken
\* once nothing is missing before it
Hear(t, p) ==
    IF Explicit(p) /\ ~t.wants /\ t.emails >= t.names /\ t.start = NoTime
    THEN [t EXCEPT !.start = ParseExplicitMeetingTime(p), !.how = "named", !.phrase = p,
                   !.from = now]
    ELSE t

\* the classifier has found names and, perhaps, addresses
Ask(names, emails, p, wants) ==
    /\ talk.stage = "idle"
    /\ talk' = Advance(Hear([Silence EXCEPT !.names = names, !.emails = emails, !.wants = wants],
                            p))
    /\ UNCHANGED <<now, busy, confirms, accounts>>

GiveEmail(p) ==
    /\ talk.stage = "email"
    /\ talk' = Advance(Hear([talk EXCEPT !.emails = @ + 1], p))
    /\ UNCHANGED <<now, busy, confirms, accounts>>

\* handleGoogleCalendarMeetPending; any other text repeats the question
GiveTime(p, wants) ==
    /\ talk.stage = "time"
    /\ wants \/ Explicit(p)
    /\ talk' = Advance(Hear([talk EXCEPT !.wants = wants], p))
    /\ UNCHANGED <<now, busy, confirms, accounts>>

\* recommendMeetingSlot: a slot is always confirmed.  held is what the calendars
\* hold at this moment, read those of them whose free blocks are looked at.
Lookup(held, read, zoned) ==
    LET free == ReadAs(Free(read, held), zoned)
        slot == RecommendSlot(free)
        seen == [talk EXCEPT !.from = now, !.free = free, !.since = {},
                             !.whole = zoned /\ read = Calendars]
    IN
    /\ talk.stage = "lookup"
    /\ busy' = held
    /\ talk' = IF slot = NoTime
               THEN [seen EXCEPT !.stage = "over", !.told = "noslot"]
               ELSE [seen EXCEPT !.stage = "confirm", !.start = slot, !.wants = FALSE,
                                 !.how = "recommended"]
    /\ UNCHANGED <<now, confirms, accounts>>

\* no calendar connected, or the tool call fails
LookupFails ==
    /\ talk.stage = "lookup"
    /\ talk' = [talk EXCEPT !.stage = "over", !.told = "trouble"]
    /\ UNCHANGED <<now, busy, confirms, accounts>>

Confirm(yes) ==
    /\ talk.stage = "confirm"
    /\ talk' = IF yes THEN [talk EXCEPT !.stage = "create"]
               ELSE [talk EXCEPT !.stage = "over", !.told = "refused"]
    /\ UNCHANGED <<now, busy, confirms, accounts>>

-----------------------------------------------------------------------------
(* ComposioExecutor, MapGoogleCalendarMeetArgs and Client.Execute.         *)

\* mutant: the numbers of names and addresses are not compared
PayloadOfAnyone(t) == t.names > 0 /\ t.emails > 0

\* a payload needs people, and an address for each of them
PayloadOK(t) == t.names > 0 /\ t.emails > 0 /\ t.names = t.emails

\* the pinned accounts in order, then once none, if one of them was unknown
AfterError(t, found) ==
    LET missed == t.notFound \/ ~found IN
    IF t.account < accounts
    THEN [t EXCEPT !.account = @ + 1, !.notFound = missed]
    ELSE IF t.account = accounts /\ accounts > 0 /\ missed
    THEN [t EXCEPT !.account = @ + 1, !.notFound = missed]
    ELSE [t EXCEPT !.stage = "over", !.told = "failed"]

Reject ==
    /\ talk.stage = "create" /\ talk.account = 0 /\ ~PayloadOK(talk)
    /\ talk' = [talk EXCEPT !.stage = "over", !.told = "failed"]
    /\ UNCHANGED <<now, busy, confirms, accounts>>

\* with accounts pinned the first attempt is theirs
FirstAccount ==
    /\ talk.stage = "create" /\ talk.account = 0 /\ accounts > 0 /\ PayloadOK(talk)
    /\ talk' = [talk EXCEPT !.account = 1]
    /\ UNCHANGED <<now, busy, confirms, accounts>>

Attempting == talk.stage = "create" /\ PayloadOK(talk) /\ (talk.account > 0 \/ accounts = 0)

\* executeOnce: the event is created ...
Created ==
    /\ Attempting
    /\ talk' = [talk EXCEPT !.stage = "over", !.told = "booked", !.created = @ + 1]
    /\ UNCHANGED <<now, busy, confirms, accounts>>

\* ... or the call fails, and then the event may have been created all the same
Failed(found, made) ==
    /\ Attempting
    /\ made => found
    /\ talk' = AfterError([talk EXCEPT !.created = @ + (IF made THEN 1 ELSE 0),
                                       !.lost = @ + (IF made THEN 1 ELSE 0)], found)
    /\ UNCHANGED <<now, busy, confirms, accounts>>

-----------------------------------------------------------------------------
\* Others use their calendars while the user thinks it over; only the time that was
\* recommended is looked at.
Take(c, t) ==
    /\ talk.stage = "confirm" /\ talk.how = "recommended"
    /\ t \in Meeting(talk.start) \ busy[c] /\ talk.since = {}
    /\ busy' = [busy EXCEPT ![c] = @ \cup {t}]
    /\ talk' = [talk EXCEPT !.since = @ \cup {t}]
    /\ UNCHANGED <<now, confirms, accounts>>

\* the clock is looked at where something depends on it
Elapse ==
    /\ now < LastNow /\ talk.stage \in {"idle", "time", "lookup"}
    /\ now' = now + 1
    /\ UNCHANGED <<busy, confirms, accounts, talk>>

BookingNext ==
    \/ talk.stage = "idle" /\ \E names, emails \in 0..MaxPeople, p \in Phrases, wants \in BOOLEAN :
          Ask(names, emails, p, wants)
    \/ talk.stage = "time" /\ \E p \in Phrases, wants \in BOOLEAN : GiveTime(p, wants)
    \/ \E spoken \in BOOLEAN :
          GiveEmail(IF spoken THEN SpokenAddress ELSE [SpokenAddress EXCEPT !.form = "none"])
    \/ \E held \in [Calendars -> Agendas], zoned \in BOOLEAN :
          Lookup(held, Calendars, zoned) \/ \E c \in Calendars : Lookup(held, {c}, zoned)
    \/ LookupFails
    \/ \E yes \in BOOLEAN : Confirm(yes)
    \/ Reject \/ FirstAccount \/ Created
    \/ \E found, made \in BOOLEAN : Failed(found, made)
    \/ \E c \in Calendars, t \in Ticks : Take(c, t)
    \/ Elapse

-----------------------------------------------------------------------------
(* Properties.                                                             *)

\* A recommended meeting lies ahead and within the working hours of a working day,
\* however the answer was read.  When the answer spoke of everybody at once, with the
\* zone of its times, the meeting is within the horizon, too, and clashes with
\* nothing in anybody's calendar but what was taken since.
RecommendedIsBookable ==
    talk.how = "recommended" =>
       /\ talk.start >= talk.from
       /\ WeekdayOf(talk.start) \notin Weekend
       /\ \A t \in Meeting(talk.start) : TickOfDay(t) \in WorkStart..(WorkEnd - 1)
       /\ Meeting(talk.start) \subseteq talk.free
       /\ talk.whole => /\ talk.start + Duration <= talk.from + Horizon
                        /\ \A t \in Meeting(talk.start), c \in Calendars :
                              t \in busy[c] => t \in talk.since

\* the answer, as it was read, had room for a meeting at t
Room(t) == IsValidSlotStart(t) /\ Meeting(t) \subseteq talk.free

\* RecommendSlot is to return the earliest slot, and an error only when there is none.
\* Where it falls short of that, because a later slot is recommended or none at all,
\* the slot it passed over began inside a longer free block of the answer.
OverlookedIsInsideABlock ==
    /\ talk.told = "noslot" => \A t \in talk.free : Room(t) => t - 1 \in talk.free
    /\ talk.how = "recommended" =>
          \A t \in talk.free : Room(t) /\ t < talk.start => t - 1 \in talk.free

\* A time the user names lies ahead, unless it is said to be today without a clock
\* time that is understood.  It is on the weekday named unless a clock time was
\* understood beside it (then the weekday is lost: "friday morning" is the next
\* morning), or the default time of that very day has passed.  And it is at the
\* clock time said unless that follows other words ("friday 3pm" is at the default
\* time).
NamedTimeIsExplained ==
    talk.how = "named" =>
       /\ talk.start >= talk.from \/ (talk.phrase.day = "today" /\ ~Understood(talk.phrase))
       /\ NamesWeekday(talk.phrase) =>
             \/ WeekdayOf(talk.start) = talk.phrase.weekday
             \/ Understood(talk.phrase)
             \/ WeekdayOf(talk.from) = talk.phrase.weekday /\ TickOfDay(talk.from) > DefaultTick
       /\ talk.phrase.clock # NoTime =>
             TickOfDay(talk.start) = talk.phrase.clock \/ talk.phrase.form = "last"

\* A confirmed meeting makes one event, whatever the accounts answer, and one more
\* for each call that made it but came back as an error; it is made only when there
\* is an address for everybody who was named, and success is reported when it is.
OneEventPerMeeting ==
    /\ talk.created <= talk.lost + 1
    /\ talk.created > 0 => talk.names = talk.emails
    /\ talk.told = "booked" <=> talk.created = talk.lost + 1

=============================================================================
