----------------------------- MODULE SpokenTimes -----------------------------
(***************************************************************************)
(* Times as users say them, and the clock they are understood by:          *)
(* builtin.ParseDateTime (src/internal/domain/assistant/builtin/           *)
(* datetime.go), shared by the reminders and the meetings.                 *)
(*                                                                         *)
(* Time is counted in ticks from the Monday on which the behaviour begins, *)
(* in the one time zone times are understood in (UTC for reminders, the    *)
(* zone of meetings for meetings).                                         *)
(***************************************************************************)
EXTENDS Integers, FiniteSets

CONSTANTS
    WeekDays,     \* days of a week
    DayTicks,     \* ticks of a day
    DefaultTick,  \* the time of day (2 PM) when none is understood
    Clocks,       \* the clock times users say, periods of the day among them
    LastNow,      \* bound: where the clock stops
    NoTime        \* nothing said

ASSUME TimesAssumption ==
    /\ WeekDays \in Nat \ {0} /\ DayTicks \in Nat \ {0} /\ LastNow \in Nat
    /\ DefaultTick \in 0..(DayTicks - 1) /\ Clocks \subseteq 0..(DayTicks - 1)
    /\ NoTime \notin Int

VARIABLE now   \* the clock

DayOf(t) == t \div DayTicks
WeekdayOf(t) == DayOf(t) % WeekDays
TickOfDay(t) == t % DayTicks

\* A weekday, or today or tomorrow, and perhaps a clock time.  form is where the time
\* is: after an " at ", figures that come first ("3pm friday") or after other words
\* ("friday 3pm", "at 3pm"), or a period of the day ("friday morning").
Phrase == [weekday : (0..(WeekDays - 1)) \cup {NoTime}, day : {"none", "today", "tomorrow"},
           clock : Clocks \cup {NoTime}, form : {"none", "at", "first", "last", "period"}]

\* a phrase says at most one of the two days, and an "at" may be part of an address
Phrases ==
    {p \in Phrase : /\ p.weekday = NoTime \/ p.day = "none"
                    /\ p.form \in (IF p.clock = NoTime THEN {"none", "at"}
                                   ELSE {"at", "first", "last", "period"})}

NamesWeekday(p) == p.weekday # NoTime

\* ParseDateTime looks after the "at", else at the figures a text begins with once
\* today, tomorrow and this are taken out of it, else for a period of the day
Understood(p) == p.clock # NoTime /\ p.form # "last"

\* mutant: a time of today that has passed is kept
ParseStale(p) == DayOf(now) * DayTicks + p.clock + (IF p.day = "tomorrow" THEN DayTicks ELSE 0)

\* parseNaturalDateTime: the next time the clock shows it, whatever the weekday
ParseDateTime(p) ==
    LET target == DayOf(now) * DayTicks + p.clock
    IN  IF p.day = "tomorrow" \/ target <= now THEN target + DayTicks ELSE target

=============================================================================
