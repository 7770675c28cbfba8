\* Three messages to the agent with two steps and two sessions; a week of three
\* days with five ticks, two calendars, two people, two accounts; two speakers.
SPECIFICATION FairExecutionSpec
CONSTANTS
    NumMessages = 3
    NumSessions = 2
    MaxSteps = 2
    NoSession = NoSession
    c1 = c1
    c2 = c2
    WeekDays = 3
    Weekend = {2}
    DayTicks = 5
    WorkStart = 1
    WorkEnd = 4
    DefaultTick = 2
    Duration = 2
    Horizon = 10
    ZoneOffset = 2
    Calendars = {c1, c2}
    Agendas <- MCAgendas
    LastTick = 20
    LastNow = 8
    MaxPeople = 2
    MaxAccounts = 2
    Clocks = {1, 3}
    NoTime = NoTime
    Speakers = {s1, s2}
    Radii = {1, 2}
    DefaultRadius = 1
    CacheTTL = 1
    NoEntry = NoEntry
    LastReminder = 3
INVARIANTS
    OutcomesAreUnderstood
    AnswersAreObeyed
    SlotsAreExplained
    
    OneEventPerMeeting
    ReminderIsAsConfirmed
    AnswersAreRecent
PROPERTIES
    TurnsEnd
CHECK_DEADLOCK FALSE
