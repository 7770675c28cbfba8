SPECIFICATION BackendSpec
CONSTANTS
    i1 = i1
    i2 = i2
    i3 = i3
    o1 = o1
    w1 = w1
    c1 = c1
    c2 = c2
    u1 = u1
    k1 = k1
    k2 = k2
    s1 = s1
    e1 = e1
    e2 = e2
    h1 = h1
    h2 = h2
    Ids = {i1, i2, i3}
    Owners = {o1}
    Words = {w1}
    Claimers = {c1, c2}
    Drivers = {"postgres", "mongo", "memory"}
    DayLength = 2
    Times = {1, 2, 3}
    MaxStamp = 2
    DefaultPage = 2
    MaxPage = 2
    Users = {u1}
    Connections = {k1, k2}
    Limit = 2
    Window = 2
    AccessTTL = 1
    RefreshTTL = 2
    LastTick = 3
    Limiters = {"memory", "redis", "off"}
    MaxCount = 3
    MaxTokens = 4
    Slugs = {s1}
    Editions = {e1, e2}
    Handlers = {h1, h2}
    PluginTTL = 2
    None = None
    Absent = Absent
    Nothing = Nothing
SYMMETRY Symmetry
INVARIANTS
    QuestionsAreAnswered
    ClaimedOnce
    MissedIsExplained
    AdmissionsAreFair
    RolesWereHeld
    CatalogStaleIsExplained
CHECK_DEADLOCK FALSE
