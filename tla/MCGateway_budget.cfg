SPECIFICATION GatewaySpec
CONSTANTS
    u1 = u1
    k1 = k1
    k2 = k2
    Users = {u1}
    Connections = {k1, k2}
    Limit = 1
    Window = 2
    Limiters = {"memory", "redis"}
    AccessTTL = 2
    RefreshTTL = 3
    LastTick = 3
    MaxCount = 2
    MaxTokens = 2
    Absent = Absent
INVARIANT BudgetIsTheUsers
CHECK_DEADLOCK FALSE
