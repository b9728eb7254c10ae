SPECIFICATION MCSpec
CONSTANTS
    c1 = c1
    u1 = u1
    h1 = h1
    t1 = t1
    t2 = t2
    Calls = {c1}
    Users = {u1}
    Hosts = {h1}
    Tasks = {t1, t2}
    Nobody = Nobody
    Rates = {2}
    Commission = 3000
    PaisePerBean = 1
    InitialBalance = 2
    RedisEnabled = FALSE
    MaxCrashes = 1
INVARIANTS
    TypeOK
    LedgerMatchesTotals
    BillShortByOneTickAtMost
    MoneyConserved
PROPERTIES
    GuardedEndsYield
    CallsEnd
    TicksOneByOne
    TimersStop
CHECK_DEADLOCK FALSE
