SPECIFICATION FairSpec
CONSTANTS
    u1 = u1
    t1 = t1
    t2 = t2
    Users = {u1}
    Buyer = u1
    Hosts = {1, 2}
    Star = 1
    Tasks = {t1, t2}
    InitialBalance = 12
    TickCost = 3
    GiftPrice = 5
    MessagePrice = 3
    LevelStep = 1
    Commissions <- MCCommissions
    PaisePerBean = 2
    BeansPerLevel = 2
    MaxHostLevel = 3
    DayLength = 1
    DaysPerWeek = 2
    MaxSummaryDays = 2
    HistoryLimit = 1
    MaxTransaction = 1
    Grace = 1
    DailyLookback = 2
    WeeklyLookback = 1
    Tables <- MCTables
    LastInstant = 1
    MaxNow = 3
    MaxRows = 5
    MaxCalls = 1
    MaxConfigs = 1
    MaxCrashes = 1
    DaySpan = 3
    Bounds = {1, 2, 3}
    SlabRates = {1, 2}
    Minima = {2, 3, 4}
    MaxActivities = 3
    MaxSlabs = 2
INVARIANTS
    WalletsReconcile
    RanksAreFinal
    ReportsAgree
    OnlineTimeIsUnion
    MinimumIsLeast
PROPERTIES
    RewardsSettle
CHECK_DEADLOCK FALSE
