SPECIFICATION SettleSpec
CONSTANTS
    w1 = w1
    h1 = h1
    t1 = t1
    t2 = t2
    t3 = t3
    Requests = {w1}
    Hosts = {h1}
    Tasks = {t1, t2, t3}
    Nobody = Nobody
    Amounts = {1, 2}
    AutoApproved = {1}
    InitialBeans = 2
    MaxPerWindow = 1
    CashfreeConfigured = TRUE
    MaxDeciding = 1
    MaxCrashes = 0
    MaxOutages = 0
    MaxLostWebhooks = 1
INVARIANTS
    PaidWasTransferred
PROPERTIES
    PayoutsSettle
    ReversalsReturn
\* The system stops when every request of the instance has ended.
CHECK_DEADLOCK FALSE
