SPECIFICATION Spec
CONSTANTS
    w1 = w1
    h1 = h1
    t1 = t1
    t2 = t2
    Requests = {w1}
    Hosts = {h1}
    Tasks = {t1, t2}
    Nobody = Nobody
    Amounts = {1, 2}
    AutoApproved = {1}
    InitialBeans = 2
    MaxPerWindow = 1
    CashfreeConfigured = TRUE
    MaxDeciding = 2
    MaxCrashes = 0
    MaxOutages = 0
    MaxLostWebhooks = 0
INVARIANT
    ReturnedOnce
\* The system stops when every request of the instance has ended.
CHECK_DEADLOCK FALSE
