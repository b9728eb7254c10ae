SPECIFICATION MCSpec
CONSTANTS
    w1 = w1
    w2 = w2
    h1 = h1
    t1 = t1
    t2 = t2
    Requests = {w1, w2}
    Hosts = {h1}
    Tasks = {t1, t2}
    Nobody = Nobody
    Amounts = {1, 2}
    AutoApproved = {1}
    InitialBeans = 2
    MaxPerWindow = 2
    CashfreeConfigured = TRUE
    MaxDeciding = 1
    MaxCrashes = 1
    MaxOutages = 1
    MaxLostWebhooks = 1
SYMMETRY Symmetry
INVARIANTS
    NeverPaidAndReturned
    ReturnedOnce
    BalanceIsLedger
PROPERTIES
    KeepsContract
\* The system stops when every request of the instance has ended.
CHECK_DEADLOCK FALSE
