SPECIFICATION FairSpec
CONSTANTS
    o1 = o1
    o2 = o2
    u1 = u1
    t1 = t1
    t2 = t2
    Orders = {o1, o2}
    Users = {u1}
    Nobody = Nobody
    Tasks = {t1, t2}
    Sizes = {1}
    InitialDays = 1
    Deployments = {"production", "sandbox", "stub"}
    MaxFaults = 1
INVARIANTS
    RechargedOnce
    SucceededWasPaid
    VipDaysDelivered
PROPERTIES
    SettledForGood
    PaidIsCredited
\* The system stops when every order of the instance is settled.
CHECK_DEADLOCK FALSE
