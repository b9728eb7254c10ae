SPECIFICATION Spec
CONSTANTS
    o1 = o1
    o2 = o2
    u1 = u1
    t1 = t1
    t2 = t2
    Orders = {o1, o2}
    Users = {u1}
    Nobody = Nobody
    Tasks = {t1, t2}
    Sizes = {1}
    InitialDays = 0
    Deployments = {"production"}
    MaxFaults = 0
INVARIANT
    VipDaysDelivered
\* The system stops when every order of the instance is settled.
CHECK_DEADLOCK FALSE
