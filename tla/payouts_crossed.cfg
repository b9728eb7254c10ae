SPECIFICATION PayoutSpec
CONSTANTS
    m1 = m1
    m2 = m2
    m3 = m3
    t1 = t1
    t2 = t2
    Tasks = {t1, t2}
    Methods = {m1, m2, m3}
    MaxRestarts = 1
INVARIANTS
    AlwaysOnePrimary
CHECK_DEADLOCK FALSE
