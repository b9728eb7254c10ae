SPECIFICATION Spec
CONSTANTS
    h1 = h1
    u1 = u1
    t1 = t1
    t2 = t2
    Hosts = {h1}
    Tabs = {1, 2}
    Tasks = {t1, t2}
    Redis = TRUE
    Limits <- MCStarts
    Viewers = {u1}
INVARIANTS
    OneAtATime
CHECK_DEADLOCK FALSE
