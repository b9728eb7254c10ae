SPECIFICATION FairSpec
CONSTANTS
    h1 = h1
    u1 = u1
    t1 = t1
    t2 = t2
    Hosts = {h1}
    Tabs = {1, 2}
    Tasks = {t1, t2}
    Redis = TRUE
    Limits <- MCLimits
    Viewers = {u1}
INVARIANTS
    SecondStartsRefused
    GoneWithTheBroadcast
    PulledTracksExist
PROPERTIES
    SessionsEndWithPresence
    AbandonedEnds
CHECK_DEADLOCK FALSE
