SPECIFICATION FairSpec
CONSTANTS
    u1 = u1
    u2 = u2
    m1 = m1
    m2 = m2
    m3 = m3
    t1 = t1
    t2 = t2
    Accounts = {u1, u2}
    Main = u1
    Tasks = {t1, t2}
    DeviceThreshold = 2
    CaptureThreshold = 2
    MaxTokens = 2
    MaxSubmissions = 2
    MaxCaptures = 2
    MaxReports = 1
    MaxCrashes = 1
    Methods = {m1, m2, m3}
    MaxRestarts = 1
INVARIANTS
    EveryAccountHasItsWallet
    ApprovedWasApproved
    SignalsHaveEvidence
    OnePrimary
PROPERTIES
    SuspendedLosesSessions
CHECK_DEADLOCK FALSE
