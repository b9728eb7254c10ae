SPECIFICATION FairSpec
CONSTANTS
    u1 = u1
    h1 = h1
    k1 = k1
    t1 = t1
    t2 = t2
    Users = {u1}
    Hosts = {h1}
    Tickets = {k1}
    Tasks = {t1, t2}
    InitialBalance = 3
    MessageRate = 1
    GiftPrice = 2
    CommissionBasisPoints = 3000
    PaisePerBean = 1
    MaxFree = 1
    MaxGiftRequests = 2
    MaxBlocks = 1
    MaxFlagged = 1
    Redis = TRUE
    MaxReplies = 1
    MaxModelCalls = 2
    MaxMessages = 3
    MaxExpiries = 1
    MaxRestarts = 1
INVARIANTS
    PaidForExactly
    AcceptedWereGifts
    BotKeepsItsPlace
PROPERTIES
    OwnerHeard
CHECK_DEADLOCK FALSE
