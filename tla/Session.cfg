CONSTANTS
    u1 = u1
    u2 = u2
    f1 = f1
    f2 = f2
    NoUser = NoUser
    Users <- MCUsers
    Fibers <- MCFibers
    MaxSignIns = 2
    MaxExpiries = 1
    MaxTroubles = 1
    Patient = TRUE
SPECIFICATION FairSpec
INVARIANTS  ExpiryIsInvisible
PROPERTIES CallsEnd
CHECK_DEADLOCK FALSE
