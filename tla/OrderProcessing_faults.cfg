CONSTANTS
    o1 = o1
    o2 = o2
    w1 = w1
    None = None
    Orders = {o1, o2}
    Workers = {w1}
    Decisions <- MCDecisions
    MaxAttempts = 2
    MaxStalls = 1
    Failing <- MCFailing
    Losing <- MCLosing
    LocksLapse = TRUE
    MayCrash = TRUE
SPECIFICATION FairSpec
INVARIANTS
    TypeOK
    ChargedOnce
    OneConfirmation
    ToldOnlyPaid
    CompletedIsHandled
PROPERTIES
    EveryJobSettles
