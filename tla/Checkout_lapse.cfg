CONSTANTS
    r1 = r1
    r2 = r2
    r3 = r3
    soup = soup
    rice = rice
    k1 = k1
    None = None
    Requests = {r1, r2, r3}
    Items = {soup, rice}
    Keys = {}
    Baskets <- MCCrossed
    InitStock <- MCStock
    MaxPerSlot = 2
    LastWindow = 0
    MaxUnits = 2
    PoolSize = 2
    Failing = {}
    Lapsing = {"lock"}
    MayCrash = FALSE
SPECIFICATION FairSpec
INVARIANTS
    RejectedLeavesNothing
PROPERTIES
    OnlyOwnLockReleased
    EveryRequestAnswered
CHECK_DEADLOCK FALSE
