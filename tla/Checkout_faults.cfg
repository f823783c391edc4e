CONSTANTS
    r1 = r1
    r2 = r2
    r3 = r3
    soup = soup
    rice = rice
    k1 = k1
    None = None
    Requests = {r1, r2}
    Items = {soup, rice}
    Keys = {k1}
    Baskets <- MCBaskets
    InitStock <- MCStock
    MaxPerSlot = 1
    LastWindow = 1
    MaxUnits = 2
    PoolSize = 3
    Failing <- MCAllSteps
    Lapsing = {"key"}
    MayCrash = TRUE
SPECIFICATION Spec
SYMMETRY MCSymmetry
INVARIANTS
    TypeOK
    OneOrderPerKey
    SameKeySameAnswer
    StockMatchesOrders
    MutualExclusion
    SlotAccounting
    AnnouncedAreQueued
    KitchenNotOverbooked
PROPERTIES
    ImplementsShop
