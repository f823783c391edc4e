CONSTANTS
    o1 = o1
    o2 = o2
    Owner = Owner
    Rider = Rider
    Guest = Guest
    None = None
    Orders = {o1}
    MaxWire = 1
    MayCrash = TRUE
SPECIFICATION FairSpec
INVARIANTS
    TypeOK
    InItsRoom
PROPERTIES
    KitchenHearsNew
    TripsConverge
