CONSTANTS
    soup = soup
    rice = rice
    cake = cake
    thai = thai
    bakery = bakery
    c1 = c1
    c2 = c2
    None = None
    Dishes = {soup, cake}
    Restaurants = {thai, bakery}
    Of <- MCOf
    Calls = {c1, c2}
    MayFail = TRUE
SPECIFICATION FairSpec
INVARIANTS
    TypeOK
    OneRestaurant
PROPERTIES
    AbandonedCartExpires
