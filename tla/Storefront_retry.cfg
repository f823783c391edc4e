CONSTANTS
    soup = soup
    rice = rice
    cake = cake
    thai = thai
    bakery = bakery
    g1 = g1
    g2 = g2
    None = None
    Dishes = {soup, cake}
    Restaurants = {thai, bakery}
    Of <- MCOf
    List = List
    Edited = {soup, thai}
    MaxStock = 2
    MaxEdits = 1
    Asked = {thai, List}
    Readers = {g1, g2}
    Page = g1
SPECIFICATION FairSpec
PROPERTIES
    OneOrderPerBasket
