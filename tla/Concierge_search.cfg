CONSTANTS
    soup = soup
    rice = rice
    thai = thai
    None = None
    Dishes = {soup, rice}
    Restaurants = {thai}
    Of <- MCOf
    List = List
    Edited = {soup, thai}
    MaxStock = 0
    MaxEdits = 1
    Asked = {}
    Readers = {}
    Attempts = 2
SPECIFICATION FairSpec
INVARIANTS
    TypeOK
    NoneForgotten
PROPERTIES
    IndexConverges
