CONSTANTS
    home = home
    middle = middle
    far = far
    west = west
    museum = museum
    bazaar = bazaar
    palace = palace
    dam = dam
    canyon = canyon
    meadow = meadow
    NoCity = NoCity
    OriginCity = home
    Pois <- MCPois
    Cities <- MCCities
    CityOf <- MCCityOf
    Drive <- MCDrive
    Gap <- MCGap
    VisitTime <- MCVisitTime
    Opens <- MCOpens
    Closes <- MCCloses
    Never <- MCNever
    StayCities <- MCStayCities
    Routes <- MCRoutes
    Requests <- MCRequests
    Catalogue <- MCCatalogue
    Group <- MCGroup
    Vehicle <- MCVehicle
    OffRoute <- MCOffRoute
    Elevation <- MCElevation
    Prices <- MCPrices
    CityCost <- MCCityCost
    MountainShare = 30
    BudgetQueries <- MCBudgetQueries
    Skies <- MCSkies
    NearHome <- MCNearHome
    Sector <- MCSector
    Listing <- MCListing
    CustomStops = {meadow}
    NightOrder <- MCNightOrder
    Queries <- MCQueries
    Wishes <- MCWishes
    Offers <- MCOffers
    Lengths = {1, 2, 3, 5}
    Caps = {3, 8}
    Ends = {16, 22}
    Paces = {"packed", "relaxed"}
    Comforts = {{"evening"}, {"picnic", "rest"}}
    PinSets = {{}, {canyon, meadow}, {museum, palace}, {bazaar, dam, canyon, meadow}}
    ExcludedSets = {{}, {bazaar, dam}}
    Journeys = {"loop", "away", "corridor", "stay", "mixed"}
SPECIFICATION OptimizerSpec
CHECK_DEADLOCK FALSE
INVARIANTS RouteAsAsked WishesAnswered DaysAddUp 
