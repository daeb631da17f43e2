CONSTANTS
    home = home
    middle = middle
    far = far
    museum = museum
    bazaar = bazaar
    camp = camp
    palace = palace
    NoCity = NoCity
    Pois <- MCPois
    Cities <- MCCities
    CityOf <- MCCityOf
    Drive <- MCDrive
    Gap <- MCGap
    VisitTime <- MCVisitTime
    Opens <- MCOpens
    Closes <- MCCloses
    Never <- MCNever
    OriginCity = home
    StayCities <- MCStayCities
    Routes <- MCRoutes
    Requests <- MCRequests
    Lengths = {1, 3}
    Caps = {3, 6}
    Ends = {17, 23}
    Starts = {8, 10}
    Paces = {1, 9}
    Comforts = {{"picnic"}, {"evening", "check-in", "rest"}}
    Pins = {NoCity, bazaar}
SPECIFICATION Spec
CHECK_DEADLOCK FALSE
INVARIANTS TypeOK BlocksFollowEachOther NothingLost VisitsInsideHours
    CapOnSightseeing EndsWherePromised DaysAreBearable
