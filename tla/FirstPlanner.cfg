CONSTANTS
    home = home
    hill = hill
    sand = sand
    sea = sea
    museum = museum
    cave = cave
    fort = fort
    beach = beach
    picnic = picnic
    Listing <- MCListing
    CityListing <- MCCityListing
    Poi <- MCPoi
    City <- MCCity
    Straight <- MCStraight
    Measured <- MCMeasured
    SpeedFactor = 100
    Sunrise = 360
    Sunset = 1140
    Minute = 4
    Vehicle <- MCVehicle
    FuelPrice <- MCFuel
    TollPerKm = 1
    NightPrice <- MCNight
    MealPrice <- MCMeal
    LodgingFactor <- MCLodging
    SnackRate = 10
    MiscRate = 5
    BufferRate = 8
    High <- MCHigh
    Roadless <- MCRoadless
    Trips <- MCTrips
    Lengths <- MCLengths
    Driving <- MCDriving
    Goals <- MCGoals
    Skies <- MCSkies
    PinSets <- MCPins
    Assignments <- MCAssign
    Groups <- MCGroups
SPECIFICATION PlannerSpec
INVARIANTS DaysSumToSubtotal DaysCanBeLived PlacesAccounted
CHECK_DEADLOCK FALSE
