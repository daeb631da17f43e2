CONSTANTS
    Nights <- TwoTowns
    Home = "tehran"
    Wishes = {1, 2}
    Planners <- ThePlanners
    None = None
    ForecastLife = 1
    ArchiveLife = 2
    RoadLife = 1
    Horizon = 2
    MaxClicks = 1
    MaxNow = 1
SPECIFICATION FairSpec
INVARIANT AnswersAreForThePlan
PROPERTY WeatherSettles
CHECK_DEADLOCK FALSE
