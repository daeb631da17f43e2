CONSTANTS
    Sights = {901, 902}
    Fitting = {901}
    People = {"t3"}
    Undefined = Undefined
    Tolerance = 2
    Categories = {"meals"}
    Estimate <- Bill
    Foreign <- ForeignTrips
    Amounts = {6, 12}
    MaxActs = 3
    MaxIds = 4
    Habits = {{"wizard", "plan"}, {"plan", "share"}, {"notes", "share"}, {"wizard", "money"}}
    MaxDay = 1
    MaxFlights = 1
SPECIFICATION Spec
INVARIANTS ReloadKeepsTheTrip CarriedTripIsTheTrip DebtsSettled
CHECK_DEADLOCK FALSE
