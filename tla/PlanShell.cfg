CONSTANTS
    t1 = t1
    t2 = t2
    None = None
    NoTrip = NoTrip
    Trips = {t1, t2}
    MaxRequests = 3
SPECIFICATION FairSpec
INVARIANTS TypeOK PlanIsKept SpinnersHaveRequests
PROPERTIES PromiseKept BackdropLifts
