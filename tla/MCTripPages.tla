---------------------------- MODULE MCTripPages ----------------------------
(* The pages with two cities and two places of the catalogue, a stop of    *)
(* one's own, a trip from a file of this version and of one before, and    *)
(* todays at the ends of an ordinary and of a leap year.                   *)
EXTENDS TripPages

Todays == <<[gy |-> 2025, gm |-> 8, gd |-> 16], [gy |-> 2025, gm |-> 3, gd |-> 20],
            [gy |-> 2026, gm |-> 3, gd |-> 20], [gy |-> 2029, gm |-> 3, gd |-> 19],
            [gy |-> 2028, gm |-> 12, gd |-> 31]>>

Stops == <<"s1">>

Base == [DefaultTrip(Todays[1]) EXCEPT !.travelers = <<[age |-> 18, isDriver |-> TRUE]>>, !.dayEndHour = 20]
OldTrip == [field \in DOMAIN Base \ {"destinationCityId", "destinationMode", "firstDayStartHour", "customStops"} |->
                Base[field]]
TripFiles == {Undefined, OldTrip,
              [Base EXCEPT !.destinationCityId = CHOOSE c \in Cities : c # Base.originCityId],
              [Base EXCEPT !.days = 31]}
OldDrafts == {Undefined, OldTrip}
=============================================================================
