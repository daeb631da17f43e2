------------------------------ MODULE TripMap ------------------------------
(***************************************************************************)
(* The map a trip is planned on (LeaderTrip.Domain, Routing and Entities): *)
(* places, cities and the legs between them. A leg takes the minutes       *)
(* TravelPlanner.Plan gives for the vehicle and the group, measured or     *)
(* estimated; a visit those of the place, stretched for the group.         *)
(***************************************************************************)
EXTENDS Integers, Sequences, FiniteSets

CONSTANTS
    Pois, Cities,       \* places of the map
    CityOf,             \* [Pois -> Cities]
    Drive,              \* [Places -> [Places -> minutes at the wheel]]
    Gap,                \* [Places -> [Places -> kilometres as the crow flies]]
    VisitTime,          \* [Pois -> minutes], stretched for the group
    OriginCity,
    NoCity              \* no destination

Places == Pois \cup Cities

ASSUME MapAssumption ==
    /\ Pois \cap Cities = {}
    /\ CityOf \in [Pois -> Cities]
    /\ Drive \in [Places -> [Places -> Nat]] /\ Gap \in [Places -> [Places -> Nat]]
    /\ VisitTime \in [Pois -> Nat]
    /\ OriginCity \in Cities /\ NoCity \notin Cities
=============================================================================
