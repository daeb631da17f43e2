----------------------------- MODULE PlaceRules -----------------------------
(***************************************************************************)
(* Which places the planning service offers a group and how much it likes  *)
(* each (LeaderTrip.Domain: Specifications/Poi, Scoring with its rules,    *)
(* and the group and the vehicle they ask). Points are hundredths, ratings *)
(* tenths, the shares of a strength or a weather percents.                 *)
(***************************************************************************)
EXTENDS TripMap

CONSTANTS
    Catalogue,          \* [Pois -> what the catalogue says of a place]
    Group,              \* the travellers, a sequence
    Vehicle,
    OffRoute            \* [Cities -> [Pois -> kilometres from the straight line between home
                        \* and the city]]

Levels     == 0 .. 2    \* Paved, LightDirt, FullOffroad
Efforts    == 0 .. 3    \* None, Light, Heavy, Climbing
PoiRecord  == [category : STRING, rating : 0 .. 50, months : SUBSET (1 .. 12), indoor : BOOLEAN,
               difficulty : Efforts, minAge : Nat, kids : BOOLEAN, seniors : BOOLEAN,
               offroad : Levels, ticket : Nat, minutes : Nat]
Traveller  == [age : 0 .. 120, mobility : {"full", "limited", "wheelchair"}, drives : BOOLEAN]

ASSUME RulesAssumption ==
    /\ Catalogue \in [Pois -> PoiRecord]
    /\ Group \in Seq(Traveller) /\ Group # <<>>
    /\ Vehicle.offroad \in Levels
    /\ OffRoute \in [Cities -> [Pois -> Nat]]

Least(a, b) == IF a < b THEN a ELSE b
Most(a, b)  == IF a > b THEN a ELSE b

-----------------------------------------------------------------------------
(* The group.                                                              *)

Ages       == {Group[i].age : i \in DOMAIN Group}
HasToddler == \E a \in Ages : a < 4
HasChild   == \E a \in Ages : a \in 4 .. 12
HasSenior  == \E a \in Ages : a >= 65
HasWheelchairUser == \E i \in DOMAIN Group : Group[i].mobility = "wheelchair"

StaminaOf(traveller) ==
    LET byAge == CASE traveller.age < 4  -> 25 [] traveller.age < 8  -> 45
                   [] traveller.age < 13 -> 70 [] traveller.age < 60 -> 100
                   [] traveller.age < 70 -> 65 [] OTHER -> 40
        byMobility == CASE traveller.mobility = "wheelchair" -> 15
                        [] traveller.mobility = "limited" -> 40 [] OTHER -> 100
    IN  Least(byAge, byMobility)

\* That of the weakest.
Stamina == CHOOSE s \in {StaminaOf(Group[i]) : i \in DOMAIN Group} :
               \A i \in DOMAIN Group : s <= StaminaOf(Group[i])

MaximumDifficulty ==
    CASE Stamina < 20 -> 0 [] Stamina < 50 -> 1 [] Stamina < 85 -> 2 [] OTHER -> 3

\* In hundredths, what visits take longer for this group.
VisitDurationFactor ==
    CASE (HasToddler \/ HasChild) /\ HasSenior -> 130
      [] HasToddler \/ HasChild \/ HasSenior -> 120
      [] OTHER -> 100

-----------------------------------------------------------------------------
(* Trips and their geography. Of a query only these fields are read here:  *)
(* destination, mode, radius, days, month, excluded, interests, taste,     *)
(* budget and outlook.                                                     *)

\* The stay at a destination, of which a trip along the road makes none.
StayAtDestination(q) == q.destination # NoCity /\ q.mode # "corridor"

ReturnsToOrigin(q) == q.roundTrip /\ (q.destination = NoCity \/ StayAtDestination(q))

\* What distances are measured from.
Anchor(q) == IF StayAtDestination(q) THEN q.destination ELSE OriginCity

WithinRadius(center, radius, p)       == Gap[center][p] <= radius
WithinCorridor(destination, width, p) == OffRoute[destination][p] <= width

Narrow == 60            \* kilometres beside the way to a stay

Geography(q, p) ==
    CASE q.destination = NoCity  -> WithinRadius(OriginCity, q.radius, p)
      [] q.mode = "stay"         -> WithinRadius(q.destination, q.radius, p)
      [] q.mode = "corridor"     -> WithinCorridor(q.destination, q.radius, p)
      [] OTHER                   -> \/ WithinRadius(q.destination, q.radius, p)
                                    \/ WithinCorridor(q.destination, Least(q.radius, Narrow), p)

-----------------------------------------------------------------------------
(* The specifications.                                                     *)

NotExcluded(q, p)    == p \notin q.excluded
NotInHomeCity(q, p)  == q.days < 2 \/ CityOf[p] # OriginCity
VehicleCanReach(p)   == Vehicle.offroad >= Catalogue[p].offroad
GroupCanHandle(p)    ==
    /\ HasWheelchairUser => Catalogue[p].difficulty < 2
    /\ Catalogue[p].difficulty <= MaximumDifficulty
OldEnough(p)         == \A a \in Ages : Catalogue[p].minAge <= a
InSeason(q, p)       == q.month \in Catalogue[p].months

Eligible(q, p) ==
    /\ NotExcluded(q, p) /\ NotInHomeCity(q, p)
    /\ VehicleCanReach(p) /\ GroupCanHandle(p) /\ OldEnough(p) /\ InSeason(q, p)
    /\ Geography(q, p)

-----------------------------------------------------------------------------
(* The scoring rules.                                                      *)

InterestMatch(q, poi) ==
    IF q.interests = {} THEN 0 ELSE IF poi.category \in q.interests THEN 2500 ELSE -800

GeneralQuality(poi) == 120 * (poi.rating - 30)

SeasonFit(q, poi) ==
    IF q.month \notin poi.months THEN 0
    ELSE IF Cardinality(poi.months) <= 6 THEN 1500 ELSE 800

AgeSuitability(poi) ==
      (IF ~(HasToddler \/ HasChild) THEN 0
       ELSE (IF poi.kids THEN 1000 ELSE -1200) - (IF poi.difficulty >= 2 THEN 1500 ELSE 0))
    + (IF ~HasSenior THEN 0
       ELSE (IF poi.seniors THEN 1000 ELSE -1200) - (IF poi.minutes > 120 THEN 800 ELSE 0))

\* From the line to the end of a corridor, else from the anchor.
DetourPenalty(q, p) ==
    LET away == IF q.destination # NoCity /\ q.mode = "corridor"
                THEN OffRoute[q.destination][p] ELSE Gap[Anchor(q)][p]
        reach == Most(1, q.radius)
    IN  -((2000 * Least(away, reach)) \div reach)

\* Of a ticket against four tenths of a day's budget of one traveller.
TicketAffordability(q, poi) ==
    LET budget == 4 * q.budget
        ticket == 10 * poi.ticket * Len(Group) * q.days
    IN  CASE poi.ticket = 0 -> 400
          [] poi.ticket > 0 /\ q.budget = 0 -> 0
          [] OTHER -> -((1000 * Least(ticket, budget)) \div budget)

\* In percent; without an outlook the weather says nothing.
WeatherSuitability(q, poi) ==
    LET sky  == q.outlook
        wet  == CASE sky.rain >= 60 -> IF poi.indoor THEN 130 ELSE 60
                  [] sky.rain \in 35 .. 59 -> IF poi.indoor THEN 112 ELSE 85
                  [] OTHER -> 100
        heat == IF sky.heat < 38 \/ poi.indoor THEN 100
                ELSE IF poi.minutes > 90 THEN 65 ELSE 85
        snow == IF sky.snow /\ poi.difficulty >= 2 THEN 50 ELSE 100
    IN  IF ~sky.known THEN 100 ELSE (((wet * heat) \div 100) * snow) \div 100

\* In four hundredths: a quarter of what was learned of the category.
LearnedTaste(q, poi) ==
    IF poi.category \notin DOMAIN q.taste THEN 400
    ELSE 400 + Most(-100, Least(100, q.taste[poi.category]))

\* Points first, factors on all of them. A pin is worth thirty.
PoiScore(q, pins, p) ==
    LET poi    == Catalogue[p]
        points == 10000 + InterestMatch(q, poi) + GeneralQuality(poi) + SeasonFit(q, poi)
                    + AgeSuitability(poi) + DetourPenalty(q, p) + TicketAffordability(q, poi)
                    + (IF p \in pins THEN 3000 ELSE 0)
    IN  (((points * WeatherSuitability(q, poi)) \div 100) * LearnedTaste(q, poi)) \div 400
=============================================================================
