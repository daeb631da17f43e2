----------------------------- MODULE TripAdvice -----------------------------
(***************************************************************************)
(* What the planning service says about a plan (LeaderTrip.Domain, Advice: *)
(* Advisor.cs and PackingList.cs, with the two warnings the handler adds). *)
(* Levels of an advice decide its place in the list and nothing else, so   *)
(* the list is a set here.                                                 *)
(***************************************************************************)
EXTENDS TripCost

CONSTANT Elevation      \* [Places -> metres]

ASSUME ElevationAssumption == Elevation \in [Places -> Nat]

NoHeight   == -1        \* the heights are not known
Tiring     == 6 * 60    \* minutes at the wheel in a day
LongWay    == 12 * 60   \* in a trip, for one driver
HighPass   == 2000
Heavy      == 2

Advice(code, level, about) == [code |-> code, level |-> level, about |-> about]
If(condition, x) == IF condition THEN {x} ELSE {}

\* The climates of the nights and of home.
TripClimates(days) ==
    {CityCost[days[d].base].climate : d \in DOMAIN days} \cup {CityCost[OriginCity].climate}

Drivers == {i \in DOMAIN Group : Group[i].drives /\ Group[i].age >= 18}

LongestDrive(days) ==
    CHOOSE m \in {days[d].driving : d \in DOMAIN days} : \A d \in DOMAIN days : days[d].driving <= m

-----------------------------------------------------------------------------
(* Advisor.                                                                *)

DrivingAdvice(days) ==
    LET total == SumOf([d \in DOMAIN days |-> days[d].driving])
    IN  If(LongestDrive(days) >= Tiring,
           Advice("driving.fatigue",
                  IF LongestDrive(days) >= Tiring + 120 THEN "critical" ELSE "warning", {}))
        \cup If(Cardinality(Drivers) <= 1 /\ total >= LongWay,
                Advice("driving.soloDriver", "warning", {}))

FitnessAdvice(days, q) ==
    LET hard == {p \in VisitedIn(days) : Catalogue[p].difficulty >= Heavy}
    IN  If(hard # {} /\ Stamina <= 70, Advice("group.strain", "warning", {}))
        \cup If(/\ Vehicle.offroad = 0 /\ "mountain" \in TripClimates(days)
                /\ q.month \in {12, 1, 2},
                Advice("vehicle.winterMountain", "critical", {}))
        \cup If(Len(Group) > Vehicle.seats * q.vehicleCount,
                Advice("vehicle.capacity", "critical", {}))

\* A budget of nothing is none.
BudgetAdvice(cost, q) ==
    If(q.budget # 0 /\ cost.total > q.budget, Advice("budget.over", "critical", {}))
    \cup If(q.budget # 0 /\ cost.total <= q.budget /\ cost.pessimistic > q.budget,
            Advice("budget.tight", "warning", {}))

SeasonAdvice(days, q, peak) ==
    If(TripClimates(days) \cap {"desert", "gulf"} # {} /\ q.month \in 6 .. 8,
       Advice("climate.summerHeat", "critical", {}))
    \cup If("caspian" \in TripClimates(days) /\ q.month \in {4, 5, 6, 9, 10},
            Advice("climate.caspianRain", "info", {}))
    \cup If(q.month \in {3, 4}, Advice("season.nowruz", "warning", {}))
    \cup If(peak >= HighPass,
            Advice("route.highPass", IF q.month \in {11, 12, 1, 2, 3} THEN "critical" ELSE "info", {}))

\* With half an hour of grace the drive of a day is more than was asked for.
OverCap(days, q) == \E d \in DOMAIN days : days[d].driving > q.cap + 30

\* Advise, and the warnings of the handler: pins that found no place are named.
AdviceFor(days, cost, q, peak, missed) ==
    DrivingAdvice(days) \cup FitnessAdvice(days, q) \cup BudgetAdvice(cost, q)
    \cup SeasonAdvice(days, q, peak)
    \cup If(OverCap(days, q), Advice("driving.overCap", "warning", {}))
    \cup If(missed # {}, Advice("plan.pinnedUnscheduled", "critical", missed))

-----------------------------------------------------------------------------
(* PackingList.                                                            *)

Always == {"papers", "insurance", "spare wheel", "first aid", "charger"}

ForClimate(days, q) ==
    LET sunny == TripClimates(days) \cap {"desert", "gulf"} # {}
        high  == "mountain" \in TripClimates(days)
    IN  (IF sunny THEN {"sun hat", "water"} ELSE {})
        \cup If(sunny /\ q.month \in 6 .. 8, "sun cream")
        \cup If(high, "warm clothes")
        \cup If(high /\ q.month \in {12, 1, 2}, "snow chains")
        \cup (IF "caspian" \in TripClimates(days) THEN {"rain clothes", "insect net"} ELSE {})

ForPeople ==
    (IF \E a \in Ages : a < 6 THEN {"toys", "child seat"} ELSE {})
    \cup If(HasSenior, "medicine")
    \cup If(\E i \in DOMAIN Group : Group[i].mobility # "full", "walking aid")

ForVisits(visits) ==
    LET of(categories) == \E p \in visits : Catalogue[p].category \in categories
    IN  If(\E p \in visits : Catalogue[p].difficulty >= Heavy, "hiking boots")
        \cup If(of({"Cave"}), "torch") \cup If(of({"Beach", "Lake"}), "towels")
        \cup If(of({"Religious"}), "covering")

ForNights(q) ==
    CASE q.days = 1 -> {}
      [] q.days > 1 /\ q.lodging = "Camp"     -> {"tent", "stove"}
      [] q.days > 1 /\ q.lodging = "EcoLodge" -> {"own towel"}
      [] q.days > 1 /\ q.lodging = "Friends"  -> {"gift"}
      [] OTHER -> {}

PackingFor(days, q) ==
    Always \cup ForClimate(days, q) \cup ForPeople \cup ForVisits(VisitedIn(days)) \cup ForNights(q)
=============================================================================
