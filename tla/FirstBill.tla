----------------------------- MODULE FirstBill ------------------------------
(***************************************************************************)
(* What a trip costs in the first generation of leaderTrip                 *)
(* (src/engine/cost.ts with src/data/pricing.ts, and the prices planner.ts *)
(* puts on its blocks). Rates are in a unit in which no fraction is lost;  *)
(* shares are hundredths, weights of a traveller tenths.                   *)
(***************************************************************************)
EXTENDS FirstScores

CONSTANTS
    Vehicle,            \* [offroad, consumption, toll, wear]
    FuelPrice,          \* of "subsidized" and "free" fuel
    TollPerKm,
    NightPrice,         \* [styles -> a night of one guest]
    MealPrice,          \* [styles -> of "breakfast", "lunch" and "dinner"]
    LodgingFactor,      \* [kinds of lodging -> hundredths]
    SnackRate, MiscRate, BufferRate

VehicleRecord == [offroad : 0 .. 2, consumption : Nat, toll : Nat, wear : Nat]
Styles == {"budget", "balanced", "comfort", "luxury"}
PriceBook == [fuel : [{"subsidized", "free"} -> Nat], tollPerKm : Nat, night : [Styles -> Nat],
              meals : [Styles -> [{"breakfast", "lunch", "dinner"} -> Nat]],
              lodging : [LodgingKinds -> Nat], snackRate : Nat, miscRate : Nat, bufferRate : Nat]

\* The unit is so small that a snack is a whole number of it, too.
ASSUME PricesAssumption ==
    /\ Vehicle \in VehicleRecord
    /\ [fuel |-> FuelPrice, tollPerKm |-> TollPerKm, night |-> NightPrice, meals |-> MealPrice,
        lodging |-> LodgingFactor, snackRate |-> SnackRate, miscRate |-> MiscRate,
        bufferRate |-> BufferRate] \in PriceBook
    /\ \A style \in Styles, meal \in {"breakfast", "lunch", "dinner"} :
          (MealPrice[style][meal] * SnackRate) % 100 = 0

TicketWeight(age)  == CASE age < 5 -> 0 [] age <= 12 -> 5 [] age >= 65 -> 7 [] OTHER -> 10
MealWeight(age)    == CASE age < 6 -> 4 [] age <= 12 -> 7 [] OTHER -> 10
LodgingWeight(age) == CASE age < 3 -> 0 [] age <= 10 -> 5 [] OTHER -> 10

WeightOf(group, Weight(_)) == Sum([i \in DOMAIN group |-> Weight(group[i].age)])

\* seasonFactor; the season is "nowruz", "summer", "winter" or "other".
SeasonFactor(season, climate) ==
    CASE season = "nowruz" -> 145
      [] season = "summer" /\ climate \in {"caspian", "mountain"} -> 130
      [] season = "winter" /\ climate = "gulf" -> 125
      [] OTHER -> 100

Cars(trip) == Most(1, trip.cars)

\* Three hundredths more for each passenger of a car beyond the second.
LoadFactor(trip) ==
    Least(120, 100 + (3 * Most(0, Len(trip.group) - 2 * Cars(trip))) \div Cars(trip))

EffectiveFuelPrice(trip) ==
    trip.subsidized * FuelPrice["subsidized"] + (100 - trip.subsidized) * FuelPrice["free"]

FuelPerKm(trip) ==
    (Vehicle.consumption * EffectiveFuelPrice(trip) * LoadFactor(trip) * Cars(trip)) \div 100

OtherPerKm(trip) == (TollPerKm * Vehicle.toll + Vehicle.wear) * Cars(trip)

\* Mutant: a mountain road costs what every road costs.
LegCostFlat(trip, leg) == leg.km * (100 * FuelPerKm(trip) + 100 * OtherPerKm(trip))

\* legCost of planner.ts: on a mountain road the fuel is 15% more.
LegCost(trip, leg) ==
    leg.km * (FuelPerKm(trip) * (IF leg.terrain = "mountain" THEN 115 ELSE 100)
              + 100 * OtherPerKm(trip))

MealCost(trip, meal, city) ==
    MealPrice[trip.style][meal] * WeightOf(trip.group, MealWeight) * City[city].costIndex

NightCost(trip, city) ==
    (WeightOf(trip.group, LodgingWeight) * NightPrice[trip.style] * City[city].costIndex
        * SeasonFactor(trip.season, City[city].climate) * LodgingFactor[trip.lodging]) \div 1000

TicketCost(trip, place) == Poi[place].ticket * WeightOf(trip.group, TicketWeight)

Snacks(meals) == (meals * SnackRate) \div 100

-----------------------------------------------------------------------------
\* computeCost over the totals of a plan: kilometres, those of them in the
\* mountains, the nights away, the places seen and the meals as laid out.
ComputeCost(trip, totals) ==
    LET fuel    == FuelPerKm(trip) * (100 * totals.km + 15 * totals.mountainKm)
        road    == 100 * totals.km * OtherPerKm(trip)
        lodging == Sum([n \in DOMAIN totals.nights |-> NightCost(trip, totals.nights[n])])
        tickets == Sum([n \in DOMAIN totals.visited |-> TicketCost(trip, totals.visited[n])])
        lines   == [fuel |-> fuel, road |-> road, lodging |-> lodging, tickets |-> tickets,
                    meals |-> totals.meals, snacks |-> Snacks(totals.meals)]
        subtotal == fuel + road + lodging + tickets + totals.meals + lines.snacks
        misc    == (subtotal * MiscRate) \div 100
        buffer  == ((subtotal + misc) * BufferRate) \div 100
    IN  [lines |-> lines, subtotal |-> subtotal, total |-> subtotal + misc + buffer,
         overBudget |-> subtotal + misc + buffer - trip.budget]
=============================================================================
