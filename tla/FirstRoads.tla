----------------------------- MODULE FirstRoads -----------------------------
(***************************************************************************)
(* Roads, weather and daylight as the first generation of leaderTrip sees  *)
(* them (src/engine/geo.ts, climate.ts and the helpers of planner.ts).     *)
(* Kilometres are whole numbers, factors are hundredths, and the clock,    *)
(* which shows fractions of a minute, counts ticks of it.                  *)
(***************************************************************************)
EXTENDS Integers, Sequences, FiniteSets, SequencesExt

CONSTANTS
    Listing,            \* the places, in the order of the catalogue
    CityListing,        \* the cities, likewise
    Poi,                \* [Places -> what the catalogue says of a place]
    City,               \* [Cities -> what it says of a city]
    Straight,           \* [Points -> [Points -> kilometres as the crow flies]]
    Measured,           \* [Points -> [Points -> kilometres and ticks of the road]]
    SpeedFactor,        \* of the vehicle, in hundredths
    Sunrise, Sunset,    \* minutes of the day, sun.ts rounds them
    Minute              \* the ticks of a minute

Places == ToSet(Listing)
Cities == ToSet(CityListing)
Points == Places \cup Cities

\* What the catalogue says of a city and of a place; a place lies off the
\* roads between two cities by so many kilometres.
CityRecord == [climate : {"desert", "mountain", "caspian", "gulf", "plain", "steppe"},
               amenities : 1 .. 3, costIndex : Nat]
PoiRecord  == [city : Cities, visit : Nat, rating : 0 .. 50, cat : STRING, ticket : Nat,
               vehicle : 0 .. 2, difficulty : 0 .. 3, minAge : Nat, inSeason : BOOLEAN,
               indoor : BOOLEAN, forKids : BOOLEAN, forSeniors : BOOLEAN, custom : BOOLEAN,
               offRoad : [Cities \X Cities -> Nat]]

\* No place is listed twice, and no vehicle is slower than a tenth of a car.
ASSUME CatalogueAssumption ==
    /\ Listing \in Seq(Places) /\ CityListing \in Seq(Cities) /\ IsInjective(Listing)
    /\ City \in [Cities -> CityRecord] /\ Poi \in [Places -> PoiRecord]
    /\ Straight \in [Points -> [Points -> Nat]]
    /\ Measured \in [Points -> [Points -> [km : Nat, minutes : Nat]]]
    /\ \E c \in Cities : City[c].amenities >= 2
    /\ SpeedFactor \in Nat /\ SpeedFactor >= 10
    /\ Minute \in Nat \ {0} /\ Sunrise \in Nat /\ Sunset \in Nat

CityAt(point) == IF point \in Places THEN Poi[point].city ELSE point

Least(a, b) == IF a < b THEN a ELSE b
Most(a, b)  == IF a > b THEN a ELSE b
Sum(s)      == FoldLeft(LAMBDA t, x : t + x, 0, s)

\* The elements of s that are in S, in its order.
Where(s, S) == FoldLeft(LAMBDA t, x : IF x \in S THEN Append(t, x) ELSE t, <<>>, s)

\* The first of the elements with the least value, as a loop with < finds it.
FirstBest(s, value) ==
    FoldLeft(LAMBDA best, x : IF value[x] < value[best] THEN x ELSE best, Head(s), s)

-----------------------------------------------------------------------------
(* Weather of a day: "none" when it is not known. A day of snow freezes,   *)
(* one of heat is dry.                                                     *)

WeatherSpeed(weather) ==
    CASE weather = "snow" -> 70 [] weather = "storm" -> 80 [] weather = "rain" -> 92
      [] OTHER -> 100

WindowShift(weather) ==
    CASE weather = "heat"             -> [start |-> -90, end |-> 0]
      [] weather \in {"frost", "snow"} -> [start |-> 60, end |-> -30]
      [] OTHER                        -> [start |-> 0, end |-> 0]

NeedsSiesta(weather) == weather = "heat"

\* The weather of the city on the day, else that of any city on it.
DayWeather(weather, city, day) ==
    LET known == Where(CityListing, {c \in Cities : weather[c][day] # "none"})
    IN  CASE weather[city][day] # "none" -> weather[city][day]
          [] known = <<>>                -> "none"
          [] OTHER                       -> weather[known[1]][day]

\* Daylight, widened a little, and the wish of the user, shifted by weather.
DayWindow(trip, weather) ==
    [start |-> Minute * Most(Sunrise - 30, trip.dayStart + WindowShift(weather).start),
     end   |-> Minute * Least(Sunset + 60, trip.dayEnd + WindowShift(weather).end)]

-----------------------------------------------------------------------------
(* Legs.                                                                   *)

TerrainBetween(a, b, straight) ==
    LET caspian(c) == City[c].climate = "caspian"
    IN  CASE \/ "mountain" \in {City[a].climate, City[b].climate}
             \/ caspian(a) # caspian(b) /\ straight > 40 -> "mountain"
          [] straight > 200 -> "freeway"
          [] OTHER          -> "plain"

Detour(terrain) == CASE terrain = "freeway" -> 115 [] terrain = "plain" -> 125 [] OTHER -> 145
TerrainSpeed(terrain) == CASE terrain = "freeway" -> 110 [] terrain = "plain" -> 100 [] OTHER -> 75

RoadKm(straight, terrain) == (straight * Detour(terrain)) \div 100

\* 85 km/h on the plain, for a car, in an unhurried group.
DrivingMinutes(km, terrain, slowdown) ==
    (km * 6000 * Minute) \div ((((85 * SpeedFactor) \div 100) * TerrainSpeed(terrain) * slowdown) \div 100)

\* computeLeg: the measured road where there is one, the estimate elsewhere.
\* matrix is the set of pairs of points the routing service has answered.
LegBetween(from, to, fromCity, slowdown, matrix) ==
    LET straight == Straight[from][to]
        terrain  == TerrainBetween(fromCity, CityAt(to), straight)
        road     == RoadKm(straight, terrain)
        real     == Measured[from][to]
    IN  IF <<from, to>> \in matrix
        THEN [km |-> real.km, terrain |-> terrain, real |-> TRUE,
              minutes |-> (real.minutes * 100) \div Most(30, (SpeedFactor * slowdown) \div 100)]
        ELSE [km |-> road, terrain |-> terrain, real |-> FALSE,
              minutes |-> DrivingMinutes(road, terrain, slowdown)]

-----------------------------------------------------------------------------
(* Where to sleep.                                                         *)

StayCities == Where(CityListing, {c \in Cities : City[c].amenities >= 2})

\* Near the last place of the day and a little towards the next one; the
\* nearest city when none is within 120 km.
PickStayCity(last, next) ==
    LET near    == Where(StayCities, {c \in Cities : Straight[last][c] <= 120})
        forward(c) == IF next = <<>> THEN 0 ELSE 35 * Straight[c][next[1]]
    IN  IF near = <<>> THEN FirstBest(StayCities, Straight[last])
        ELSE FirstBest(near, [c \in Cities |-> 100 * Straight[last][c] + forward(c)])

\* A day without a visit brings the trip as near to the next place as the
\* driving that is left allows; nowhere when no city is nearer.
PickTransferCity(from, next, left, fromCity, slowdown, matrix) ==
    LET nearer == Where(StayCities, {c \in Cities :
            /\ LegBetween(from, c, fromCity, slowdown, matrix).minutes <= left
            /\ Straight[c][next[1]] < Straight[from][next[1]]})
    IN  IF next = <<>> \/ nearer = <<>> THEN fromCity
        ELSE FirstBest(nearer, [c \in Cities |-> Straight[c][next[1]]])

-----------------------------------------------------------------------------
(* router.ts: the shortest order of a few points, as the crow flies.       *)

TourLength(start, order, end) ==
    LET stops == <<start>> \o order \o end
    IN  Sum([i \in 1 .. Len(stops) - 1 |-> Straight[stops[i]][stops[i + 1]]])

\* Always on to the nearest point that is left.
NearestNeighbor(start, points) ==
    FoldLeft(LAMBDA order, k :
        LET cur  == IF order = <<>> THEN start ELSE Last(order)
            left == Where(points, ToSet(points) \ ToSet(order))
        IN  IF left = <<>> THEN order ELSE Append(order, FirstBest(left, Straight[cur])),
        <<>>, points)

\* The order with the stretch from i to j turned round.
Turned(order, i, j) ==
    SubSeq(order, 1, i - 1) \o Reverse(SubSeq(order, i, j)) \o SubSeq(order, j + 1, Len(order))

\* All stretches once, each turn kept when it shortens the way.
TwoOptPass(start, order, end) ==
    LET n == Len(order)
        pairs == FlattenSeq([i \in 1 .. n |-> [k \in 1 .. n - i |-> <<i, i + k>>]])
    IN  FoldLeft(LAMBDA best, x :
            LET turned == Turned(best, x[1], x[2])
            IN  IF TourLength(start, turned, end) < TourLength(start, best, end)
                THEN turned ELSE best,
            order, pairs)

MaxIterations == 100

\* Passes until one changes nothing or the limit is met.
TwoOpt(start, order, end) ==
    LET after[k \in 0 .. MaxIterations] ==
            IF k = 0 THEN [best |-> order, improved |-> TRUE]
            ELSE LET last == after[k - 1]
                     next == TwoOptPass(start, last.best, end)
                 IN  IF last.improved THEN [best |-> next, improved |-> next # last.best] ELSE last
    IN  IF Len(order) < 3 THEN order ELSE after[MaxIterations].best

\* Mutant: a neighbour is forgotten when the way is turned round.
OptimizeOrderHalf(start, points, end) ==
    IF Len(points) <= 1 THEN points
    ELSE Tail(TwoOpt(start, NearestNeighbor(start, points), end)) \o <<points[1]>>

OptimizeOrder(start, points, end) ==
    IF Len(points) <= 1 THEN points
    ELSE TwoOpt(start, NearestNeighbor(start, points), end)
=============================================================================
