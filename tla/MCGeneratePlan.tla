--------------------------- MODULE MCGeneratePlan ---------------------------
(***************************************************************************)
(* GeneratePlan and BudgetLevers around a home city with a road of 430 km  *)
(* to the east, a city half way and another at its end, and a valley in    *)
(* the west. The museum is in the home city, the canyon is beyond the car, *)
(* the meadow is where the user put it. Roads are the same both ways.      *)
(***************************************************************************)
EXTENDS BudgetLevers

CONSTANTS home, middle, far, west
CONSTANTS museum, bazaar, palace, dam, canyon, meadow

CONSTANTS Lengths, Caps, Ends, Paces, Comforts, PinSets, ExcludedSets, Journeys

Hour == 60

MCPois   == {museum, bazaar, palace, dam, canyon, meadow}
MCCities == {home, middle, far, west}
MCCityOf == museum :> home @@ bazaar :> middle @@ palace :> far @@ dam :> west
            @@ canyon :> west @@ meadow :> middle

\* Kilometres east and north of home.
At == home :> <<0, 0>> @@ middle :> <<200, 0>> @@ far :> <<430, 0>> @@ west :> <<-150, 0>>
      @@ museum :> <<30, 0>> @@ bazaar :> <<203, 0>> @@ palace :> <<436, 20>>
      @@ dam :> <<-120, 40>> @@ canyon :> <<-160, -40>> @@ meadow :> <<260, 50>>

Far(a, b) == IF a < b THEN b - a ELSE a - b
Distance(x, y) == Far(At[x][1], At[y][1]) + Far(At[x][2], At[y][2])

MCGap   == [x \in Places |-> [y \in Places |-> Distance(x, y)]]
MCDrive == [x \in Places |-> [y \in Places |-> (Distance(x, y) * 4) \div 5]]

\* What the catalogue says: a place of this category, rating, ticket and minutes.
Sight(category, rating, ticket, minutes) ==
    [CustomStop(minutes) EXCEPT !.category = category, !.rating = rating, !.ticket = ticket]

MCCatalogue ==
    museum :> [Sight("Museum", 42, 15, 50) EXCEPT !.indoor = TRUE]
    @@ bazaar :> [Sight("Bazaar", 38, 0, 40) EXCEPT !.indoor = TRUE]
    @@ palace :> Sight("Historical", 47, 41, 100)
    @@ dam :> [Sight("Lake", 35, 3, 35) EXCEPT !.months = 3 .. 10]
    @@ canyon :> [Sight("Nature", 45, 4, 75) EXCEPT !.offroad = 2, !.difficulty = 2]
    @@ meadow :> CustomStop(50)

MCGroup   == <<[age |-> 41, mobility |-> "full", drives |-> TRUE],
               [age |-> 39, mobility |-> "full", drives |-> TRUE],
               [age |-> 5, mobility |-> "full", drives |-> FALSE]>>
MCVehicle == [offroad |-> 0, consumption |-> 8, tollFactor |-> 1, depreciation |-> 1, seats |-> 5]

\* Beside the straight line from home to the city.
Beyond(x, a, b) == IF x < a THEN a - x ELSE IF x > b THEN x - b ELSE 0
MCOffRoute == [c \in MCCities |-> [p \in MCPois |->
                 Far(At[p][2], 0) + Beyond(At[p][1], Min({0, At[c][1]}), Max({0, At[c][1]}))]]

MCElevation == [x \in Places |-> IF x = palace THEN 2100 ELSE 1300]

MCNever     == 10000
MCVisitTime == [p \in MCPois |-> (MCCatalogue[p].minutes * 6) \div 5]
MCOpens     == museum :> 9 * Hour @@ bazaar :> 0 @@ palace :> 10 * Hour @@ dam :> 0
               @@ canyon :> 0 @@ meadow :> 0
MCCloses    == museum :> 13 * Hour @@ bazaar :> 22 * Hour @@ palace :> 17 * Hour
               @@ dam :> 11 * Hour @@ canyon :> MCNever @@ meadow :> MCNever

MCStayCities  == <<middle, far, west, home>>
MCListing     == <<museum, bazaar, palace, dam, canyon, meadow>>
MCNightOrder  == <<bazaar>>
MCNearHome    == {museum}
East          == {bazaar, palace, meadow}
MCSector      == [short \in BOOLEAN |-> <<MCPois \ East, {}, East>>]

MCCityCost == home :> [index |-> 12, climate |-> "desert"] @@ middle :> [index |-> 9, climate |-> "mountain"]
              @@ far :> [index |-> 11, climate |-> "gulf"] @@ west :> [index |-> 8, climate |-> "caspian"]
Dish(n)    == [breakfast |-> 7 * n, lunch |-> 31 * n, dinner |-> 25 * n]
MCPrices   ==
    [subsidized |-> 3, free |-> 6, tollPerKm |-> 1, freewayShare |-> 55, snackRate |-> 12,
     night |-> [s \in Styles |-> CASE s = "Budget" -> 90 [] s = "Balanced" -> 170 [] OTHER -> 290],
     meals |-> [s \in Styles |-> CASE s = "Budget" -> Dish(1) [] s = "Balanced" -> Dish(2) [] OTHER -> Dish(3)],
     miscRate |-> [s \in Styles |-> 5], bufferRate |-> [s \in Styles |-> 10]]

\* A destination with its mode, or none.
Towards(goal) ==
    CASE goal = "loop"     -> [destination |-> NoCity, mode |-> "mixed", roundTrip |-> TRUE, radius |-> 260]
      [] goal = "away"     -> [destination |-> NoCity, mode |-> "mixed", roundTrip |-> FALSE, radius |-> 260]
      [] goal = "corridor" -> [destination |-> far, mode |-> "corridor", roundTrip |-> TRUE, radius |-> 60]
      [] goal = "stay"     -> [destination |-> far, mode |-> "stay", roundTrip |-> TRUE, radius |-> 222]
      [] goal = "mixed"    -> [destination |-> far, mode |-> "mixed", roundTrip |-> TRUE, radius |-> 222]

\* April without a forecast, or December with rain and snow.
Winter(comfort) == "picnic" \in comfort
Foul    == [known |-> TRUE, rain |-> 65, heat |-> 4, snow |-> TRUE]
Unheard == [Foul EXCEPT !.known = FALSE]
MCSkies == {Foul, Unheard}

Everyday ==
    {Towards(goal) @@
     [days |-> n, dayStart |-> 8 * Hour, firstDayStart |-> SameAsOthers, dayEnd |-> end * Hour,
      cap |-> cap * Hour, pace |-> pace,
      checkInFirst |-> "check-in" \in comfort, middayRest |-> "rest" \in comfort,
      evening |-> "evening" \in comfort, picnic |-> "picnic" \in comfort,
      style |-> "Comfort", lodging |-> "Hotel", vehicleCount |-> 2, fuelShare |-> 60,
      interests |-> {"Historical", "Lake"}, taste |-> ("Museum" :> -40), budget |-> 3000,
      month |-> IF Winter(comfort) THEN 12 ELSE 4,
      outlook |-> IF Winter(comfort) THEN Foul ELSE Unheard,
      pinned |-> pins, excluded |-> out,
      customs |-> IF meadow \in pins THEN {meadow} ELSE {},
      assigned |-> [p \in MCPois |-> 0]] :
        goal \in Journeys, n \in Lengths, end \in Ends, cap \in Caps, pace \in Paces,
        comfort \in Comforts, pins \in PinSets, out \in ExcludedSets}

\* Leaving at three on the first day, too late for a day that ends at four.
LateStart == {[q EXCEPT !.firstDayStart = 15 * Hour] : q \in {x \in Everyday : x.days = 2 /\ x.pinned = {}}}
\* A plain trip in foul weather, whose next cheaper style shortens lunch.
Plain     == {[q EXCEPT !.style = "Balanced", !.outlook = Foul] : q \in {x \in Everyday : x.days = 2 /\ x.pace = "packed"}}

MCQueries       == Everyday \cup LateStart \cup Plain
MCBudgetQueries == {q \in MCQueries : q.pace = "packed" /\ q.days \in {2, 3} /\ q.dayEnd = 22 * Hour
                                      /\ canyon \notin q.pinned}

\* The queries as the levers change them, where it changes what the selector is asked.
Shorter(qs) == {[q EXCEPT !.days = Most(1, @ - 1)] : q \in qs}
Nearer(qs)  == {[q EXCEPT !.radius = SmallerRadius(@)] : q \in qs}
Tried       == MCBudgetQueries \cup Shorter(MCBudgetQueries) \cup Nearer(MCBudgetQueries)
AllQueries  == MCQueries \cup {Under(q, sky) : q \in Tried, sky \in MCSkies}

\* And what the scheduler is, for any length, lunch and choice for the evening.
AnyRequest(asked) ==
    {[r EXCEPT !.days = n, !.lunch = time, !.nightPois = open] :
        r \in asked, n \in 1 .. Max(Lengths), time \in {30, 60, 75}, open \in {<<>>, MCNightOrder}}

MCRequests == AnyRequest({ScheduleRequest(q) : q \in MCQueries})
MCRoutes   == Tours
MCWishes   == {SelectionRequest(q) : q \in AllQueries}
MCOffers   == Tours
=============================================================================
