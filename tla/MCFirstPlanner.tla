--------------------------- MODULE MCFirstPlanner ---------------------------
(***************************************************************************)
(* The planner around a home on the plain: a mountain town 150 km to the   *)
(* north, a desert town 260 km to the east with a camp beyond it, and the  *)
(* sea behind the mountains. The cave is hard to reach, the camp is in the *)
(* sand, and the picnic is a stop of the user's own.                       *)
(***************************************************************************)
EXTENDS FirstPlanner, TLC

CONSTANTS home, hill, sand, sea
CONSTANTS museum, cave, fort, beach, picnic

MCPlaces == {museum, cave, fort, beach, picnic}
MCListing     == <<museum, cave, fort, beach, picnic>>
MCCityListing == <<home, hill, sand, sea>>

\* Kilometres east and north of home.
At == home :> <<0, 0>> @@ hill :> <<20, 130>> @@ sand :> <<260, 0>> @@ sea :> <<0, 240>>
      @@ museum :> <<30, 0>> @@ cave :> <<40, 150>> @@ fort :> <<250, 20>>
      @@ beach :> <<10, 242>> @@ picnic :> <<120, 10>>
Far(a, b) == IF a < b THEN b - a ELSE a - b
MCStraight == [x \in Points |-> [y \in Points |-> Far(At[x][1], At[y][1]) + Far(At[x][2], At[y][2])]]
MCMeasured == [x \in Points |-> [y \in Points |->
                  [km |-> (MCStraight[x][y] * 6) \div 5, minutes |-> (Minute * MCStraight[x][y] * 11) \div 10]]]

MCCities == {home, hill, sand, sea}
Place(where, minutes, stars, kind, ticket) ==
    [city |-> where, visit |-> minutes, rating |-> stars, cat |-> kind, ticket |-> ticket,
     vehicle |-> 0, difficulty |-> 0, minAge |-> 0, inSeason |-> TRUE, indoor |-> FALSE,
     forKids |-> TRUE, forSeniors |-> TRUE, custom |-> FALSE,
     offRoad |-> [x \in MCCities \X MCCities |-> 40]]
MCPoi ==
    museum :> [Place(hill, 60, 42, "history", 20) EXCEPT !.indoor = TRUE]
    @@ cave :> [Place(hill, 120, 45, "nature", 0) EXCEPT !.difficulty = 2]
    @@ fort :> [Place(sand, 90, 40, "history", 10) EXCEPT !.vehicle = 1]
    @@ beach :> [Place(sea, 150, 38, "water", 0) EXCEPT !.inSeason = FALSE]
    @@ picnic :> [Place(sand, 45, 40, "nature", 0) EXCEPT !.custom = TRUE]

MCCity == home :> [climate |-> "plain", amenities |-> 3, costIndex |-> 1]
       @@ hill :> [climate |-> "mountain", amenities |-> 1, costIndex |-> 1]
       @@ sand :> [climate |-> "desert", amenities |-> 2, costIndex |-> 2]
       @@ sea  :> [climate |-> "caspian", amenities |-> 2, costIndex |-> 2]

MCVehicle  == [offroad |-> 0, consumption |-> 8, toll |-> 1, wear |-> 2]
MCFuel     == "subsidized" :> 1 @@ "free" :> 3
MCNight    == "budget" :> 100 @@ "balanced" :> 200 @@ "comfort" :> 400 @@ "luxury" :> 800
MCMeal     == [style \in {"budget", "balanced", "comfort", "luxury"} |->
                  "breakfast" :> 100 @@ "lunch" :> 200 @@ "dinner" :> 300]
MCLodging  == "hotel" :> 100 @@ "ecolodge" :> 75 @@ "villa" :> 110 @@ "camp" :> 10 @@ "friends" :> 0
MCHigh     == {hill, cave}
MCRoadless == {<<home, museum>>}

Adult == [age |-> 40, mobility |-> "full", drives |-> TRUE]
Child == [age |-> 7, mobility |-> "full", drives |-> FALSE]

CONSTANTS Lengths, Driving, Goals, Skies, PinSets, Assignments, Groups

MCTrips ==
    {[origin |-> home, destination |-> IF goal = "loop" THEN <<>> ELSE <<sand>>, round |-> goal # "away",
      days |-> n, radius |-> 300, group |-> group, budget |-> 400000, interests |-> {"history"},
      blocked |-> {}, pinned |-> pins, assigned |-> assigned, weather |-> sky,
      ratings |-> <<[cat |-> "nature", stars |-> 5], [cat |-> "nature", stars |-> 5], [cat |-> "nature", stars |-> 4]>>,
      dayStart |-> 480, dayEnd |-> 1260, driving |-> minutes, style |-> "balanced", lodging |-> "hotel",
      season |-> "other", cars |-> 1, subsidized |-> 60, heights |-> TRUE] :
        goal \in Goals, n \in Lengths, minutes \in Driving, sky \in Skies, pins \in PinSets,
        assigned \in Assignments, group \in Groups}
MCLengths == {1, 2, 3}
MCDriving == {180, 300, 480}
MCGoals   == {"loop", "there", "away"}
Clear     == [c \in MCCities |-> <<"none", "none", "none">>]
MCSkies   == {Clear, [Clear EXCEPT ![home] = <<"heat", "none", "none">>, ![sand] = <<"none", "snow", "fair">>],
              [Clear EXCEPT ![hill] = <<"rain", "none", "none">>, ![home] = <<"none", "rain", "none">>]}
MCPins    == {{}, {fort}, {beach, cave}, {museum, fort, beach}}
Unassigned == [p \in MCPlaces |-> 0]
MCAssign  == {Unassigned, [Unassigned EXCEPT ![museum] = 2], [Unassigned EXCEPT ![cave] = 1, ![museum] = 2]}
MCGroups  == {<<Adult>>, <<Adult, Child, Adult>>}
=============================================================================
