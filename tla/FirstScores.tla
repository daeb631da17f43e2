---------------------------- MODULE FirstScores -----------------------------
(***************************************************************************)
(* Which places the first generation of leaderTrip may choose for a group  *)
(* and how much it likes each (src/engine/scoring.ts, climate.ts and       *)
(* preferences.ts). Points are hundredths.                                 *)
(***************************************************************************)
EXTENDS FirstRoads

\* A group is a sequence of travellers, not empty.
Traveller == [age : Nat, mobility : {"full", "limited", "wheelchair"}, drives : BOOLEAN]

\* What is asked for. The months are a season, the dates the numbers of the
\* days, and an assigned place is one the user gave a day of its own.
LodgingKinds == {"hotel", "ecolodge", "villa", "camp", "friends"}
Weathers     == {"rain", "storm", "snow", "heat", "frost", "fair"}
TripInput ==
    [origin : Cities, destination : SeqOf(Cities, 1), round : BOOLEAN, days : Nat \ {0},
     radius : Nat, group : Seq(Traveller) \ {<<>>}, budget : Nat, interests : SUBSET STRING,
     blocked : SUBSET Places, pinned : SUBSET Places,
     assigned : [Places -> Nat], weather : [Cities -> Seq(Weathers \cup {"none"})],
     ratings : Seq([cat : STRING, stars : 1 .. 5]),
     dayStart : Nat, dayEnd : Nat, driving : Nat, heights : BOOLEAN,
     style : {"budget", "balanced", "comfort", "luxury"},
     lodging : LodgingKinds,
     season : {"nowruz", "summer", "winter", "other"}, cars : Nat, subsidized : 0 .. 100]
Ages(group) == {group[i].age : i \in DOMAIN group}

HasToddler(group) == \E a \in Ages(group) : a < 4
HasChild(group)   == \E a \in Ages(group) : a \in 4 .. 12
HasSenior(group)  == \E a \in Ages(group) : a >= 65
HasWheelchair(group) == \E i \in DOMAIN group : group[i].mobility = "wheelchair"
Drivers(group)    == Cardinality({i \in DOMAIN group : group[i].drives})

StaminaOf(traveller) ==
    LET byAge == CASE traveller.age < 4  -> 25 [] traveller.age < 8  -> 45
                   [] traveller.age < 13 -> 70 [] traveller.age < 60 -> 100
                   [] traveller.age < 70 -> 65 [] OTHER -> 40
    IN  CASE traveller.mobility = "limited"    -> Least(byAge, 40)
          [] traveller.mobility = "wheelchair" -> Least(byAge, 15)
          [] OTHER -> byAge

\* A group is as strong as its weakest member.
MaxDifficulty(group) ==
    LET stamina == CHOOSE s \in {StaminaOf(group[i]) : i \in DOMAIN group} :
                       \A i \in DOMAIN group : s <= StaminaOf(group[i])
    IN  CASE stamina < 20 -> 0 [] stamina < 50 -> 1 [] stamina < 85 -> 2 [] OTHER -> 3

GroupSlowdown(group) ==
    CASE HasToddler(group) \/ \E a \in Ages(group) : a >= 70 -> 90
      [] HasChild(group) \/ HasSenior(group) -> 95
      [] OTHER -> 100

VisitTimeFactor(group) ==
    LET kid == HasToddler(group) \/ HasChild(group)
    IN  CASE kid /\ HasSenior(group) -> 130
          [] kid \/ HasSenior(group) -> 120
          [] OTHER -> 100

\* Math.round of the minutes of a visit.
VisitMinutes(place, group) == Minute * ((Poi[place].visit * VisitTimeFactor(group) + 50) \div 100)

-----------------------------------------------------------------------------
(* hardRejectReason: why a place is not for this trip, in the order the    *)
(* source asks; "none" when it is.                                         *)

\* The points of a way from origin to destination lie on it; the distance of
\* a place to it is the least to any of them.
DistanceToCorridor(place, origin, destination) == Poi[place].offRoad[<<origin, destination>>]

RejectReason(place, trip, vehicle) ==
    LET poi == Poi[place]
    IN  IF place \in trip.blocked THEN "removed_by_the_user"
        ELSE IF poi.city = trip.origin /\ trip.days >= 2 THEN "in_the_own_city"
        ELSE IF poi.vehicle > vehicle.offroad THEN "vehicle"
        ELSE IF HasWheelchair(trip.group) /\ poi.difficulty >= 2 THEN "wheelchair"
        ELSE IF \E a \in Ages(trip.group) : a < poi.minAge THEN "age"
        ELSE IF poi.difficulty > MaxDifficulty(trip.group) THEN "too_hard"
        ELSE IF ~poi.inSeason THEN "season"
        ELSE IF IF trip.destination # <<>>
                THEN DistanceToCorridor(place, trip.origin, trip.destination[1])
                         > Most(60, trip.radius \div 2)
                ELSE Straight[trip.origin][place] > trip.radius THEN "too_far"
        ELSE "none"

\* A pin beats every reason; so does a stop of the user's own.
Kept(place, trip, vehicle) ==
    \/ RejectReason(place, trip, vehicle) = "none"
    \/ place \in trip.pinned \/ Poi[place].custom

PinnedConflicts(trip, vehicle) ==
    {p \in Places : Kept(p, trip, vehicle) /\ RejectReason(p, trip, vehicle) # "none"}

-----------------------------------------------------------------------------
(* scorePOI.                                                               *)

\* The averages of the days of the trip that are known, as above the threshold
\* or not, and whether one of the days has snow or rain.
Sky(weather, days) ==
    LET known == {weather[c][d] : c \in Cities, d \in 1 .. days} \ {"none"}
    IN  [wet  |-> known # {} /\ known \subseteq {"rain", "snow"},
         hot  |-> known = {"heat"},
         cold |-> known # {} /\ known \subseteq {"frost", "snow"},
         rain |-> known \cap {"rain", "snow"} # {},
         snow |-> "snow" \in known,
         known |-> known # {}]

WeatherAdjust(poi, sky) ==
      (IF ~sky.wet THEN 0 ELSE IF poi.indoor THEN 18 ELSE -18)
    + (IF ~sky.hot THEN 0
       ELSE (IF poi.indoor THEN 12 ELSE IF poi.visit > 90 THEN -15 ELSE -6)
            + (IF poi.cat = "water" THEN 12 ELSE 0))
    + (IF sky.cold /\ ~poi.indoor THEN -10 ELSE 0)
    + (IF sky.snow /\ poi.difficulty >= 2 THEN -20 ELSE 0)

WeatherFactor(poi, sky) ==
    LET wet  == IF ~sky.wet THEN 100 ELSE IF poi.indoor THEN 130 ELSE 60
        hot  == IF ~sky.hot \/ poi.indoor THEN 100 ELSE IF poi.visit > 90 THEN 65 ELSE 85
        snow == IF sky.snow /\ poi.difficulty >= 2 THEN 50 ELSE 100
    IN  (((wet * hot) \div 100) * snow) \div 100

\* learnPreferences: three ratings at least, the mean of 3 neutral.
MinSamples == 3
Bias(ratings, cat) ==
    LET mine == SelectSeq(ratings, LAMBDA r : r.cat = cat)
        mean == (Sum([i \in DOMAIN mine |-> mine[i].stars]) * 100) \div Len(mine)
    IN  IF Len(mine) < MinSamples THEN 0
        ELSE Most(-100, Least(100, (mean - 300) \div 2))

Score(place, trip) ==
    LET poi   == Poi[place]
        group == trip.group
        sky   == Sky(trip.weather, trip.days)
        kids  == HasToddler(group) \/ HasChild(group)
        away  == IF trip.destination # <<>>
                 THEN DistanceToCorridor(place, trip.origin, trip.destination[1])
                 ELSE Straight[trip.origin][place]
        share == trip.budget \div (Len(group) * trip.days)
        own   == 10000
               + (IF trip.interests = {} THEN 0
                  ELSE IF poi.cat \in trip.interests THEN 2500 ELSE -800)
               + 120 * (poi.rating - 30)
               + (IF poi.inSeason THEN 800 ELSE 0)
               + (IF ~kids THEN 0 ELSE (IF poi.forKids THEN 1000 ELSE -1200)
                                       + (IF poi.difficulty >= 2 THEN -1500 ELSE 0))
               + (IF ~HasSenior(group) THEN 0 ELSE (IF poi.forSeniors THEN 1000 ELSE -1200)
                                       + (IF poi.visit > 120 THEN -800 ELSE 0))
               - 1500 * Most(0, poi.difficulty - MaxDifficulty(group) + 1)
               - (2000 * Least(trip.radius, away)) \div Most(1, trip.radius)
               - (IF share = 0 THEN 0 ELSE Least(1000, (2500 * poi.ticket) \div share))
               + (IF poi.ticket = 0 THEN 400 ELSE 0)
        skies == ((own + 100 * WeatherAdjust(poi, sky)) * WeatherFactor(poi, sky)) \div 100
        taste == (skies * (400 + Bias(trip.ratings, poi.cat))) \div 400
    IN  taste + (IF place \in trip.pinned THEN 3000 ELSE 0)

\* A candidate behind those that are liked no less.
Placed(list, x) ==
    LET ahead == {y \in ToSet(list) : y.score >= x.score}
    IN  Where(list, ahead) \o <<x>> \o Where(list, ToSet(list) \ ahead)

Ranked(trip, places) ==
    FoldLeft(LAMBDA list, p : Placed(list, [poi |-> p, score |-> Score(p, trip)]), <<>>, places)

\* The candidates, the dearest first.
Scored(trip, vehicle) == Ranked(trip, Where(Listing, {p \in Places : Kept(p, trip, vehicle)}))
=============================================================================
