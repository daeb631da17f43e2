---------------------------- MODULE FirstPlanner ----------------------------
(***************************************************************************)
(* generatePlan of the first generation of leaderTrip                      *)
(* (src/engine/planner.ts): a route is chosen by inserting one place after *)
(* the other, days are filled along it until the driving or the daylight   *)
(* runs out, and the bill and the advice are made of what came out. It     *)
(* runs in one go; its turns are steps here. A lever (optimizer.ts) plans  *)
(* the trip again with one wish changed.                                   *)
(***************************************************************************)
EXTENDS FirstAdvice

CONSTANTS
    Trips,          \* what may be asked for
    Roadless        \* pairs of points for which the routing service may know no road

ASSUME TripsAssumption == Trips \subseteq TripInput

VARIABLES
    trip, matrix,   \* what is planned, with which roads
    stage,          \* "choosing", "morning", "day", "answer" or "done"
    scored,         \* the candidates, the best first
    route,          \* the places chosen, in order
    remaining,      \* those of the route not visited yet
    point, city,    \* where the trip is
    thisDay,        \* the day being filled
    days,           \* the days that are full
    totals,         \* [km, mountainKm, realKm, nights, visited, meals]
    answer,         \* the bill and the advice, <<>> before
    lever           \* <<the total of the plan that is to be made cheaper>>, or <<>>

plannerVars == <<trip, matrix, stage, scored, route, remaining, point, city, thisDay, days, totals,
          answer, lever>>

\* Hours and lengths in ticks of the clock; fuel is counted in kilometres.
RestEvery == 120 * Minute
Rest      == 15 * Minute
FuelEvery == 350
FuelStop  == 15 * Minute
Noon      == 720 * Minute
LunchEnds == 870 * Minute
Siesta    == 60 * Minute
Cap       == trip.driving * Minute

-----------------------------------------------------------------------------
(* selectRoute.                                                            *)

EndPoint(t) == IF t.round THEN <<t.origin>> ELSE t.destination

DriveMinutes(t, roads, a, b) == LegBetween(a, b, CityAt(a), GroupSlowdown(t.group), roads).minutes

RouteDrive(t, roads, order) ==
    LET stops == <<t.origin>> \o order \o EndPoint(t)
    IN  Sum([i \in 1 .. Len(stops) - 1 |-> DriveMinutes(t, roads, stops[i], stops[i + 1])])

RouteVisit(t, order) ==
    Sum([i \in DOMAIN order |-> (Minute * Poi[order[i]].visit * VisitTimeFactor(t.group)) \div 100])

\* A pin leaves some of the driving for the days to be laid out in.
DriveBudget(t) == (Minute * t.days * t.driving * (IF t.pinned # {} THEN 85 ELSE 100)) \div 100
TimeBudget(t)  == Minute * t.days * Most(0, t.dayEnd - t.dayStart - 150)

PlacesOf(found) == [i \in DOMAIN found |-> found[i].poi]

PinnedRoute(t, found) ==
    OptimizeOrder(t.origin, Where(PlacesOf(found), t.pinned), EndPoint(t))

Inserted(order, pos, place) == SubSeq(order, 1, pos) \o <<place>> \o SubSeq(order, pos + 1, Len(order))

\* The insertions within both budgets, in the order the loops meet them.
Insertions ==
    LET drive == RouteDrive(trip, matrix, route)
        all == FlattenSeq([i \in DOMAIN scored |->
            IF scored[i].poi \in ToSet(route) THEN <<>>
            ELSE [k \in 1 .. Len(route) + 1 |->
                [order |-> Inserted(route, k - 1, scored[i].poi), score |-> scored[i].score]]])
        weighed == [i \in DOMAIN all |->
            LET driven == RouteDrive(trip, matrix, all[i].order)
                seen   == RouteVisit(trip, all[i].order)
            IN  [order |-> all[i].order, score |-> all[i].score, drive |-> driven, total |-> driven + seen,
                 added |-> Most(Minute, driven + seen - drive - RouteVisit(trip, route))]]
    IN  Where(weighed, {x \in ToSet(weighed) : x.drive <= DriveBudget(trip) /\ x.total <= TimeBudget(trip)})

\* The most points for a minute more, the first of equals.
BestInsertion(found) ==
    FoldLeft(LAMBDA best, x : IF x.score * best.added > best.score * x.added THEN x ELSE best,
             Head(found), found)

Insert ==
    /\ stage = "choosing" /\ Insertions # <<>>
    /\ route' = BestInsertion(Insertions).order
    /\ UNCHANGED <<trip, matrix, stage, scored, remaining, point, city, thisDay, days, totals, answer, lever>>

\* Nothing fits any more: the route is put in order once and the days begin.
StopInserting ==
    /\ stage = "choosing" /\ Insertions = <<>>
    /\ route' = OptimizeOrder(trip.origin, route, EndPoint(trip))
    /\ remaining' = route'
    /\ stage' = "morning"
    /\ UNCHANGED <<trip, matrix, scored, point, city, thisDay, days, totals, answer, lever>>

-----------------------------------------------------------------------------
(* The days.                                                               *)

DayNumber == Len(days) + 1
LastDay   == DayNumber = trip.days
ForcedEnd == IF LastDay /\ trip.round THEN <<trip.origin>> ELSE <<>>

NewBlock(kind, at, minutes, place, cost) ==
    [kind |-> kind, at |-> at, minutes |-> minutes, place |-> place, cost |-> cost]

\* The day with a block at its hour, and the clock behind it.
With(day, block) ==
    [day EXCEPT !.blocks = Append(@, block), !.at = block.at + block.minutes, !.cost = @ + block.cost]

Eaten(day, meal, at, minutes, where) ==
    LET cost == MealCost(trip, meal, where)
    IN  [With(day, NewBlock(meal, at, minutes, where, cost)) EXCEPT !.meals = @ + cost]

Driven(day, leg, to) ==
    [With(day, NewBlock("drive", day.at, leg.minutes, to, LegCost(trip, leg))) EXCEPT
        !.driven = @ + leg.minutes, !.unrested = @ + leg.minutes, !.unfuelled = @ + leg.km,
        !.km = @ + leg.km,
        !.mountainKm = @ + (IF leg.terrain = "mountain" THEN leg.km ELSE 0),
        !.realKm = @ + (IF leg.real THEN leg.km ELSE 0)]

NoDay    == [blocks |-> <<>>]
NoTotals == [km |-> 0, mountainKm |-> 0, realKm |-> 0, nights |-> <<>>, visited |-> <<>>, meals |-> 0]
NoAnswer == <<>>

\* The places of this day first, then those of no day, in the order of the route.
Queue(number) ==
    Where(remaining, {p \in Places : trip.assigned[p] = number})
    \o Where(remaining, {p \in Places : trip.assigned[p] = 0})

\* Breakfast from the second day on, for nothing at home.
Morning ==
    /\ stage = "morning" /\ Len(days) < trip.days
    /\ LET weather == DayWeather(trip.weather, city, DayNumber)
           window  == DayWindow(trip, weather)
           dawn    == [blocks |-> <<>>, at |-> window.start, end |-> window.end,
                       weather |-> weather,
                       slowdown |-> (GroupSlowdown(trip.group) * WeatherSpeed(weather)) \div 100,
                       driven |-> 0, unrested |-> 0, unfuelled |-> 0, km |-> 0, mountainKm |-> 0,
                       realKm |-> 0, cost |-> 0, meals |-> 0, lunch |-> FALSE,
                       siesta |-> ~NeedsSiesta(weather), pois |-> <<>>, queue |-> Queue(DayNumber),
                       from |-> city, late |-> 0]
       IN  thisDay' = IF days = <<>> THEN dawn
                    ELSE IF city = trip.origin
                    THEN With(dawn, NewBlock("breakfast", dawn.at, 45 * Minute, city, 0))
                    ELSE Eaten(dawn, "breakfast", dawn.at, 45 * Minute, city)
    /\ stage' = "day"
    /\ UNCHANGED <<trip, matrix, scored, route, remaining, point, city, days, totals, answer, lever>>

Leg(from, to, fromCity) == LegBetween(from, to, fromCity, thisDay.slowdown, matrix)

\* The place, the way to it and the way from it to a bed.
NextWay ==
    LET next == Head(thisDay.queue)
        bed  == IF ForcedEnd # <<>> THEN ForcedEnd[1]
                ELSE PickStayCity(next, SubSeq(thisDay.queue, 2, Least(2, Len(thisDay.queue))))
    IN  [place |-> next, leg |-> Leg(point, next, city), back |-> Leg(next, bed, CityAt(next))]

NeedsRest(way) == thisDay.unrested + way.leg.minutes > RestEvery
NeedsFuel(way) == thisDay.unfuelled + way.leg.km > FuelEvery

\* Mutant: the way to a bed is forgotten.
FitsWithoutBed(way) ==
    /\ thisDay.driven + way.leg.minutes <= Cap
    /\ thisDay.at + way.leg.minutes + VisitMinutes(way.place, trip.group) <= thisDay.end

\* The meal and the rest that fall on the way are not foreseen.
Fits(way) ==
    /\ thisDay.driven + way.leg.minutes + way.back.minutes <= Cap
    /\ thisDay.at + way.leg.minutes + (IF NeedsRest(way) THEN Rest ELSE 0)
         + (IF NeedsFuel(way) THEN FuelStop ELSE 0)
         + VisitMinutes(way.place, trip.group) + way.back.minutes <= thisDay.end

Rested(day, way) ==
    IF NeedsRest(way) THEN [With(day, NewBlock("rest", day.at, Rest, city, 0)) EXCEPT !.unrested = 0] ELSE day

Fuelled(day, way) ==
    IF NeedsFuel(way) THEN [With(day, NewBlock("fuel", day.at, FuelStop, city, 0)) EXCEPT !.unfuelled = 0] ELSE day

\* Lunch when its time has come, priced where the day came from.
Lunched(day) ==
    IF ~day.lunch /\ day.at \in Noon .. LunchEnds
    THEN LET minutes == Minute * (IF trip.style = "budget" THEN 60 ELSE 75)
         IN  [Eaten(day, "lunch", day.at, minutes, city) EXCEPT !.lunch = TRUE, !.late = @ + minutes]
    ELSE day

Cooled(day) ==
    IF ~day.siesta /\ day.at >= 780 * Minute
    THEN [With(day, NewBlock("rest", day.at, Siesta, city, 0)) EXCEPT !.siesta = TRUE, !.late = @ + Siesta]
    ELSE day

AfterVisit(day, place) ==
    [With(day, NewBlock("visit", day.at, VisitMinutes(place, trip.group), place, TicketCost(trip, place)))
        EXCEPT !.unrested = 0, !.pois = Append(@, place), !.queue = Tail(@)]

VisitNext ==
    /\ stage = "day" /\ thisDay.queue # <<>>
    /\ LET way == NextWay IN
       /\ Fits(way)
       /\ thisDay' = AfterVisit(Cooled(Lunched(Driven(Fuelled(Rested([thisDay EXCEPT !.late = 0], way), way),
                                                 way.leg, way.place))), way.place)
       /\ remaining' = Where(remaining, ToSet(remaining) \ {way.place})
       /\ point' = way.place /\ city' = CityAt(way.place)
    /\ UNCHANGED <<trip, matrix, stage, scored, route, days, totals, answer, lever>>

-----------------------------------------------------------------------------
(* The night.                                                              *)

LateLunch(day) ==
    IF ~day.lunch /\ day.at < day.end
    THEN Eaten(day, "lunch", Most(day.at, Noon), 60 * Minute, city) ELSE day

StayCity ==
    LET next == SubSeq(remaining, 1, Least(1, Len(remaining)))
    IN  IF ForcedEnd # <<>> THEN ForcedEnd[1]
        ELSE IF thisDay.pois # <<>> THEN PickStayCity(Last(thisDay.pois), next)
        ELSE PickTransferCity(point, next, Cap - thisDay.driven, city, thisDay.slowdown, matrix)

ToBed(day, stay) ==
    IF stay # city \/ Straight[point][stay] > 5
    THEN Driven(day, Leg(point, stay, city), stay) ELSE day

\* At home for nothing, elsewhere with dinner; the last night is in no plan.
Slept(day, stay) ==
    IF LastDay THEN day
    ELSE IF stay = trip.origin THEN With(day, NewBlock("lodging", Most(day.at, 1260 * Minute), 0, stay, 0))
    ELSE LET fed == Eaten(day, "dinner", Most(day.at, 1140 * Minute), 75 * Minute, stay)
         IN  With(fed, NewBlock("lodging", Most(fed.at, 1260 * Minute), 0, stay, NightCost(trip, stay)))

\* Something to nibble, a share of what was eaten.
Nibbled(day) ==
    IF day.meals > 0
    THEN With(day, NewBlock("snack", Least(day.end, Noon + 240 * Minute), 0, city, Snacks(day.meals))) ELSE day

\* Math.round of the ticks in minutes.
ToMinutes(ticks) == (2 * ticks + Minute) \div (2 * Minute)

\* The plan has whole minutes: the hour and the length of a block are rounded
\* each on its own. (The sort behind it moves the snack alone.)
PrintedBlock(block) == [block EXCEPT !.at = ToMinutes(@), !.minutes = ToMinutes(@)]
Printed(day) ==
    [day EXCEPT !.blocks = [i \in DOMAIN @ |-> PrintedBlock(@[i])], !.driven = ToMinutes(@)]

TotalsWith(t, day, stay) ==
    [t EXCEPT !.km = @ + day.km, !.mountainKm = @ + day.mountainKm, !.realKm = @ + day.realKm,
              !.nights = IF LastDay \/ stay = trip.origin THEN @ ELSE Append(@, stay),
              !.visited = @ \o day.pois,
              !.meals = @ + day.meals]

Night ==
    /\ stage = "day" /\ (thisDay.queue # <<>> => ~Fits(NextWay))
    /\ LET stay == StayCity
           full == Nibbled(Slept(ToBed(LateLunch(thisDay), stay), stay))
       IN  /\ days' = Append(days, [Printed(full) EXCEPT !.from = [start |-> @, stay |-> stay]])
           /\ totals' = TotalsWith(totals, full, stay)
           /\ point' = stay /\ city' = stay
    /\ thisDay' = NoDay
    /\ stage' = IF LastDay THEN "answer" ELSE "morning"
    /\ UNCHANGED <<trip, matrix, scored, route, remaining, answer, lever>>

-----------------------------------------------------------------------------
(* The answer.                                                             *)

Answer ==
    /\ stage = "answer"
    /\ LET bill == ComputeCost(trip, totals)
       IN  answer' = [bill |-> bill,
                      advice |-> Advise(trip, days, bill, ToSet(totals.visited), Len(remaining)),
                      packing |-> PackingList(trip, days),
                      routing |-> CASE totals.km = 0 \/ totals.realKm = 0 -> "estimate"
                                    [] totals.realKm >= totals.km - 1     -> "osrm"
                                    [] OTHER                              -> "mixed"]
    /\ stage' = "done"
    /\ UNCHANGED <<trip, matrix, scored, route, remaining, point, city, thisDay, days, totals, lever>>

\* routingPoints: the points of the plan whose roads are worth asking for,
\* then the best of the places that are not in it, up to a limit.
RoutingPoints(limit) ==
    LET listed(places) == Where(places, {p \in Places : ~Poi[p].custom})
        own  == FlattenSeq([i \in DOMAIN days |-> <<days[i].from.stay>> \o listed(days[i].pois)])
        rest == Where(PlacesOf(scored), Places \ ToSet(totals.visited))
        all  == <<trip.origin>> \o own \o listed(rest)
    IN  SubSeq(all, 1, Least(limit, Len(all)))

Start(t) ==
    /\ stage' = "choosing"
    /\ scored' = Scored(t, Vehicle)
    /\ route' = PinnedRoute(t, scored') /\ remaining' = <<>>
    /\ point' = t.origin /\ city' = t.origin
    /\ thisDay' = NoDay /\ days' = <<>> /\ totals' = NoTotals
    /\ answer' = NoAnswer

\* The draft has shown which roads matter; they are asked for, and the trip
\* is planned again with those that were found.
PlanAgain ==
    /\ stage = "done" /\ matrix = {} /\ lever = <<>>
    /\ \E unknown \in SUBSET {x \in Roadless : {x[1], x[2]} \subseteq ToSet(RoutingPoints(60))} :
          matrix' = (ToSet(RoutingPoints(60)) \X ToSet(RoutingPoints(60))) \ unknown
    /\ Start(trip)
    /\ UNCHANGED <<trip, lever>>

-----------------------------------------------------------------------------
(* budgetLevers.                                                           *)

Cheaper(style) == CASE style = "luxury" -> "comfort" [] style = "comfort" -> "balanced"
                    [] style = "balanced" -> "budget" [] OTHER -> "none"

\* The two places of the plan that are liked least.
LeastLiked ==
    LET inPlan == Where(PlacesOf(scored), ToSet(totals.visited))
        n      == Len(inPlan)
    IN  IF n < 3 THEN {} ELSE {inPlan[n], inPlan[n - 1]}

\* Each lever changes one wish.
Levers ==
    {t \in {IF Cheaper(trip.style) = "none" THEN trip ELSE [trip EXCEPT !.style = Cheaper(@)],
            IF trip.days > 1 THEN [trip EXCEPT !.lodging = "camp"] ELSE trip,
            [trip EXCEPT !.blocked = @ \cup LeastLiked],
            IF trip.radius > 100 THEN [trip EXCEPT !.radius = ((((@ * 7) \div 10) + 12) \div 25) * 25] ELSE trip,
            IF trip.days > 1 THEN [trip EXCEPT !.days = @ - 1] ELSE trip,
            [trip EXCEPT !.subsidized = 100],
            IF trip.cars > 1 THEN [trip EXCEPT !.cars = @ - 1] ELSE trip} : t # trip}

\* The plan with the lever pulled is made without measured roads and without
\* the taste of earlier trips, whatever the plan it is compared with had.
PullLever ==
    /\ stage = "done" /\ lever = <<>>
    /\ \E cheaper \in Levers :
          /\ trip' = [cheaper EXCEPT !.ratings = <<>>, !.heights = FALSE]
          /\ Start(trip')
    /\ lever' = <<answer.bill.total>>
    /\ matrix' = {}

PlannerInit ==
    /\ trip \in Trips /\ matrix = {} /\ lever = <<>>
    /\ stage = "choosing"
    /\ scored = Scored(trip, Vehicle)
    /\ route = PinnedRoute(trip, scored) /\ remaining = <<>>
    /\ point = trip.origin /\ city = trip.origin
    /\ thisDay = NoDay /\ days = <<>> /\ totals = NoTotals
    /\ answer = NoAnswer

PlannerNext == Insert \/ StopInserting \/ Morning \/ VisitNext \/ Night \/ Answer \/ PlanAgain \/ PullLever

PlannerSpec == PlannerInit /\ [][PlannerNext]_plannerVars

-----------------------------------------------------------------------------
(* Properties.                                                             *)

(* planner.ts:143: the costs of the days add up to the subtotal of the     *)
(* bill to the last Toman, over mountain roads, nights at home and meals   *)
(* that were skipped.                                                      *)
DaysSumToSubtotal ==
    stage = "done" => Sum([i \in DOMAIN days |-> days[i].cost]) = answer.bill.subtotal

Ends(block) == block.at + block.minutes

InOrder(blocks) ==
    \A k, l \in DOMAIN blocks :
        k < l /\ "snack" \notin {blocks[k].kind, blocks[l].kind} => Ends(blocks[k]) <= blocks[l].at + 1

LeftInTime(day) ==
    \A k \in DOMAIN day.blocks :
        day.blocks[k].kind = "visit" /\ day.blocks[k].place = Last(day.pois) =>
            Minute * (Ends(day.blocks[k]) - 1) <= day.end + day.late

(* A day can be lived as it is printed, to the minute that hour and length *)
(* may come to, rounded each on its own: no block begins before the one    *)
(* above it has ended (a snack has no hour of its own); a day on which     *)
(* something is seen keeps the driving the user allows, to bed included,   *)
(* unless places were given days of their own; and its last place is left  *)
(* in time to be in bed by the end of the day but for the meal and the     *)
(* rest that came in between.                                              *)
DaysCanBeLived ==
    \A i \in DOMAIN days :
        /\ InOrder(days[i].blocks)
        /\ days[i].pois # <<>> /\ (\A p \in Places : trip.assigned[p] = 0) => days[i].driven <= trip.driving
        /\ LeftInTime(days[i])

Seen == FlattenSeq([i \in DOMAIN days |-> days[i].pois]) \o (IF stage = "day" THEN thisDay.pois ELSE <<>>)

\* A place of the route is on exactly one day or still to be visited; a place given a
\* day is on that day or on none; each day begins where the night before was spent.
RouteIsSpent ==
    /\ stage \notin {"choosing"} =>
          /\ ToSet(route) = ToSet(Seen) \cup ToSet(remaining)
          /\ Len(route) = Len(Seen) + Len(remaining) /\ IsInjective(route)
    /\ \A i \in DOMAIN days : \A p \in ToSet(days[i].pois) : trip.assigned[p] \in {0, i}
    /\ \A i \in DOMAIN days :
          days[i].from.start = IF i = 1 THEN trip.origin ELSE days[i - 1].from.stay
    /\ stage \in {"answer", "done"} /\ trip.round => Last(days).from.stay = trip.origin

\* advisor.ts:224: every pin is visited or its want of room is told, with its name if it
\* is of the catalogue; a visited place that breaks a rule of the trip was pinned or is the
\* user's own, and is named; and what a warning of a day says to take against the rain is
\* on the packing list.
Named(p) == \E w \in answer.advice : p \in w.of
Told(p)  == \E w \in answer.advice : w.about = "no_room" /\ (p \in w.of \/ Poi[p].custom)
WishesNamed ==
    stage = "done" =>
        /\ \A p \in trip.pinned \cap Places : p \in ToSet(Seen) \/ Told(p)
        /\ \A p \in ToSet(Seen) : RejectReason(p, trip, Vehicle) # "none" =>
              (p \in trip.pinned \/ Poi[p].custom) /\ Named(p)
        /\ (\E w \in answer.advice : w.about = "rain" /\ w.level = "warn") => "rain_clothes" \in answer.packing

(* Nothing chosen is lost on the way, from the route to the last night,    *)
(* and a pin that is not kept is never dropped in silence. (A stop of the  *)
(* user's own that is not pinned may be: planner.ts:690 may not choose it, *)
(* and then nothing counts or names it.)                                   *)
PlacesAccounted == RouteIsSpent /\ WishesNamed
=============================================================================
