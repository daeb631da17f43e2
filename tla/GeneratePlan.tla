---------------------------- MODULE GeneratePlan ----------------------------
(***************************************************************************)
(* One request of the planning service, from the query to the answer       *)
(* (LeaderTrip.Application, Trips/GeneratePlan: the validator and          *)
(* GeneratePlanHandler.cs): the candidates are chosen and scored           *)
(* (PlaceRules), the selector (Itinerary) makes a route of them, the       *)
(* scheduler (DaySchedule) days of the route, a loop that leaves something *)
(* out is tried the other way round, the bill (TripCost) is put on the     *)
(* days, and advice and packing (TripAdvice) are read from the plan.       *)
(***************************************************************************)
EXTENDS DaySchedule, Itinerary, TripAdvice

CONSTANTS
    Listing,            \* every place in the order of the catalogue, custom stops last
    CustomStops,        \* places the user puts on the map
    NightOrder,         \* places that are open by night, best rated first
    Queries

\* What the handler writes down for a custom stop.
CustomStop(minutes) ==
    [category |-> "Entertainment", rating |-> 40, months |-> 1 .. 12, indoor |-> FALSE,
     difficulty |-> 0, minAge |-> 0, kids |-> TRUE, seniors |-> TRUE, offroad |-> 0,
     ticket |-> 0, minutes |-> minutes]

ASSUME StopsAssumption == \A p \in CustomStops : Catalogue[p] = CustomStop(Catalogue[p].minutes)
ASSUME StretchAssumption ==
    \A p \in Pois : VisitTime[p] = (Catalogue[p].minutes * VisitDurationFactor) \div 100
ASSUME ListAssumption ==
    /\ Listing \in Seq(Pois) /\ NightOrder \in Seq(Pois)
    /\ \A i, j \in DOMAIN Listing : Listing[i] = Listing[j] => i = j

VARIABLES
    query,
    step,               \* "asked", "select", "schedule", "retry", "cost",
                        \* "answered" or "refused"
    kept,               \* the first schedule while the other is made
    answer

planVars  == <<query, step, selectVars, kept, answer, vars>>

-----------------------------------------------------------------------------
(* The validator.                                                          *)

SameAsOthers == -1      \* the first day starts like every other

StartsInTime(q) ==
    /\ q.dayStart < q.dayEnd
    /\ q.firstDayStart # SameAsOthers => q.firstDayStart \in 0 .. q.dayEnd - 121

Valid(q) ==
    /\ q.destination # OriginCity
    /\ q.days \in 1 .. 30 /\ q.radius \in 10 .. 2000 /\ q.cap \in 60 .. 14 * 60
    /\ q.vehicleCount > 0 /\ q.fuelShare \in 0 .. 100 /\ q.budget >= 0
    /\ StartsInTime(q)
    /\ Cardinality(q.customs) <= 20
    /\ \A p \in q.customs : Catalogue[p].minutes \in 15 .. 600

-----------------------------------------------------------------------------
(* What the query comes to.                                                *)

\* The places of the list that are in S, in its order.
Where(list, S) ==
    LET at == {i \in DOMAIN list : list[i] \in S}
    IN  [n \in 1 .. Cardinality(at) |->
            list[CHOOSE i \in at : Cardinality({j \in at : j <= i}) = n]]

\* The catalogue and the stops the user put on the map.
AllPois(q) == Where(Listing, (Pois \ CustomStops) \cup q.customs)

\* A custom stop is as good as pinned.
Pinned(q) == q.pinned \cup q.customs

\* A pin goes past every rule.
Candidates(q) == Where(AllPois(q), {p \in Pois : Eligible(q, p) \/ p \in Pinned(q)})

\* In tenths: the slower the days, the less is chosen for them.
PaceShare(q) ==
    CASE q.pace = "relaxed" -> 7 [] q.pace = "balanced" -> 9 [] OTHER -> 10

SelectionRequest(q) ==
    [destination |-> q.destination, returns |-> ReturnsToOrigin(q), days |-> q.days,
     cap |-> q.cap, usable |-> (q.dayEnd - q.dayStart - 150) * PaceShare(q),
     pinned |-> Pinned(q), score |-> [p \in Pois |-> PoiScore(q, Pinned(q), p)]]

\* Mutant: the stroll is looked for in the whole catalogue.
NightPoisOfAll(q) == Where(NightOrder, Range(AllPois(q)))

NightPois(q) == Where(NightOrder, Range(Candidates(q)) \ q.excluded)

\* Mutant: a balanced trip eats as fast as a cheap one.
LunchTimeByStyle(q) ==
    CASE q.picnic -> 30 [] ~q.picnic /\ q.style \in {"Budget", "Balanced"} -> 60 [] OTHER -> 75

LunchTimeOf(q) ==
    CASE q.picnic -> 30 [] ~q.picnic /\ q.style = "Budget" -> 60 [] OTHER -> 75

ScheduleRequest(q) ==
    [days |-> q.days, dayStart |-> q.dayStart,
     firstDayStart |-> IF q.firstDayStart = SameAsOthers THEN q.dayStart ELSE q.firstDayStart,
     dayEnd |-> q.dayEnd, cap |-> q.cap, returns |-> ReturnsToOrigin(q),
     destination |-> q.destination, checkInFirst |-> q.checkInFirst,
     middayRest |-> q.middayRest, evening |-> q.evening, lunch |-> LunchTimeOf(q),
     maxVisits |-> CASE q.pace = "relaxed" -> 3 [] q.pace = "balanced" -> 5
                     [] OTHER -> Cardinality(Pois),
     assigned |-> q.assigned, nightPois |-> NightPois(q)]

\* The way to the destination, and back, is more than the days allow.
TooFar(q) ==
    /\ q.destination # NoCity
    /\ Drive[OriginCity][q.destination] * (IF ReturnsToOrigin(q) THEN 2 ELSE 1) > q.cap * q.days

\* What the parts are asked is among what they may be asked.
ASSUME HandlerAssumption ==
    /\ Tours \subseteq Offers /\ Tours \subseteq Routes
    /\ {SelectionRequest(q) : q \in Queries} \subseteq Wishes
    /\ {ScheduleRequest(q) : q \in Queries} \subseteq Requests

-----------------------------------------------------------------------------
(* The handler.                                                            *)

Refuse ==
    /\ step = "asked" /\ (~Valid(query) \/ TooFar(query))
    /\ step' = "refused"
    /\ UNCHANGED <<query, selectVars, kept, answer, vars>>

StartSelection ==
    /\ step = "asked" /\ Valid(query) /\ ~TooFar(query)
    /\ step' = "select"
    /\ UNCHANGED <<query, selectVars, kept, answer, vars>>

Select ==
    /\ step = "select"
    /\ SelectNext
    /\ UNCHANGED <<query, step, kept, answer, vars>>

\* The scheduler is called with this route.
Schedule(r) ==
    /\ route' = r
    /\ phase' = "visits" /\ day' = 1
    /\ pending' = DOMAIN r
    /\ visited' = {} /\ seen' = {}
    /\ clock' = req.firstDayStart
    /\ driving' = 0 /\ continuous' = 0
    /\ lunchDone' = FALSE /\ dinnerDone' = FALSE
    /\ place' = OriginCity /\ city' = OriginCity
    /\ lastNight' = OriginCity /\ checkedIn' = {}
    /\ blocks' = <<>> /\ plan' = <<>>
    /\ UNCHANGED req

ScheduleRoute ==
    /\ step = "select" /\ stage = "selected"
    /\ Schedule(tour)
    /\ step' = "schedule"
    /\ UNCHANGED <<query, selectVars, kept, answer>>

ScheduleDays ==
    /\ step \in {"schedule", "retry"}
    /\ Next
    /\ UNCHANGED <<query, step, selectVars, kept, answer>>

Unscheduled == {route[i] : i \in pending}
Outcome == [plan |-> plan, unscheduled |-> Unscheduled]

\* A loop of more than three stops may be driven the other way round.
WorthTurning ==
    /\ pending # {}
    /\ req.destination = NoCity /\ req.returns /\ Len(route) > 3

TryReversed ==
    /\ step = "schedule" /\ phase = "done" /\ WorthTurning
    /\ kept' = Outcome
    /\ Schedule(Reverse(route))
    /\ step' = "retry"
    /\ UNCHANGED <<query, selectVars, answer>>

\* Mutant: the days of the better schedule with what the first one left out.
BetterMixed ==
    IF Cardinality(Unscheduled) < Cardinality(kept.unscheduled)
    THEN [Outcome EXCEPT !.unscheduled = {}] ELSE kept

\* The other way is taken if it leaves out less.
Better ==
    IF Cardinality(Unscheduled) < Cardinality(kept.unscheduled) THEN Outcome ELSE kept

KeepBetter ==
    /\ phase = "done"
    /\ \/ step = "schedule" /\ ~WorthTurning /\ kept' = Outcome
       \/ step = "retry" /\ kept' = Better
    /\ step' = "cost"
    /\ UNCHANGED <<query, selectVars, answer, vars>>

\* What the provider of heights says of the visited places and home, if it says anything.
Peak(known, visits) ==
    IF known THEN Max({Elevation[x] : x \in visits \cup {OriginCity}}) ELSE NoHeight

\* The bill on the days, and what there is to say about the plan.
Answer ==
    /\ step = "cost"
    /\ \E known \in BOOLEAN :
          LET days   == kept.plan
              bill   == Bill(days, query)
              cost   == CostBreakdown(bill, query)
              missed == kept.unscheduled \cap Pinned(query)
          IN  answer' = [days |-> days, unscheduled |-> kept.unscheduled, cost |-> cost,
                         subtotal |-> Subtotal(bill), costs |-> DayCosts(days, bill),
                         tickets |-> TicketsShown(days, bill),
                         advice |-> AdviceFor(days, cost, query, Peak(known, VisitedIn(days)), missed),
                         packing |-> PackingFor(days, query)]
    /\ step' = "answered"
    /\ UNCHANGED <<query, selectVars, kept, vars>>

NoOutcome == [plan |-> <<>>, unscheduled |-> {}]
NoAnswer  == [days |-> <<>>]

PlanInit ==
    /\ query \in Queries /\ step = "asked"
    /\ wish = SelectionRequest(query) /\ candidates = Candidates(query) /\ SelectStart
    /\ kept = NoOutcome /\ answer = NoAnswer
    /\ req = ScheduleRequest(query) /\ route = <<>>
    /\ phase = "done" /\ day = 1 /\ pending = {}
    /\ visited = {} /\ seen = {} /\ clock = 0 /\ driving = 0 /\ continuous = 0
    /\ lunchDone = FALSE /\ dinnerDone = FALSE
    /\ place = OriginCity /\ city = OriginCity
    /\ lastNight = OriginCity /\ checkedIn = {}
    /\ blocks = <<>> /\ plan = <<>>

PlanNext ==
    \/ Refuse \/ StartSelection \/ Select \/ ScheduleRoute
    \/ ScheduleDays \/ TryReversed \/ KeepBetter \/ Answer

PlanSpec == PlanInit /\ [][PlanNext]_planVars

-----------------------------------------------------------------------------
(* Properties.                                                             *)

(* What the user asked for is answered: a pinned place or custom stop is   *)
(* in the plan or named in a warning, and the plan visits nothing the      *)
(* rules forbid, and nothing the user took out unless it is pinned as      *)
(* well, strolls after dinner included.                                    *)
WishesAnswered ==
    step = "answered" =>
        LET visits == VisitedIn(answer.days)
            named  == UNION {a.about : a \in answer.advice}
        IN  /\ \A p \in Pinned(query) \cap Range(AllPois(query)) : p \in visits <=> p \notin named
            /\ visits \subseteq Range(candidates)
            /\ visits \cap query.excluded \subseteq Pinned(query)

(* The cost of the days is the bill to the last toman, for a trip of more  *)
(* than a day: every item of the bill finds a block that stands for it,    *)
(* and rounding loses nothing. (The remarks of CostAttribution.)           *)
DaysAddUp ==
    step = "answered" /\ query.days > 1 => SumOf(answer.costs) = answer.subtotal
=============================================================================
