---------------------------- MODULE DaySchedule ----------------------------
(***************************************************************************)
(* The scheduler of the planning service (LeaderTrip.Domain, Planning/     *)
(* DayScheduler.cs): it turns the order of visits chosen by the selector   *)
(* into days of blocks with hours. One action is one turn of its loops:    *)
(* a visit with what precedes it, the leg to the city of the night, the    *)
(* evening there. Times are minutes since midnight; a duration is what     *)
(* TravelPlanner.Plan and the stretched visit come to for the group.       *)
(***************************************************************************)
EXTENDS TripMap, SequencesExt, FiniteSetsExt

CONSTANTS
    Opens, Closes,      \* [Pois -> minutes]; Closes is Never without a limit
    Never,
    StayCities,         \* cities with lodging, in the order of the catalogue
    Routes,             \* orders of visits the selector may hand over
    Requests            \* wishes of the user

ScheduleWishes ==
    [days : Nat \ {0}, dayStart : Nat, firstDayStart : Nat, dayEnd : Nat,
     cap : Nat, returns : BOOLEAN, destination : Cities \cup {NoCity},
     checkInFirst : BOOLEAN, middayRest : BOOLEAN, evening : BOOLEAN,
     lunch : Nat, maxVisits : Nat, assigned : [Pois -> Nat],
     nightPois : Seq(Pois)]   \* for a stroll after dinner, best rated first

ASSUME HoursAssumption ==
    /\ Opens \in [Pois -> Nat] /\ Closes \in [Pois -> Nat]
    /\ Never \in Nat
    /\ StayCities \in Seq(Cities)
ASSUME RequestAssumption == Requests \subseteq ScheduleWishes
ASSUME RouteAssumption ==
    \A r \in Routes : r \in Seq(Pois) /\ \A i, j \in DOMAIN r : r[i] = r[j] => i = j

Breakfast == 45
Dinner == 75
RestStop == 15
ContinuousDriveLimit == 120
LunchWindowStart == 12 * 60
LunchWindowEnd == 14 * 60 + 30
EarlyLunchStart == 11 * 60
LateLunchLimit == 16 * 60
DinnerTime == 19 * 60
DinnerWindowEnd == 21 * 60
MaxOpeningWait == 90
VisibleWait == 30
FreeTimeThreshold == 60
MinEveningVisit == 40
CheckInRest == 60
MiddayRestTime == 45
LateVisitCutoff == 19 * 60 + 30
EveningReach == 8
Bedtime == 21 * 60
Progress == 25          \* kilometres a day without visits must bring at least

VARIABLES
    req, route,    \* the input
    phase,         \* "visits", "transfer", "night" or "done"
    day,
    pending,       \* places of the route not visited yet
    visited,       \* visitedIds, over all days
    seen,          \* visited today
    clock, driving, continuous, lunchDone, dinnerDone,
    place, city,   \* current, currentCity
    lastNight, checkedIn,
    blocks,        \* of today
    plan           \* the days behind

today == <<clock, driving, continuous, lunchDone, dinnerDone>>
input == <<req, route>>
vars  == <<input, phase, day, pending, visited, seen, today, place, city,
           lastNight, checkedIn, blocks, plan>>

Later(a, b)   == IF a > b THEN a ELSE b
Earlier(a, b) == IF a < b THEN a ELSE b

Block(kind, start, length, what) ==
    [kind |-> kind, start |-> start, length |-> length, what |-> what, rests |-> 0]
DriveBlock(start, leg, rests, to) ==
    [kind |-> "drive", start |-> start, length |-> leg + RestStop * rests,
     what |-> to, rests |-> rests]
When(condition, block) == IF condition THEN <<block>> ELSE <<>>

\* Mutant: one day too many.
IsLastDayTooLate == day > req.days

IsLastDay == day = req.days

-----------------------------------------------------------------------------
(* Where the night may be.                                                 *)

\* MinBy: the first of the nearest.
NearestStayCity(x) ==
    IF StayCities = <<>> THEN OriginCity
    ELSE StayCities[CHOOSE i \in DOMAIN StayCities : \A j \in DOMAIN StayCities :
            /\ Gap[x][StayCities[i]] <= Gap[x][StayCities[j]]
            /\ Gap[x][StayCities[i]] = Gap[x][StayCities[j]] => i <= j]

FinalCity(x) ==
    IF req.returns THEN OriginCity
    ELSE IF req.destination # NoCity THEN req.destination
    ELSE NearestStayCity(x)

EndCity(x) == IF IsLastDay THEN FinalCity(x) ELSE NearestStayCity(x)

\* Where a day without visits is heading, if anywhere.
Goals ==
    IF pending # {} THEN {route[Min(pending)]} ELSE {req.destination} \ {NoCity}

\* Mutant: the drive to the better city is not compared with what is left.
CloserAnyDrive(best, c, goal) ==
    /\ c # city
    /\ Gap[c][goal] < Gap[IF best = city THEN place ELSE best][goal] - Progress

\* City c brings the group nearer to the goal than the best one so far, by
\* more than a trifle, and can be reached within what is left of the cap.
Closer(best, c, goal) ==
    /\ c # city
    /\ Gap[c][goal] < Gap[IF best = city THEN place ELSE best][goal] - Progress
    /\ Drive[place][c] <= req.cap - driving

\* The best cities found while the catalogue is gone through.
Searches(goal) ==
    {best \in [0 .. Len(StayCities) -> Cities] :
        /\ best[0] = city
        /\ \A i \in DOMAIN StayCities :
              best[i] = IF Closer(best[i - 1], StayCities[i], goal)
                        THEN StayCities[i] ELSE best[i - 1]}

\* The night of a day without visits: on towards what is left, within the cap.
ProgressStayCity ==
    IF Goals = {} \/ driving >= req.cap THEN {city}
    ELSE {best[Len(StayCities)] : best \in UNION {Searches(goal) : goal \in Goals}}

\* The city of the night, as a set of one.
StayCity ==
    IF IsLastDay THEN {FinalCity(place)}
    ELSE IF seen # {} THEN {NearestStayCity(place)}
    ELSE ProgressStayCity

-----------------------------------------------------------------------------
(* One more visit.                                                         *)

\* RestPlan.
RestBefore(leg) == continuous > 0 /\ continuous + leg > ContinuousDriveLimit

\* Mutant: a leg that reaches the limit exactly is counted as one that passes it
\* and one that passes it twice as once.
RestsWithinOnce(leg) ==
    IF leg >= ContinuousDriveLimit THEN 1 ELSE 0

RestsWithin(leg) ==
    LET counted == IF RestBefore(leg) THEN leg ELSE continuous + leg
    IN  IF counted = 0 THEN 0 ELSE (counted - 1) \div ContinuousDriveLimit

OnTheRoad(leg) == leg + RestStop * RestsWithin(leg)

ChecksIn(p) ==
    LET c == CityOf[p]
    IN  /\ req.checkInFirst
        /\ ~IsLastDay \/ ~req.returns
        /\ c # OriginCity /\ c # lastNight
        /\ c \notin checkedIn /\ c \in Range(StayCities)
        /\ EndCity(p) = c

LunchTime == req.lunch
LunchWithRest == LunchTime + (IF req.middayRest THEN MiddayRestTime ELSE 0)

\* Mutant: a late lunch is offered whether or not there was one.
MealBeforeAgain(now) ==
    IF /\ now >= LunchWindowStart
       /\ now <= LunchWindowEnd \/ (clock <= LunchWindowEnd /\ now <= LateLunchLimit)
    THEN "lunch"
    ELSE IF ~dinnerDone /\ now \in DinnerTime .. DinnerWindowEnd THEN "dinner"
    ELSE "none"

\* The meal eaten before the visit, when one arrives at this hour.
MealBefore(now) ==
    IF /\ ~lunchDone /\ now >= LunchWindowStart
       /\ now <= LunchWindowEnd \/ (clock <= LunchWindowEnd /\ now <= LateLunchLimit)
    THEN "lunch"
    ELSE IF ~dinnerDone /\ now \in DinnerTime .. DinnerWindowEnd THEN "dinner"
    ELSE "none"

MealTime(meal) ==
    CASE meal = "lunch"  -> LunchWithRest
      [] meal = "dinner" -> Dinner
      [] OTHER           -> 0

\* What FirstFeasible weighs: the hours of a visit to p as the next one.
Placement(p) ==
    LET leg     == Drive[place][p]
        leave   == clock + (IF RestBefore(leg) THEN RestStop ELSE 0)
        arrive  == leave + OnTheRoad(leg)
        settled == arrive + (IF ChecksIn(p) THEN CheckInRest ELSE 0)
        meal    == MealBefore(settled)
        ready   == settled + MealTime(meal)
    IN  [leg |-> leg, leave |-> leave, arrive |-> arrive, settled |-> settled,
         meal |-> meal, ready |-> ready, start |-> Later(ready, Opens[p])]

\* Mutant: the closing hour is compared with the arrival alone.
OpenForVisitAtArrival(p, at) == at.ready <= Closes[p] /\ at.start - at.ready <= MaxOpeningWait

\* EarliestVisitStart, and not too long a wait at a closed door.
OpenForVisit(p, at) ==
    /\ at.start + VisitTime[p] <= Closes[p]
    /\ at.start - at.ready <= MaxOpeningWait

\* Mutant: the way on to the city of the night is not counted.
FitsTodayOneWay(p, at) ==
    /\ driving + at.leg <= req.cap
    /\ at.start + VisitTime[p] <= req.dayEnd

\* The leg, the visit and the way on to the city of the night fit today.
FitsToday(p, at) ==
    LET back == Drive[p][EndCity(p)]
    IN  /\ driving + at.leg + back <= req.cap
        /\ at.start + VisitTime[p] + back <= req.dayEnd

\* Mutant: the wish for a quiet evening is not looked at.
LateEnoughAnyway(at) == TRUE

LateEnough(at) == req.evening \/ at.start < LateVisitCutoff

Feasible(p) ==
    LET at == Placement(p)
    IN  /\ req.assigned[p] \in {0, day}
        /\ OpenForVisit(p, at)
        /\ LateEnough(at)
        /\ FitsToday(p, at)

FeasibleNow == {i \in pending : Cardinality(seen) < req.maxVisits /\ Feasible(route[i])}

\* Mutant: a visited place stays in the queue.
TakeNothing(i) == UNCHANGED pending

Take(i) == pending' = pending \ {i}

Visit(i) ==
    LET p  == route[i]
        at == Placement(p)
    IN  /\ Take(i)
        /\ blocks' = blocks
              \o When(at.leave # clock, Block("rest", clock, RestStop, p))
              \o <<DriveBlock(at.leave, at.leg, RestsWithin(at.leg), p)>>
              \o When(ChecksIn(p), Block("check-in", at.arrive, CheckInRest, CityOf[p]))
              \o When(at.meal # "none",
                      Block(at.meal, at.settled, IF at.meal = "dinner" THEN Dinner ELSE LunchTime, p))
              \o When(at.meal = "lunch" /\ req.middayRest,
                      Block("rest", at.settled + LunchTime, MiddayRestTime, p))
              \o When(at.start - at.ready >= VisibleWait,
                      Block("rest", at.ready, at.start - at.ready, p))
              \o <<Block("visit", at.start, VisitTime[p], p)>>
        /\ clock' = at.start + VisitTime[p]
        /\ driving' = driving + at.leg
        /\ continuous' = 0
        /\ checkedIn' = IF ChecksIn(p) THEN checkedIn \cup {CityOf[p]} ELSE checkedIn
        /\ lunchDone' = (lunchDone \/ at.meal = "lunch")
        /\ dinnerDone' = (dinnerDone \/ at.meal = "dinner")
        /\ seen' = seen \cup {p} /\ visited' = visited \cup {p}
        /\ place' = p /\ city' = CityOf[p]
        /\ UNCHANGED <<input, phase, day, lastNight, plan>>

\* The first place of the queue that can still be visited today.
VisitNext ==
    /\ phase = "visits"
    /\ \E i \in FeasibleNow : (\A j \in FeasibleNow : i <= j) /\ Visit(i)

EndVisits ==
    /\ phase = "visits"
    /\ FeasibleNow = {}
    /\ phase' = "transfer"
    /\ UNCHANGED <<input, day, pending, visited, seen, today, place, city,
                   lastNight, checkedIn, blocks, plan>>

-----------------------------------------------------------------------------
(* The leg to the city of the night.                                       *)

LunchBeforeLeg(leg) ==
    /\ ~lunchDone
    /\ clock \in EarlyLunchStart .. LunchWindowEnd
    /\ leg >= 45

\* Mutant: the leg is driven and the base stays where the visits were.
ArriveNowhere(stay) == UNCHANGED <<place, city>>

Arrive(stay) == place' = stay /\ city' = stay

DriveTo(stay) ==
    LET leg   == Drive[place][stay]
        eats  == LunchBeforeLeg(leg)
        fed   == clock + (IF eats THEN LunchWithRest ELSE 0)
        leave == fed + (IF RestBefore(leg) THEN RestStop ELSE 0)
    IN  /\ blocks' = blocks
              \o When(eats, Block("lunch", clock, LunchTime, city))
              \o When(eats /\ req.middayRest,
                      Block("rest", clock + LunchTime, MiddayRestTime, city))
              \o When(leave # fed, Block("rest", fed, RestStop, stay))
              \o <<DriveBlock(leave, leg, RestsWithin(leg), stay)>>
        /\ clock' = leave + OnTheRoad(leg)
        /\ driving' = driving + leg
        /\ continuous' = 0
        /\ lunchDone' = (lunchDone \/ eats)
        /\ UNCHANGED dinnerDone
        /\ Arrive(stay)

\* From here to the end of the day the city of the night is the current one.
Transfer ==
    /\ phase = "transfer"
    /\ phase' = "night"
    /\ \E stay \in StayCity :
          IF stay = city
          THEN UNCHANGED <<blocks, today, place, city>>
          ELSE DriveTo(stay)
    /\ UNCHANGED <<input, day, pending, visited, seen, lastNight, checkedIn, plan>>

-----------------------------------------------------------------------------
(* The evening in the city of the night.                                   *)

\* Mutant: places visited by day are proposed again.
StrollChoicesAgain(stay, from) ==
    {i \in DOMAIN req.nightPois :
        LET p == req.nightPois[i] IN
            /\ CityOf[p] = stay /\ Gap[p][stay] <= EveningReach
            /\ Opens[p] <= from /\ from + MinEveningVisit <= Closes[p]}

\* PickEveningVisit: open already, near by foot, not visited yet.
StrollChoices(stay, from) ==
    {i \in DOMAIN req.nightPois :
        LET p == req.nightPois[i] IN
            /\ p \notin visited
            /\ CityOf[p] = stay /\ Gap[p][stay] <= EveningReach
            /\ Opens[p] <= from /\ from + MinEveningVisit <= Closes[p]}

StrollTime(p, from) == Min({VisitTime[p], req.dayEnd - from, Closes[p] - from})

\* Today's stroll as a set: at most one place.
Strolls(stay, from) ==
    IF ~req.evening \/ req.dayEnd - from < MinEveningVisit \/ StrollChoices(stay, from) = {}
    THEN {}
    ELSE {p \in {req.nightPois[Min(StrollChoices(stay, from))]} :
             StrollTime(p, from) >= MinEveningVisit}

LunchBeforeEvening == ~lunchDone /\ clock \in EarlyLunchStart .. LateLunchLimit

\* Mutant: dinner is put at its hour even when the group arrives later.
DinnerStartOnTheHour(now) == DinnerTime

DinnerStart(now) == Later(now, DinnerTime)

LunchAt    == Later(clock, LunchWindowStart)
AfterLunch == IF LunchBeforeEvening THEN LunchAt + LunchWithRest ELSE clock
DinnerAt   == DinnerStart(AfterLunch)
StrollFrom == IF dinnerDone THEN clock ELSE DinnerAt + Dinner

\* The blocks of an evening away from home.
EveningAway(stay, strolls) ==
    LET p   == CHOOSE x \in strolls : TRUE
        end == IF strolls = {} THEN StrollFrom ELSE StrollFrom + StrollTime(p, StrollFrom)
    IN  When(LunchBeforeEvening, Block("lunch", LunchAt, LunchTime, stay))
        \o When(LunchBeforeEvening /\ req.middayRest,
                Block("rest", LunchAt + LunchTime, MiddayRestTime, stay))
        \o When(~dinnerDone /\ DinnerTime - AfterLunch >= FreeTimeThreshold,
                Block("rest", AfterLunch, DinnerTime - AfterLunch, stay))
        \o When(~dinnerDone, Block("dinner", DinnerAt, Dinner, stay))
        \o When(strolls # {}, Block("stroll", StrollFrom, end - StrollFrom, p))
        \o <<Block("lodging", Later(end, Bedtime), 0, stay)>>

\* The end of a day and, unless it was the last, the start of the next.
Night ==
    /\ phase = "night"
    /\ LET away    == ~IsLastDay /\ city # OriginCity
           strolls == IF away THEN Strolls(city, StrollFrom) ELSE {}
       IN  /\ plan' = Append(plan, [blocks |-> blocks \o (IF away THEN EveningAway(city, strolls) ELSE <<>>),
                                    base |-> city, driving |-> driving, seen |-> seen])
           /\ visited' = visited \cup strolls
           /\ pending' = {i \in pending : route[i] \notin strolls}
    /\ lastNight' = IF IsLastDay THEN lastNight ELSE city
    /\ checkedIn' = IF IsLastDay THEN checkedIn ELSE checkedIn \cup {city}
    /\ seen' = {} /\ driving' = 0 /\ continuous' = 0
    /\ lunchDone' = FALSE /\ dinnerDone' = FALSE
    /\ IF IsLastDay
       THEN /\ phase' = "done"
            /\ blocks' = <<>> /\ clock' = 0
            /\ UNCHANGED day
       ELSE /\ phase' = "visits"
            /\ day' = day + 1
            /\ blocks' = <<Block("breakfast", req.dayStart, Breakfast, city)>>
            /\ clock' = req.dayStart + Breakfast
    /\ UNCHANGED <<input, place, city>>

Init ==
    /\ req \in Requests /\ route \in Routes
    /\ phase = "visits" /\ day = 1
    /\ pending = DOMAIN route
    /\ visited = {} /\ seen = {}
    /\ clock = req.firstDayStart
    /\ driving = 0 /\ continuous = 0
    /\ lunchDone = FALSE /\ dinnerDone = FALSE
    /\ place = OriginCity /\ city = OriginCity
    /\ lastNight = OriginCity /\ checkedIn = {}
    /\ blocks = <<>> /\ plan = <<>>

Next == VisitNext \/ EndVisits \/ Transfer \/ Night

Spec == Init /\ [][Next]_vars

-----------------------------------------------------------------------------
(* Properties.                                                             *)

\* Every variable keeps its type, and the plan has one entry per day behind.
TypeOK ==
    /\ req \in Requests /\ route \in Routes
    /\ phase \in {"visits", "transfer", "night", "done"}
    /\ day \in 1 .. req.days
    /\ pending \subseteq DOMAIN route
    /\ visited \subseteq Pois /\ seen \subseteq Pois
    /\ clock \in Nat /\ driving \in Nat /\ continuous \in Nat
    /\ lunchDone \in BOOLEAN /\ dinnerDone \in BOOLEAN
    /\ place \in Places /\ city \in Cities
    /\ lastNight \in Cities /\ checkedIn \subseteq Cities
    /\ Len(plan) = IF phase = "done" THEN day ELSE day - 1

\* The blocks of every day so far, today's last.
DayBlocks == {plan[d].blocks : d \in DOMAIN plan} \cup {blocks}
Sights(bs) == {i \in DOMAIN bs : bs[i].kind \in {"visit", "stroll"}}

(* A day can be lived as it is written: no block starts before the one     *)
(* above it has ended, and so the final sorting by hour moves nothing.     *)
BlocksFollowEachOther ==
    \A bs \in DayBlocks : \A i \in 1 .. Len(bs) - 1 :
        bs[i].start + bs[i].length <= bs[i + 1].start

(* Nothing is dropped silently: a place of the route is visited or still   *)
(* in the queue, and never both.                                           *)
NothingLost == \A i \in DOMAIN route : i \in pending <=> route[i] \notin visited

\* The days as they are written, today's last, and where a place is seen in them.
Diary == Append([d \in DOMAIN plan |-> plan[d].blocks], blocks)
Sightings(p) ==
    UNION {{<<d, i>> : i \in {j \in Sights(Diary[d]) : Diary[d][j].what = p}} : d \in DOMAIN Diary}

(* Nothing is seen twice: every visited place has one block in the trip.   *)
SeenOnce == \A p \in visited : \E s \in Sightings(p) : Sightings(p) = {s}

(* Nobody stands at a closed door, and no visit passes the end of the day. *)
VisitsInsideHours ==
    \A bs \in DayBlocks : \A i \in Sights(bs) :
        LET p == bs[i].what IN
            /\ bs[i].start >= Opens[p]
            /\ bs[i].start + bs[i].length <= Earlier(Closes[p], req.dayEnd)

(* One lunch and one dinner a day at most, each at an hour for it.         *)
MealsOnceInTime ==
    \A bs \in DayBlocks :
        /\ \A i, j \in DOMAIN bs :
              bs[i].kind = bs[j].kind /\ bs[i].kind \in {"lunch", "dinner"} => i = j
        /\ \A i \in DOMAIN bs :
              /\ bs[i].kind = "lunch" => bs[i].start \in EarlyLunchStart .. LateLunchLimit
              /\ bs[i].kind = "dinner" => bs[i].start >= DinnerTime

(* Nobody sits at the wheel for more than two hours without a stop: a long *)
(* leg has its stops inside, and two legs never follow each other.         *)
DrivesAreRested ==
    \A bs \in DayBlocks : \A i \in DOMAIN bs : bs[i].kind = "drive" =>
        /\ bs[i].length - RestStop * bs[i].rests
              <= ContinuousDriveLimit * (bs[i].rests + 1)
        /\ i < Len(bs) => bs[i + 1].kind # "drive"

(* A day with visits keeps to the cap of driving, its way on to the city   *)
(* of the night included: what was counted before each visit is what is    *)
(* driven after the last one.                                              *)
CapOnSightseeing ==
    \A d \in DOMAIN plan : plan[d].seen # {} => plan[d].driving <= req.cap

(* So does every day before the last, visits or not: a day spent getting   *)
(* nearer stops in a city within what is left of the cap.                  *)
CapBeforeLastDay ==
    \A d \in DOMAIN plan : d < req.days => plan[d].driving <= req.cap

(* With the evening programme off nothing is visited after dinner.         *)
QuietEvenings ==
    ~req.evening =>
        \A bs \in DayBlocks : \A i \in DOMAIN bs, j \in Sights(bs) :
            bs[i].kind = "dinner" => j < i

(* What the scheduler lays down for a group that has to live the days: no  *)
(* sight twice, meals in time, rests at the wheel, the cap, and evenings   *)
(* off where they are wished.                                              *)
DaysAreBearable == SeenOnce /\ MealsOnceInTime /\ DrivesAreRested /\ CapBeforeLastDay /\ QuietEvenings

(* A round trip ends at home, a trip with a destination ends there, and    *)
(* the group wakes up in the city it went to bed in.                       *)
EndsWherePromised ==
    /\ phase = "done" =>
          /\ req.returns => city = OriginCity
          /\ ~req.returns /\ req.destination # NoCity => city = req.destination
    /\ phase = "visits" /\ seen = {} /\ plan # <<>> => city = plan[Len(plan)].base
=============================================================================
