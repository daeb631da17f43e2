----------------------------- MODULE Itinerary -----------------------------
(***************************************************************************)
(* The selector of the planning service (LeaderTrip.Domain, Planning/      *)
(* ItinerarySelector.cs): which places a trip visits and in what order.    *)
(* The pinned ones go in first; then, again and again, the place that      *)
(* brings the most score for the minutes it adds, where it adds the least, *)
(* as long as the driving and the time of the whole trip allow. A short    *)
(* loop tries this for every direction around home and keeps the best.     *)
(* At last the order is untangled and turned. Times are minutes.           *)
(***************************************************************************)
EXTENDS TripMap, SequencesExt, FiniteSetsExt

CONSTANTS
    NearHome,           \* places within 60 km of home
    Sector,             \* [short -> the places in each direction from home]
    Wishes,             \* what the user may wish of the selection
    Offers              \* the candidates it may be given, in order

\* A trip of this many days at most has one direction.
OneDirection == 4
PinnedHeadroom == 85    \* percent of the driving left for it when there are pins

VARIABLES
    wish,        \* SelectionRequest
    candidates,
    stage,       \* "window", "pins", "insert", "improve" or "selected"
    lane,        \* the direction being tried
    tour, totalVisit,
    best, bestScore   \* over the directions tried; -1 before the first

selectVars == <<wish, candidates, stage, lane, tour, totalVisit, best, bestScore>>

-----------------------------------------------------------------------------
(* What a route takes.                                                     *)

\* RouteDrivingTime: from home through the route to the destination and back.
RouteMinutes(destination, returns, r) ==
    LET stops == <<OriginCity>> \o r
                 \o (IF destination = NoCity THEN <<>> ELSE <<destination>>)
                 \o (IF returns THEN <<OriginCity>> ELSE <<>>)
    IN  FoldLeft(LAMBDA t, i : t + Drive[stops[i]][stops[i + 1]], 0,
                 [i \in 1 .. Len(stops) - 1 |-> i])

DrivingTime(r) == RouteMinutes(wish.destination, wish.returns, r)

ScoreSum(score, r) == FoldLeft(LAMBDA s, p : s + score[p], 0, r)
ScoreOf(r) == ScoreSum(wish.score, r)

Tours == {t \in BoundedSeq(Pois, Cardinality(Pois)) :
             \A i, j \in DOMAIN t : t[i] = t[j] => i = j}

ASSUME SelectorAssumption ==
    /\ IsFiniteSet(Pois)
    /\ NearHome \subseteq Pois
    /\ Sector \in [BOOLEAN -> Seq(SUBSET Pois)]
    /\ \A short \in BOOLEAN : Sector[short] # <<>>
    /\ Wishes \subseteq [destination : Cities \cup {NoCity}, returns : BOOLEAN, days : Nat,
                         cap : Nat, usable : Int, pinned : SUBSET Pois,
                         score : [Pois -> Nat]]   \* PoiScore of PlaceRules
    /\ Offers \subseteq {c \in Seq(Pois) : \A i, j \in DOMAIN c : c[i] = c[j] => i = j}

\* driveBudget, in hundredths of a minute.
DriveBudget ==
    wish.cap * wish.days * (IF wish.pinned # {} THEN PinnedHeadroom ELSE 100)

\* timeBudget, in tenths of a minute; a day of the request is in tenths too.
TimeBudget == wish.usable * wish.days

-----------------------------------------------------------------------------
(* SelectBestSector: the directions of a short loop.                       *)

UseSectors == wish.destination = NoCity /\ wish.days <= OneDirection
Directions == Sector[wish.days <= 2]

\* Mutant: pinned places are looked for in their own direction alone.
InWindowByDirection(p) == p \in NearHome \/ p \in Directions[lane]

InWindow(p) == p \in wish.pinned \/ p \in NearHome \/ p \in Directions[lane]

\* The places to choose from, as positions among the candidates.
Pool == {c \in DOMAIN candidates : UseSectors => InWindow(candidates[c])}

\* Whether the route found in this direction is the best so far.
Wins ==
    \/ ScoreOf(tour) > bestScore
    \/ ScoreOf(tour) = bestScore /\ DrivingTime(tour) < DrivingTime(best)

SkipWindow ==
    /\ stage = "window"
    /\ UseSectors /\ lane \in DOMAIN Directions /\ Pool = {}
    /\ lane' = lane + 1
    /\ UNCHANGED <<wish, candidates, stage, tour, totalVisit, best, bestScore>>

WindowsDone ==
    /\ stage = "window"
    /\ UseSectors /\ lane \notin DOMAIN Directions
    /\ tour' = best
    /\ stage' = "improve"
    /\ UNCHANGED <<wish, candidates, lane, totalVisit, best, bestScore>>

-----------------------------------------------------------------------------
(* SelectCore: greedy insertion into one pool.                             *)

OpenWindow ==
    /\ stage = "window"
    /\ UseSectors => lane \in DOMAIN Directions /\ Pool # {}
    /\ stage' = "pins" /\ tour' = <<>> /\ totalVisit' = 0
    /\ UNCHANGED <<wish, candidates, lane, best, bestScore>>

\* The pinned places the route has not got yet.
PinsLeft == {c \in Pool : candidates[c] \in wish.pinned /\ candidates[c] \notin Range(tour)}

\* They go in whatever they take, in the order of the candidates.
TakePin ==
    /\ stage = "pins"
    /\ \E c \in PinsLeft :
          /\ \A d \in PinsLeft : c <= d
          /\ tour' = Append(tour, candidates[c])
          /\ totalVisit' = totalVisit + VisitTime[candidates[c]]
    /\ UNCHANGED <<wish, candidates, stage, lane, best, bestScore>>

PinsTaken ==
    /\ stage = "pins" /\ PinsLeft = {}
    /\ stage' = "insert"
    /\ UNCHANGED <<wish, candidates, lane, tour, totalVisit, best, bestScore>>

Inserted(r, i, p) ==
    [k \in 1 .. Len(r) + 1 |-> IF k < i THEN r[k] ELSE IF k = i THEN p ELSE r[k - 1]]

Positions == 1 .. Len(tour) + 1
With(c, i) == Inserted(tour, i, candidates[c])

\* Mutant: the visit is weighed and the way to it is not.
CanGoByVisit(c, i) ==
    /\ candidates[c] \notin Range(tour)
    /\ DrivingTime(tour) * 100 <= DriveBudget
    /\ (totalVisit + VisitTime[candidates[c]] + DrivingTime(tour)) * 10 <= TimeBudget

\* Candidate c of the pool is still to be had and fits at position i.
CanGo(c, i) ==
    /\ candidates[c] \notin Range(tour)
    /\ DrivingTime(With(c, i)) * 100 <= DriveBudget
    /\ (totalVisit + VisitTime[candidates[c]] + DrivingTime(With(c, i))) * 10 <= TimeBudget

\* The minutes an insertion adds; a ratio counts one at least.
Added(c, i) ==
    LET minutes == DrivingTime(With(c, i)) - DrivingTime(tour) + VisitTime[candidates[c]]
    IN  IF minutes > 1 THEN minutes ELSE 1

Before(c, i, d, j) == c < d \/ (c = d /\ i <= j)

\* The better ratio of score to minutes, the first of equals.
Beats(c, i, d, j) ==
    LET mine == wish.score[candidates[c]] * Added(d, j)
        its  == wish.score[candidates[d]] * Added(c, i)
    IN  mine > its \/ (mine = its /\ Before(c, i, d, j))

Insert ==
    /\ stage = "insert"
    /\ \E c \in Pool, i \in Positions :
          /\ CanGo(c, i)
          /\ \A d \in Pool, j \in Positions : CanGo(d, j) => Beats(c, i, d, j)
          /\ tour' = With(c, i)
          /\ totalVisit' = totalVisit + VisitTime[candidates[c]]
    /\ UNCHANGED <<wish, candidates, stage, lane, best, bestScore>>

\* Nothing more fits: the end, or the next direction.
Full ==
    /\ stage = "insert"
    /\ \A c \in Pool, i \in Positions : ~CanGo(c, i)
    /\ IF UseSectors
       THEN /\ stage' = "window" /\ lane' = lane + 1
            /\ IF Wins THEN best' = tour /\ bestScore' = ScoreOf(tour)
               ELSE UNCHANGED <<best, bestScore>>
       ELSE stage' = "improve" /\ UNCHANGED <<lane, best, bestScore>>
    /\ UNCHANGED <<wish, candidates, tour, totalVisit>>

-----------------------------------------------------------------------------
(* Improve and Orient.                                                     *)

Turned(r, i, j) == [k \in DOMAIN r |-> IF k \in i .. j THEN r[i + j - k] ELSE r[k]]

\* The part from i to j of the route is better driven the other way round.
Tangled(i, j) ==
    /\ i < j /\ Len(tour) >= 4
    /\ DrivingTime(Turned(tour, i, j)) < DrivingTime(tour) - 1

\* 2-opt: the first tangle is undone and the search starts again.
Improve ==
    /\ stage = "improve"
    /\ \E i, j \in DOMAIN tour :
          /\ Tangled(i, j)
          /\ \A k, l \in DOMAIN tour : Tangled(k, l) => Before(i, j, k, l)
          /\ tour' = Turned(tour, i, j)
    /\ UNCHANGED <<wish, candidates, stage, lane, totalVisit, best, bestScore>>

\* A loop without pins starts with the stop nearer to home.
Orient ==
    /\ stage = "improve"
    /\ \A i, j \in DOMAIN tour : ~Tangled(i, j)
    /\ stage' = "selected"
    /\ tour' = IF /\ Len(tour) >= 2
                  /\ wish.destination = NoCity /\ wish.returns /\ wish.pinned = {}
                  /\ Gap[OriginCity][tour[1]] > Gap[OriginCity][tour[Len(tour)]]
               THEN Turned(tour, 1, Len(tour)) ELSE tour
    /\ UNCHANGED <<wish, candidates, lane, totalVisit, best, bestScore>>

\* A selection begins for this wish and these candidates.
SelectStart ==
    /\ stage = "window" /\ lane = 1
    /\ tour = <<>> /\ totalVisit = 0
    /\ best = <<>> /\ bestScore = -1

SelectInit == wish \in Wishes /\ candidates \in Offers /\ SelectStart

SelectNext ==
    \/ SkipWindow \/ WindowsDone \/ OpenWindow \/ TakePin \/ PinsTaken
    \/ Insert \/ Full \/ Improve \/ Orient

SelectSpec == SelectInit /\ [][SelectNext]_selectVars

-----------------------------------------------------------------------------
(* Properties.                                                             *)

(* A route visits candidates only, each once, and holds every pinned one   *)
(* of the pool it was chosen from: no direction, no budget and no turn of  *)
(* the route ever loses a pin.                                             *)
RouteSound ==
    /\ \A i, j \in DOMAIN tour : tour[i] = tour[j] => i = j
    /\ Range(tour) \subseteq Range(candidates)
    /\ stage \notin {"window", "pins"} => Range(candidates) \cap wish.pinned \subseteq Range(tour)

(* Whatever was added to the pinned places, the driving of the whole trip  *)
(* stays within its budget through all the untangling, and the visits with *)
(* it within the hours of the days. (Turning the route at the end is left  *)
(* out: a road may take longer the other way round.)                       *)
BudgetKept ==
    stage \in {"insert", "improve"} /\ ~(Range(tour) \subseteq wish.pinned) =>
        /\ DrivingTime(tour) * 100 <= DriveBudget
        /\ stage = "insert" => (totalVisit + DrivingTime(tour)) * 10 <= TimeBudget

(* The route is what was asked for: every pin, nobody else's places, and   *)
(* no more than fits the days.                                             *)
RouteAsAsked == RouteSound /\ BudgetKept
=============================================================================
