---------------------------- MODULE BudgetLevers ----------------------------
(***************************************************************************)
(* How a trip gets cheaper (LeaderTrip.Application,                        *)
(* Trips/OptimizeBudget/OptimizeBudgetQuery.cs): no saving is estimated.   *)
(* The plan is made once as it is; every change worth trying is applied to *)
(* the query and the whole of GeneratePlan, validator included, runs       *)
(* again, its question for the weather included. What is refused or saves  *)
(* nothing is left out.                                                    *)
(***************************************************************************)
EXTENDS GeneratePlan

CONSTANTS
    BudgetQueries,      \* those asked for levers
    Skies               \* what the weather service may come to, one of them unknown

ASSUME BudgetAssumption == BudgetQueries \subseteq Queries

VARIABLES
    hunt,               \* "none", "baseline", "choose", "try", "offered" or "refused"
    trip,               \* the query of the user
    baseline,           \* its plan
    levers,             \* still to be tried
    offered,            \* with their savings
    cached              \* what the last run heard of the weather on the days of the trip

huntVars == <<hunt, trip, baseline, levers, offered, cached>>
optimizerVars == <<planVars, huntVars>>

-----------------------------------------------------------------------------
(* The levers.                                                             *)

CheaperStyle ==
    [s \in {"Luxury", "Comfort", "Balanced"} |->
        CASE s = "Luxury" -> "Comfort" [] s = "Comfort" -> "Balanced" [] OTHER -> "Budget"]

Lever(id, patch) == [id |-> id, patch |-> patch]
Offer(condition, lever) == IF condition THEN <<lever>> ELSE <<>>

\* Seven tenths, to the next 25 km; Math.Round takes halves to the even one.
SmallerRadius(r) ==
    LET up == (14 * r + 250) \div 500
    IN  25 * (IF (14 * r + 250) % 500 = 0 /\ up % 2 = 1 THEN up - 1 ELSE up)

\* The visits with a ticket, and of these the two dearest, earlier ones first.
Dearest(shown) ==
    LET paid  == {i \in DOMAIN shown.slots : shown.shares[i] > 0}
        ahead(i) == {k \in paid : \/ shown.shares[k] > shown.shares[i]
                                  \/ shown.shares[k] = shown.shares[i] /\ k < i}
    IN  {i \in paid : Cardinality(ahead(i)) < 2}

DearVisits(made) ==
    {p \in VisitedIn(made.days) : \E i \in Dearest(made.tickets) :
        p = made.days[made.tickets.slots[i][1]].blocks[made.tickets.slots[i][2]].what}

\* Candidates of the handler, in its order.
LeversOf(q, made) ==
       Offer(q.style \in DOMAIN CheaperStyle, Lever("style", [style |-> CheaperStyle[q.style]]))
    \o Offer(q.lodging # "Camp" /\ q.days > 1, Lever("camp", [lodging |-> "Camp"]))
    \o Offer(DearVisits(made) # {},
             Lever("dropPois", [excluded |-> q.excluded \cup DearVisits(made)]))
    \o Offer(q.radius > 100, Lever("radius", [radius |-> SmallerRadius(q.radius)]))
    \o Offer(q.days > 1, Lever("days", [days |-> q.days - 1]))
    \o Offer(q.fuelShare < 100, Lever("fuel", [fuelShare |-> 100]))
    \o Offer(q.vehicleCount > 1, Lever("vehicles", [vehicleCount |-> q.vehicleCount - 1]))

\* Mutant: the drop lever forgets what the user had taken out himself.
ApplyAlone(q, patch) ==
    [f \in DOMAIN q |-> CASE f \notin DOMAIN patch -> q[f]
                          [] f \in DOMAIN patch \cap {"excluded"} -> patch[f] \ q[f]
                          [] OTHER -> patch[f]]

Apply(q, patch) == [f \in DOMAIN q |-> IF f \in DOMAIN patch THEN patch[f] ELSE q[f]]

\* What a lever may change, whatever plan it is made from.
Patches(q) ==
    {[style |-> s] : s \in {"Comfort", "Balanced", "Budget"}}
    \cup {[excluded |-> q.excluded \cup D] : D \in SUBSET Pois}
    \cup {[days |-> n] : n \in {q.days - 1} \ {0}}
    \cup {[lodging |-> "Camp"], [radius |-> SmallerRadius(q.radius)],
          [fuelShare |-> 100], [vehicleCount |-> q.vehicleCount - 1]}

Under(q, sky) == [q EXCEPT !.outlook = sky]
Levered(q)    == {Under(Apply(q, patch), sky) : patch \in Patches(q), sky \in Skies}

\* The planner may be asked for every trip with one lever, in any weather.
ASSUME LeverAssumption ==
    /\ \A q \in BudgetQueries :
          /\ {"excluded", "pinned", "customs", "outlook"} \subseteq DOMAIN q
          /\ q.outlook \in Skies
    /\ UNION {{SelectionRequest(r) : r \in Levered(q)} : q \in BudgetQueries} \subseteq Wishes
    /\ UNION {{ScheduleRequest(r) : r \in Levered(q)} : q \in BudgetQueries} \subseteq Requests

-----------------------------------------------------------------------------
(* The handler.                                                            *)

Plan == PlanNext /\ UNCHANGED huntVars

\* The planner is called with another query.
Restart(q) ==
    /\ query' = q /\ step' = "asked"
    /\ wish' = SelectionRequest(q) /\ candidates' = Candidates(q)
    /\ stage' = "window" /\ lane' = 1
    /\ tour' = <<>> /\ totalVisit' = 0 /\ best' = <<>> /\ bestScore' = -1
    /\ kept' = NoOutcome /\ answer' = NoAnswer
    /\ req' = ScheduleRequest(q) /\ route' = <<>>
    /\ phase' = "done" /\ day' = 1 /\ pending' = {}
    /\ visited' = {} /\ seen' = {} /\ clock' = 0 /\ driving' = 0 /\ continuous' = 0
    /\ lunchDone' = FALSE /\ dinnerDone' = FALSE
    /\ place' = OriginCity /\ city' = OriginCity
    /\ lastNight' = OriginCity /\ checkedIn' = {}
    /\ blocks' = <<>> /\ plan' = <<>>

NoBaseline ==
    /\ hunt = "baseline" /\ step = "refused"
    /\ hunt' = "refused"
    /\ UNCHANGED <<planVars, trip, baseline, levers, offered, cached>>

TakeBaseline ==
    /\ hunt = "baseline" /\ step = "answered"
    /\ hunt' = "choose"
    /\ baseline' = [days |-> answer.days, total |-> answer.cost.total]
    /\ levers' = LeversOf(trip, answer)
    /\ UNCHANGED <<planVars, trip, offered, cached>>


\* An outlook is kept by its days for six hours, longer than any hunt; that
\* there was none is not kept, and the service is asked again.
Answers(q) == IF q.days = trip.days /\ cached.known THEN {cached} ELSE Skies

TryLever ==
    /\ hunt = "choose" /\ levers # <<>>
    /\ LET q == Apply(trip, Head(levers).patch) IN
          \E sky \in Answers(q) :
             /\ Restart(Under(q, sky))
             /\ cached' = IF q.days = trip.days THEN sky ELSE cached
    /\ hunt' = "try"
    /\ UNCHANGED <<trip, baseline, levers, offered>>

\* A refused lever and one that saves nothing are not shown.
Weigh ==
    /\ hunt = "try" /\ step \in {"answered", "refused"}
    /\ LET saving == IF step = "answered" THEN baseline.total - answer.cost.total ELSE 0 IN
          offered' = IF saving > 0
                     THEN Append(offered, [lever |-> Head(levers), saving |-> saving]) ELSE offered
    /\ levers' = Tail(levers)
    /\ hunt' = "choose"
    /\ UNCHANGED <<planVars, trip, baseline, cached>>

OfferLevers ==
    /\ hunt = "choose" /\ levers = <<>>
    /\ offered' = SortSeq(offered, LAMBDA x, y : x.saving > y.saving)
    /\ hunt' = "offered"
    /\ UNCHANGED <<planVars, trip, baseline, levers, cached>>

OptimizerInit ==
    /\ PlanInit
    /\ hunt = IF query \in BudgetQueries THEN "baseline" ELSE "none"
    /\ trip = query
    /\ baseline = [days |-> <<>>, total |-> 0] /\ levers = <<>> /\ offered = <<>>
    /\ cached = query.outlook

OptimizerNext ==
    \/ Plan \/ NoBaseline \/ TakeBaseline \/ TryLever \/ Weigh \/ OfferLevers

OptimizerSpec == OptimizerInit /\ [][OptimizerNext]_optimizerVars

-----------------------------------------------------------------------------
(* Properties.                                                             *)

\* The levers of which the text says that the way and its places stay.
MoneyAlone == {"camp", "fuel", "vehicles"}

\* Without the dearer night, fuel or car the days stay to the minute, and with
\* a plainer style as long as lunch does not get shorter; unless the plan had
\* to be made without an outlook and the lever was tried with one.
DaysAreKept ==
    /\ \/ Head(levers).id \in MoneyAlone
       \/ Head(levers).id = "style" /\ (trip.picnic \/ Head(levers).patch.style # "Budget")
    /\ trip.outlook.known \/ ~query.outlook.known
    => answer.days = baseline.days

ExcludedStayOut == VisitedIn(answer.days) \cap trip.excluded \subseteq Pinned(trip)

=============================================================================
