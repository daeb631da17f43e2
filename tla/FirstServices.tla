--------------------------- MODULE FirstServices ---------------------------
(***************************************************************************)
(* What the first generation of leaderTrip asks of the network while a     *)
(* plan is open: the weather of its nights, the roads and the heights of   *)
(* its points (src/App.tsx with src/services). A plan is made without them *)
(* first, its nights and points are asked for, and each answer makes the   *)
(* plan anew, which may move its nights and ask again. An answer may come  *)
(* late, with parts missing or not at all; each service keeps a cache in   *)
(* the storage of the device, which it reads when it asks and writes over  *)
(* when it is answered.                                                    *)
(***************************************************************************)
EXTENDS Integers, FiniteSets

CONSTANTS
    Nights,             \* pairs <<city, day>> a plan may sleep at
    Home,               \* the city of origin
    Wishes,             \* what the user may ask for
    Planners,           \* generatePlan: [Wishes -> [(SUBSET Nights) \X BOOLEAN -> SUBSET Nights]],
                        \* the nights of a plan with this weather, with measured roads or
                        \* without; no nights where it throws
    None,
    ForecastLife, ArchiveLife, RoadLife,        \* how long what is cached stays fresh
    Horizon,            \* FORECAST_HORIZON_DAYS
    MaxClicks, MaxNow   \* bounds on what the user does and on the days

ASSUME ServicesAssumption ==
    /\ {ForecastLife, ArchiveLife, RoadLife, Horizon, MaxClicks, MaxNow} \subseteq Nat
    /\ \A n \in Nights : n[2] \in Nat

VARIABLES
    planner,            \* which the user cannot change
    refuses,            \* whether the storage of the device takes no write
    now, clicks,
    wish, opened, weather, weatherStatus, routeMatrix, elevation,     \* state of App
    ranNights, ranPoints,                           \* what its two effects ran for last
    weatherAsks, roadAsks, heightAsks,              \* requests on their way
    weatherCache, roadMemory, roadCache, heightCache

app    == <<wish, opened, weather, weatherStatus, routeMatrix, elevation>>
ran    == <<ranNights, ranPoints>>
asks   == <<weatherAsks, roadAsks, heightAsks>>
roads  == <<roadMemory, roadCache>>
caches == <<weatherCache, roads, heightCache>>
given  == <<planner, refuses>>
servicesVars == <<given, now, clicks, app, ran, asks, caches>>

--------------------------------------------------------------------------
(* The plan of the state, and the keys of the two effects.                 *)

PlanNights == IF opened THEN planner[wish][<<weather, routeMatrix # None>>] ELSE {}
PlanOpen   == PlanNights # {}
RoutePoints(nights) == {Home} \cup {n[1] : n \in nights}
RouteKey   == IF PlanNights = {} \/ routeMatrix # None THEN {} ELSE RoutePoints(PlanNights)
Flushed    == ranNights = PlanNights /\ ranPoints = RouteKey

--------------------------------------------------------------------------
(* services/weather.ts                                                     *)

IsFresh(e) == now - e.at < (IF e.source = "forecast" THEN ForecastLife ELSE ArchiveLife)

\* fetchForCity: one request for all the days a city misses, of the forecast
\* if it reaches them all, of the archive of last year otherwise.
SourceOf(n, missing) ==
    IF \A m \in missing : m[1] = n[1] => m[2] - now \in -1 .. Horizon THEN "forecast" ELSE "archive"

FetchWeather(nights) ==
    LET hits == {n \in nights \cap DOMAIN weatherCache : IsFresh(weatherCache[n])}
        missing == nights \ hits
    IN  [for |-> nights, hits |-> hits, live |-> TRUE, seen |-> weatherCache,
         missing |-> [n \in missing |-> [at |-> now, source |-> SourceOf(n, missing)]]]

\* Mutant: the answer takes the place of what is known.
MergeReplaces(data) == data
\* A state that has no new key is left as it is.
Merge(data) == weather \cup data

\* Any city may fail, and any day may come without its temperatures.
AnswerWeather(r) ==
    \E got \in SUBSET DOMAIN r.missing :
        LET data == r.hits \cup got
            cache == [n \in DOMAIN r.seen \cup got |-> IF n \in got THEN r.missing[n] ELSE r.seen[n]]
        IN  /\ weatherAsks' = weatherAsks \ {r}
            /\ weatherCache' = IF DOMAIN r.missing = {} \/ refuses THEN weatherCache ELSE cache
            /\ IF r.live THEN /\ weather' = Merge(data)
                              /\ weatherStatus' = IF data = {} THEN "unavailable" ELSE "ok"
               ELSE UNCHANGED <<weather, weatherStatus>>
            /\ UNCHANGED <<given, now, clicks, wish, opened, routeMatrix, elevation, ran,
                           roadAsks, heightAsks, roads, heightCache>>

--------------------------------------------------------------------------
(* services/routing.ts                                                     *)

Pairs(points) == {p \in points \X points : p[1] # p[2]}
ReadRoads == roadMemory \cup IF now - roadCache.at > RoadLife THEN {} ELSE roadCache.legs

FetchRouteMatrix(points) == [for |-> points, seen |-> ReadRoads, live |-> TRUE]

\* No network, a bad answer, or one with the legs of a place missing.
AnswerRoads(r) ==
    LET wanted == Pairs(r.for)
        Took(legs) == routeMatrix' = IF r.live THEN legs ELSE routeMatrix
    IN  /\ roadAsks' = roadAsks \ {r}
        /\ \/ r.for = {Home} /\ UNCHANGED <<routeMatrix, roads>>
           \/ r.for # {Home} /\ wanted \subseteq r.seen /\ Took(r.seen) /\ UNCHANGED roads
           \/ ~(wanted \subseteq r.seen) /\ UNCHANGED <<routeMatrix, roads>>
           \/ /\ ~(wanted \subseteq r.seen)
              /\ \E lost \in {{}, r.for \ {Home}} :
                     LET legs == r.seen \cup Pairs(r.for \ lost)
                     IN  /\ roadMemory' = roadMemory \cup legs
                         /\ roadCache' = IF refuses THEN roadCache ELSE [legs |-> legs, at |-> now]
                         /\ Took(legs)
        /\ UNCHANGED <<given, now, clicks, wish, opened, weather, weatherStatus, elevation, ran,
                       weatherAsks, heightAsks, weatherCache, heightCache>>

--------------------------------------------------------------------------
(* services/elevation.ts                                                   *)

FetchElevation(points) == [for |-> points, seen |-> heightCache, live |-> TRUE]

\* A request that fails falls back on what was cached, if there is anything;
\* here the heights come whole or not at all.
AnswerHeights(r) ==
    LET missing == r.for \ r.seen
        Took(known) == elevation' = IF r.live /\ known # {} THEN known ELSE elevation
    IN  /\ heightAsks' = heightAsks \ {r}
        /\ \/ Took(r.seen) /\ UNCHANGED heightCache
           \/ /\ missing # {}
              /\ Took(r.seen \cup missing)
              /\ heightCache' = IF refuses THEN heightCache ELSE r.seen \cup missing
        /\ UNCHANGED <<given, now, clicks, wish, opened, weather, weatherStatus, routeMatrix, ran,
                       weatherAsks, roadAsks, weatherCache, roads>>

--------------------------------------------------------------------------
(* App.tsx: the two effects, run after a render whose keys are new. The    *)
(* cleanup of the last run cancels its requests, which only means that     *)
(* their answers no longer reach the state of the page.                    *)

\* Mutant: a run of the effect does not clean up after the one before.
NotCancelled(requests) == requests

Cancelled(requests) == {[r EXCEPT !.live = FALSE] : r \in requests}

WeatherEffect ==
    IF ranNights = PlanNights THEN UNCHANGED <<weatherAsks, weatherStatus>>
    ELSE IF PlanNights = {} THEN weatherAsks' = Cancelled(weatherAsks) /\ UNCHANGED weatherStatus
    ELSE /\ weatherAsks' = Cancelled(weatherAsks) \cup {FetchWeather(PlanNights)}
         /\ weatherStatus' = "loading"

RoadEffect ==
    IF ranPoints = RouteKey THEN UNCHANGED <<roadAsks, heightAsks>>
    ELSE /\ roadAsks' = Cancelled(roadAsks) \cup
                        (IF RouteKey = {} THEN {} ELSE {FetchRouteMatrix(RouteKey)})
         /\ heightAsks' = Cancelled(heightAsks) \cup
                        (IF RouteKey = {} THEN {} ELSE {FetchElevation(RouteKey)})

RunEffects ==
    /\ ~Flushed
    /\ WeatherEffect /\ RoadEffect
    /\ ranNights' = PlanNights /\ ranPoints' = RouteKey
    /\ UNCHANGED <<given, now, clicks, wish, opened, weather, routeMatrix, elevation, caches>>

--------------------------------------------------------------------------
(* The user, whose clicks come after the effects of the last render.       *)

Click == clicks < MaxClicks /\ clicks' = clicks + 1 /\ Flushed

EditWish(w) ==
    /\ Click /\ w # wish
    /\ wish' = w
    /\ UNCHANGED <<given, now, opened, weather, weatherStatus, routeMatrix, elevation, ran, asks, caches>>

SetOpened(open) ==
    /\ Click /\ open # opened
    /\ opened' = open
    /\ UNCHANGED <<given, now, wish, weather, weatherStatus, routeMatrix, elevation, ran, asks, caches>>

\* A page begins with the caches of the device and nothing on its way, on the
\* same day or a later one; a page is not left open over midnight here.
ReloadPage ==
    /\ Click /\ now' \in now .. MaxNow
    /\ weather' = {} /\ weatherStatus' = "idle" /\ routeMatrix' = None /\ elevation' = None
    /\ ranNights' = {} /\ ranPoints' = {}
    /\ weatherAsks' = {} /\ roadAsks' = {} /\ heightAsks' = {} /\ roadMemory' = {}
    /\ UNCHANGED <<given, wish, opened, weatherCache, roadCache, heightCache>>

ServicesInit ==
    /\ planner \in Planners /\ refuses \in BOOLEAN
    /\ now = 0 /\ clicks = 0
    /\ wish \in Wishes /\ opened \in BOOLEAN
    /\ weather = {} /\ weatherStatus = "idle" /\ routeMatrix = None /\ elevation = None
    /\ ranNights = {} /\ ranPoints = {}
    /\ weatherAsks = {} /\ roadAsks = {} /\ heightAsks = {}
    /\ weatherCache = <<>> /\ roadMemory = {} /\ roadCache = [legs |-> {}, at |-> 0] /\ heightCache = {}

AnyAnswer ==
    \/ \E r \in weatherAsks : AnswerWeather(r)
    \/ \E r \in roadAsks : AnswerRoads(r)
    \/ \E r \in heightAsks : AnswerHeights(r)

ServicesNext ==
    \/ RunEffects \/ AnyAnswer
    \/ (\E w \in Wishes : EditWish(w)) \/ (\E open \in BOOLEAN : SetOpened(open)) \/ ReloadPage

ServicesSpec == ServicesInit /\ [][ServicesNext]_servicesVars
\* React runs its effects, and every request is ended: by its answer, by the
\* time limit of the page, or by the browser.
FairSpec == ServicesSpec /\ WF_servicesVars(RunEffects) /\ WF_servicesVars(AnyAnswer)

--------------------------------------------------------------------------
(* Properties.                                                             *)

\* Once the effects of a plan have run, it says that it waits for the weather
\* exactly while a request for its own nights is on its way, and every answer
\* the page still takes is to what the plan on the screen asks: no answer to a
\* trip that was edited or closed in the meantime reaches another (App.tsx,
\* the cancelled flags of the two effects).
AnswersAreForThePlan ==
    LET live(requests) == {r \in requests : r.live}
    IN  Flushed =>
          /\ PlanOpen => (weatherStatus = "loading" <=> live(weatherAsks) # {})
          /\ \A r \in live(weatherAsks) : r.for = PlanNights
          /\ \A r \in live(roadAsks) : r.for = RouteKey
          /\ \A r \in live(heightAsks) : r.for = RouteKey
          /\ Cardinality(live(weatherAsks)) <= 1 /\ Cardinality(live(roadAsks)) <= 1

\* The plan and the services come to rest however the weather moves the plan
\* (App.tsx:99): answers are added to what is known, never taken away, so a
\* plan that sleeps in one town when the other is dry cannot go round forever.
WeatherSettles ==
    <>[](/\ Flushed
         /\ PlanOpen => weatherStatus \in {"ok", "unavailable"}
         /\ weatherAsks = {} /\ roadAsks = {} /\ heightAsks = {})
=============================================================================
