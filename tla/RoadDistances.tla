--------------------------- MODULE RoadDistances ---------------------------
(***************************************************************************)
(* Where the minutes of a plan come from: a request for a plan warms a     *)
(* matrix of measured roads once (OsrmRoadDistanceProvider.cs), and the    *)
(* planner then asks, pair by pair, through a cache shared by all requests *)
(* (CachingRoadDistanceProvider.cs); a pair nobody measured is estimated   *)
(* from the straight line (TravelPlanner.cs). Which object is behind the   *)
(* two interfaces is decided where the services are registered             *)
(* (LeaderTrip.Infrastructure/DependencyInjection.cs).                     *)
(*                                                                         *)
(* A measurement is as long as the road, so only which pairs are measured  *)
(* is kept.                                                                *)
(***************************************************************************)
EXTENDS Naturals, FiniteSets, FiniteSetsExt

CONSTANTS Requests,         \* requests for a plan, one at a time each
          Points,           \* origins, destinations and attractions
          MaxMatrixPoints,  \* points the routing service takes at once, two at least
          Instances,        \* providers there is room for, two to a request
          None              \* no provider

VARIABLES
    phase,      \* [Requests -> "idle", "warming" or "planning"]
    warmup,     \* [Requests -> the instance it knows as IRoadNetworkWarmup]
    inner,      \* [Requests -> the instance inside its CachingRoadDistanceProvider]
    matrix,     \* [Instances -> the pairs it has measured]
    cache,      \* the pairs of the shared memory cache
    sources     \* [Requests -> the pairs it was told, as [pair, source]]

vars == <<phase, warmup, inner, matrix, cache, sources>>

Pairs == {p \in Points \X Points : p[1] # p[2]}

Init ==
    /\ phase = [r \in Requests |-> "idle"]
    /\ warmup = [r \in Requests |-> None] /\ inner = [r \in Requests |-> None]
    /\ matrix = [i \in Instances |-> {}]
    /\ cache = {}
    /\ sources = [r \in Requests |-> {}]

Free == Instances \ ({warmup[r] : r \in Requests} \cup {inner[r] : r \in Requests})

\* AddHttpClient<OsrmRoadDistanceProvider> makes one for whoever asks; the
\* handler is given one as its warm-up and one inside its cache.
Resolve(r) ==
    /\ phase[r] = "idle"
    /\ \E first \in Free : \E second \in Free \ {first} :
          /\ warmup' = [warmup EXCEPT ![r] = first]
          /\ inner' = [inner EXCEPT ![r] = second]
    /\ phase' = [phase EXCEPT ![r] = "warming"]
    /\ UNCHANGED <<matrix, cache, sources>>

\* What the service may be asked: the first points, all pairs of them.
Askable == {ps \in SUBSET Points : Cardinality(ps) \in 2 .. MaxMatrixPoints}

\* WarmAsync answered: every pair but those the service found no road for.
Warm(r) ==
    /\ phase[r] = "warming"
    /\ \E ps \in Askable : \E unreachable \in SUBSET {p \in Pairs : {p[1], p[2]} \subseteq ps} :
          matrix' = [matrix EXCEPT ![warmup[r]] =
                        @ \cup ({p \in Pairs : {p[1], p[2]} \subseteq ps} \ unreachable)]
    /\ phase' = [phase EXCEPT ![r] = "planning"]
    /\ UNCHANGED <<warmup, inner, cache, sources>>

\* Switched off, fewer than two points, unreachable, late, refused or unreadable.
WarmFails(r) ==
    /\ phase[r] = "warming"
    /\ phase' = [phase EXCEPT ![r] = "planning"]
    /\ UNCHANGED <<warmup, inner, matrix, cache, sources>>

\* TryGet of the cache, then of the matrix below it.
TryGet(r, p) == p \in cache \/ p \in matrix[inner[r]]

\* Plan of the planner: a found pair is cached, a missing one is not.
Plan(r, p) ==
    /\ phase[r] = "planning"
    /\ cache' = IF TryGet(r, p) THEN cache \cup {p} ELSE cache
    /\ sources' = [sources EXCEPT ![r] = @ \cup
          {[pair |-> p, source |-> IF TryGet(r, p) THEN "Routed" ELSE "Estimated"]}]
    /\ UNCHANGED <<phase, warmup, inner, matrix>>

\* CacheHours are over, or memory is short.
Evict(p) ==
    /\ p \in cache
    /\ cache' = cache \ {p}
    /\ UNCHANGED <<phase, warmup, inner, matrix, sources>>

\* The answer is sent and the scope of the request ends.
Finish(r) ==
    /\ phase[r] = "planning"
    /\ phase' = [phase EXCEPT ![r] = "idle"]
    /\ matrix' = [matrix EXCEPT ![warmup[r]] = {}, ![inner[r]] = {}]
    /\ warmup' = [warmup EXCEPT ![r] = None] /\ inner' = [inner EXCEPT ![r] = None]
    /\ sources' = [sources EXCEPT ![r] = {}]
    /\ UNCHANGED cache

Next ==
    \/ \E r \in Requests :
          \/ Resolve(r) \/ Warm(r) \/ WarmFails(r) \/ Finish(r)
          \/ \E p \in Pairs : Plan(r, p)
    \/ \E p \in Pairs : Evict(p)

Spec == Init /\ [][Next]_vars

-----------------------------------------------------------------------------
(* The matrix that one fills is the one the other reads: whatever its      *)
(* warm-up has measured, a request is told as measured. (The remark of     *)
(* AddRouting in DependencyInjection.cs.)                                  *)
WarmedIsRead ==
    \A r \in Requests : \A s \in sources[r] :
        phase[r] = "planning" /\ s.pair \in matrix[warmup[r]] => s.source = "Routed"
=============================================================================
