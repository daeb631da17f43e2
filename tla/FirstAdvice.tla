---------------------------- MODULE FirstAdvice -----------------------------
(***************************************************************************)
(* What the first generation of leaderTrip says of a finished plan: the    *)
(* warnings (src/engine/advisor.ts) and the packing list (packing.ts). A   *)
(* warning is a level, its subject and the day, 0 for the whole trip; what *)
(* it is worded like is left out. Whether a city or a place lies high is   *)
(* known when the elevations are (services/elevation.ts).                  *)
(***************************************************************************)
EXTENDS FirstBill

CONSTANT High           \* the points above 2200 metres

Warn(level, about, day) == [level |-> level, about |-> about, day |-> day, of |-> {}]
WarnOf(about, places)   == [level |-> "warn", about |-> about, day |-> 0, of |-> places]
If(condition, warnings) == IF condition THEN warnings ELSE {}

WeakGroup(group) == HasChild(group) \/ HasSenior(group) \/ HasToddler(group)
Cold(trip) == trip.season \in {"winter", "nowruz"}

\* dayWarnings: the day's driving, effort, length, weather, height and comfort.
DayWarnings(trip, day, d) ==
    LET outdoor == SelectSeq(day.pois, LAMBDA p : ~Poi[p].indoor)
        hard    == SelectSeq(day.pois, LAMBDA p : Poi[p].difficulty >= 2)
        active  == {day.blocks[i] : i \in {j \in DOMAIN day.blocks : day.blocks[j].kind # "lodging"}}
    IN  (IF day.driven > 420 THEN {Warn("danger", "driving", d)}
         ELSE If(day.driven > 300 /\ Drivers(trip.group) < 2, {Warn("danger", "one_driver", d)}))
        \cup If(Len(hard) >= 2 /\ WeakGroup(trip.group), {Warn("warn", "effort", d)})
        \cup If(day.pois = <<>>, {Warn("info", "transfer", d)})
        \cup If(\E b \in active : b.at + b.minutes > 1320, {Warn("info", "long_day", d)})
        \cup If(day.weather = "snow", {Warn("danger", "snow", d)})
        \cup If(day.weather = "rain",
                {Warn(IF Len(outdoor) >= 2 THEN "warn" ELSE "info", "rain", d)})
        \cup If(day.weather = "heat", {Warn("warn", "heat", d)})
        \cup If(day.weather \in {"frost", "snow"}, {Warn("warn", "frost", d)})
        \cup If(day.weather = "storm", {Warn("warn", "wind", d)})
        \cup If(trip.heights /\ (ToSet(day.pois) \cup {day.from.stay}) \cap High # {},
                {Warn(IF Cold(trip) THEN "warn" ELSE "info", "height", d)})
        \cup If(City[day.from.stay].amenities = 1, {Warn("info", "few_comforts", d)})

\* climateTips, of the climates of the nights.
ClimateTips(trip, days) ==
    LET climates == {City[days[i].from.stay].climate : i \in DOMAIN days}
    IN  If("desert" \in climates, {Warn("info", "desert", 0)})
        \cup If("caspian" \in climates /\ trip.season = "summer", {Warn("info", "mosquitoes", 0)})
        \cup If("gulf" \in climates /\ trip.season = "summer", {Warn("warn", "gulf_heat", 0)})
        \cup If("mountain" \in climates /\ Cold(trip), {Warn("warn", "chains", 0)})

\* What keeps a place of the region off the list; too far is not counted.
RejectedFor(trip, reasons) ==
    Cardinality({p \in Places : ~Kept(p, trip, Vehicle) /\ RejectReason(p, trip, Vehicle) \in reasons})

\* Mutant: a wish there was no room for goes without a word.
TripWarningsSilent(trip, days, bill, seen, dropped) ==
    {WarnOf("conflict", {p}) : p \in PinnedConflicts(trip, Vehicle)} \cup ClimateTips(trip, days)

\* unscheduledPinned; the warning of it finds names in the catalogue alone.
Missed(trip, seen)   == (trip.pinned \cap Places) \ seen
NamesOf(places)      == {p \in places : ~Poi[p].custom}

\* tripWarnings.
TripWarnings(trip, days, bill, seen, dropped) ==
    If(Drivers(trip.group) = 0, {Warn("danger", "no_driver", 0)})
    \cup {WarnOf("conflict", {p}) : p \in PinnedConflicts(trip, Vehicle)}
    \cup If(Missed(trip, seen) # {}, {WarnOf("no_room", NamesOf(Missed(trip, seen)))})
    \cup (IF bill.overBudget > 0 THEN {Warn("warn", "over_budget", 0)}
          ELSE If(trip.budget > 0 /\ 10 * bill.total < 6 * trip.budget, {Warn("info", "under_budget", 0)}))
    \cup If(trip.season = "nowruz", {Warn("warn", "nowruz", 0)})
    \cup If(RejectedFor(trip, {"vehicle"}) >= 3 /\ Vehicle.offroad = 0, {Warn("info", "vehicle", 0)})
    \cup If(RejectedFor(trip, {"wheelchair", "too_hard"}) >= 3, {Warn("info", "mobility", 0)})
    \cup If(dropped > 0, {Warn("info", "dropped", 0)})
    \cup ClimateTips(trip, days)

\* advise: of the trip, then of each day.
Advise(trip, days, bill, seen, dropped) ==
    TripWarnings(trip, days, bill, seen, dropped)
    \cup UNION {DayWarnings(trip, days[i], i) : i \in DOMAIN days}

-----------------------------------------------------------------------------
\* buildPackingList: what is packed beyond what everybody packs.
PackingList(trip, days) ==
    LET sky   == Sky(trip.weather, trip.days)
        group == trip.group
        seen  == UNION {ToSet(days[i].pois) : i \in DOMAIN days}
        climates == {City[days[i].from.stay].climate : i \in DOMAIN days}
        cold  == IF sky.known THEN sky.cold ELSE Cold(trip)
        hot   == IF sky.known THEN sky.hot ELSE trip.season = "summer"
    IN  If(Sum([i \in DOMAIN days |-> days[i].km]) > 800, {"service"})
        \cup If(cold, {"antifreeze", "warm_coat"})
        \cup If(cold /\ "mountain" \in climates, {"chains"})
        \cup If(hot, {"hat", "sunscreen"})
        \cup If(sky.rain, {"rain_clothes"})
        \cup If("caspian" \in climates, {"damp_clothes"})
        \cup If("desert" \in climates, {"warm_layer", "telescope"})
        \cup If(\E p \in seen : Poi[p].difficulty >= 2, {"hiking_shoes"})
        \cup If(\E p \in seen : Poi[p].cat = "water", {"swimwear"})
        \cup If(Vehicle.offroad > 0 /\ \E p \in seen : Poi[p].vehicle > 0, {"shovel"})
        \cup If("caspian" \in climates /\ trip.season = "summer", {"mosquito_net"})
        \cup If(HasSenior(group), {"blood_pressure_meter"})
        \cup If(HasToddler(group), {"child_seat"})
        \cup If(HasToddler(group) \/ HasChild(group), {"games"})
        \cup If(HasSenior(group) \/ \E i \in DOMAIN group : group[i].mobility # "full", {"cushion"})
        \cup If(trip.lodging = "camp", {"tent"})
=============================================================================
