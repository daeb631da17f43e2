--------------------------- MODULE MCDaySchedule ---------------------------
(***************************************************************************)
(* DaySchedule on a road of 430 km: the home city at its start, a city     *)
(* with a bazaar half way, another at its end. The museum near home closes *)
(* at noon, the desert camp takes half a day, the palace opens late.       *)
(***************************************************************************)
EXTENDS DaySchedule, TLC

CONSTANTS home, middle, far, museum, bazaar, camp, palace

CONSTANTS Lengths, Caps, Ends, Starts, Paces, Comforts, Pins

Hour == 60

MCPois   == {museum, bazaar, camp, palace}
MCCities == {home, middle, far}

MCCityOf == museum :> home @@ bazaar :> middle @@ camp :> middle @@ palace :> far

Km == home :> 0 @@ middle :> 200 @@ far :> 430
      @@ museum :> 40 @@ bazaar :> 203 @@ camp :> 270 @@ palace :> 436

Distance(x, y) == IF Km[x] < Km[y] THEN Km[y] - Km[x] ELSE Km[x] - Km[y]

MCGap   == [x \in Places |-> [y \in Places |-> Distance(x, y)]]
MCDrive == [x \in Places |-> [y \in Places |-> (Distance(x, y) * 4) \div 5]]

MCVisitTime == museum :> 60 @@ bazaar :> 45 @@ camp :> 240 @@ palace :> 120
MCNever     == 10000
MCOpens     == museum :> 9 * Hour @@ bazaar :> 0 @@ camp :> 0 @@ palace :> 10 * Hour
MCCloses    == museum :> 12 * Hour @@ bazaar :> 22 * Hour @@ camp :> MCNever @@ palace :> 17 * Hour

MCNightPois  == <<bazaar>>
MCStayCities == <<middle, far, home>>

MCRoutes == SetToSeqs(MCPois) \cup SetToSeqs({bazaar, palace})

\* Days at eight; every place free of a fixed day, or one of Pins on the last.
MCRequests ==
    {[days |-> n, dayStart |-> 8 * Hour, firstDayStart |-> start * Hour,
      dayEnd |-> end * Hour, cap |-> cap * Hour,
      returns |-> goal = home, destination |-> IF goal = home THEN NoCity ELSE goal,
      checkInFirst |-> "check-in" \in comfort, middayRest |-> "rest" \in comfort,
      evening |-> "evening" \in comfort, lunch |-> IF "picnic" \in comfort THEN 30 ELSE 75,
      maxVisits |-> pace, nightPois |-> MCNightPois,
      assigned |-> [p \in MCPois |-> IF p = pin THEN n ELSE 0]] :
        n \in Lengths, start \in Starts, end \in Ends, cap \in Caps,
        goal \in {home, far, NoCity}, comfort \in Comforts, pace \in Paces, pin \in Pins}
=============================================================================
