------------------------- MODULE GeneratePlanProofs -------------------------
(***************************************************************************)
(* Theorems about the planning service, for every map, catalogue, group    *)
(* and query: first the scheduler on its own (DaySchedule), for every      *)
(* order of visits; then the selector (Itinerary), for every wish and all  *)
(* candidates; then the handler that makes them work together              *)
(* (GeneratePlan), whose invariant rests on those of its two parts; and at *)
(* last the optimizer (BudgetLevers), which asks the handler again.        *)
(***************************************************************************)
EXTENDS BudgetLevers, Sums

(***************************************************************************)
(* THE SCHEDULER                                                           *)
(***************************************************************************)


(* What a block, and a day behind, is made of.                             *)
Kinds  == {"drive", "rest", "lunch", "dinner", "check-in", "breakfast",
           "visit", "stroll", "lodging"}
Blocks == [kind : Kinds, start : Nat, length : Nat, what : Places, rests : Nat]
Days   == [blocks : Seq(Blocks), base : Cities, driving : Nat, seen : SUBSET Pois]

(* A sight is seen while it is open and before the day ends at this hour.  *)
InHours(b, dayEnd) ==
    b.kind \in {"visit", "stroll"} =>
        /\ b.start >= Opens[b.what]
        /\ b.start + b.length <= Earlier(Closes[b.what], dayEnd)

(* These blocks fill the time between two moments, one after the other.    *)
Chain(bs, from, to, dayEnd) ==
    /\ bs \in Seq(Blocks)
    /\ from \in Nat /\ to \in Nat /\ from <= to
    /\ \A i \in 1 .. Len(bs) : /\ from <= bs[i].start
                               /\ bs[i].start + bs[i].length <= to
                               /\ InHours(bs[i], dayEnd)
    /\ \A i, j \in 1 .. Len(bs) : i < j => bs[i].start + bs[i].length <= bs[j].start

-----------------------------------------------------------------------------
(* Chains of blocks.                                                       *)

LEMMA BlockFields ==
  ASSUME NEW b \in Blocks
  PROVE  b.start \in Nat /\ b.length \in Nat
BY DEF Blocks

LEMMA ChainNone ==
  ASSUME NEW from \in Nat, NEW to \in Nat, from <= to, NEW dayEnd
  PROVE  Chain(<<>>, from, to, dayEnd)
<1>1. <<>> \in Seq(Blocks) /\ Len(<<>>) = 0
  BY EmptySeq
<1>. QED
  BY <1>1 DEF Chain

LEMMA ChainOne ==
  ASSUME NEW from \in Nat, NEW to \in Nat, NEW dayEnd, NEW b \in Blocks,
         from <= b.start, b.start + b.length <= to, InHours(b, dayEnd)
  PROVE  Chain(<<b>>, from, to, dayEnd)
<1>1. <<b>> \in Seq(Blocks) /\ Len(<<b>>) = 1 /\ <<b>>[1] = b
  OBVIOUS
<1>2. from <= to
  BY BlockFields
<1>3. PICK bs : bs = <<b>>
  OBVIOUS
<1>. QED
  BY <1>1, <1>2, <1>3 DEF Chain

LEMMA ChainConcat ==
  ASSUME NEW from, NEW mid, NEW to, NEW dayEnd, NEW s, NEW t,
         Chain(s, from, mid, dayEnd), Chain(t, mid, to, dayEnd)
  PROVE  Chain(s \o t, from, to, dayEnd)
<1>0. /\ s \in Seq(Blocks) /\ t \in Seq(Blocks) /\ Len(s) \in Nat /\ Len(t) \in Nat
      /\ from \in Nat /\ mid \in Nat /\ to \in Nat /\ from <= mid /\ mid <= to
  BY DEF Chain
<1>1. PICK u : u = s \o t
  OBVIOUS
<1>2. u \in Seq(Blocks)
  BY <1>0, <1>1, ConcatProperties
<1>3. Len(u) = Len(s) + Len(t)
  BY <1>0, <1>1, ConcatProperties
<1>4. \A i \in 1 .. Len(u) : u[i] = IF i <= Len(s) THEN s[i] ELSE t[i - Len(s)]
  BY <1>0, <1>1, <1>3, ConcatProperties
<1>5. /\ \A i \in 1 .. Len(s) : /\ s[i] \in Blocks /\ from <= s[i].start
                                /\ s[i].start + s[i].length <= mid /\ InHours(s[i], dayEnd)
      /\ \A i \in 1 .. Len(t) : /\ t[i] \in Blocks /\ mid <= t[i].start
                                /\ t[i].start + t[i].length <= to /\ InHours(t[i], dayEnd)
  BY <1>0, ElementOfSeq DEF Chain
<1>6. ASSUME NEW i \in 1 .. Len(u)
      PROVE  /\ from <= u[i].start /\ u[i].start + u[i].length <= to
             /\ InHours(u[i], dayEnd)
  <2>1. CASE i <= Len(s)
    <3>1. i \in 1 .. Len(s) /\ u[i] = s[i]
      BY <2>1, <1>0, <1>3, <1>4
    <3>. QED
      BY <3>1, <1>0, <1>5, BlockFields
  <2>2. CASE i > Len(s)
    <3>1. i - Len(s) \in 1 .. Len(t) /\ u[i] = t[i - Len(s)]
      BY <2>2, <1>0, <1>3, <1>4
    <3>. QED
      BY <3>1, <1>0, <1>5, BlockFields
  <2>. QED
    BY <2>1, <2>2, <1>0
<1>7. ASSUME NEW i \in 1 .. Len(u), NEW j \in 1 .. Len(u), i < j
      PROVE  u[i].start + u[i].length <= u[j].start
  <2>1. CASE j <= Len(s)
    <3>1. i \in 1 .. Len(s) /\ j \in 1 .. Len(s) /\ u[i] = s[i] /\ u[j] = s[j]
      BY <2>1, <1>0, <1>3, <1>4, <1>7
    <3>. QED
      BY <3>1, <1>7 DEF Chain
  <2>2. CASE i <= Len(s) /\ j > Len(s)
    <3>1. i \in 1 .. Len(s) /\ j - Len(s) \in 1 .. Len(t) /\ u[i] = s[i] /\ u[j] = t[j - Len(s)]
      BY <2>2, <1>0, <1>3, <1>4
    <3>2. PICK k : k = j - Len(s)
      OBVIOUS
    <3>3. s[i] \in Blocks /\ s[i].start + s[i].length <= mid /\ t[k] \in Blocks /\ mid <= t[k].start
      BY <3>1, <3>2, <1>5
    <3>4. s[i].start \in Nat /\ s[i].length \in Nat /\ t[k].start \in Nat /\ mid \in Nat
      BY <3>3, <1>0, BlockFields
    <3>5. u[i] = s[i] /\ u[j] = t[k]
      BY <3>1, <3>2
    <3>6. s[i].start + s[i].length <= t[k].start
      BY <3>3, <3>4
    <3>. QED
      BY <3>5, <3>6
  <2>3. CASE i > Len(s)
    <3>1. PICK a \in 1 .. Len(t), b \in 1 .. Len(t) : a < b /\ u[i] = t[a] /\ u[j] = t[b]
      <4>1. i - Len(s) \in 1 .. Len(t) /\ j - Len(s) \in 1 .. Len(t) /\ i - Len(s) < j - Len(s)
        BY <2>3, <1>0, <1>3, <1>7
      <4>2. u[i] = t[i - Len(s)] /\ u[j] = t[j - Len(s)]
        BY <2>3, <1>0, <1>3, <1>4, <1>7
      <4>. QED
        BY <4>1, <4>2
    <3>. QED
      BY <3>1 DEF Chain
  <2>. QED
    BY <2>1, <2>2, <2>3, <1>0
<1>. QED
  BY <1>0, <1>1, <1>2, <1>6, <1>7 DEF Chain

-----------------------------------------------------------------------------
(* The map.                                                                *)

LEMMA DriveNat ==
  ASSUME NEW x \in Places, NEW y \in Places
  PROVE  Drive[x][y] \in Nat /\ Gap[x][y] \in Nat
BY MapAssumption, HoursAssumption

LEMMA MinOfNats ==
  ASSUME NEW T \in SUBSET Nat, T # {}
  PROVE  Min(T) \in T /\ \A y \in T : Min(T) <= y
<1>1. \E x \in T : \A y \in T : x <= y
  <2>1. PICK x \in T : \A y \in T : ~(<<y, x>> \in OpToRel(<, Nat))
    BY NatLessThanWellFounded, WFMin
  <2>2. \A y \in T : ~(y < x)
    BY <2>1 DEF OpToRel
  <2>. QED
    BY <2>2
<1>. QED
  BY <1>1 DEF Min

LEMMA NearestType ==
  ASSUME NEW x \in Places
  PROVE  NearestStayCity(x) \in Cities
<1>1. CASE StayCities = <<>>
  BY <1>1, MapAssumption, HoursAssumption DEF NearestStayCity
<1>2. CASE StayCities # <<>>
  <2>1. /\ StayCities \in Seq(Cities) /\ DOMAIN StayCities \in SUBSET Nat
        /\ \A i \in DOMAIN StayCities : StayCities[i] \in Cities
    BY MapAssumption, HoursAssumption
  <2>2. PICK km : km = [i \in DOMAIN StayCities |-> Gap[x][StayCities[i]]]
    OBVIOUS
  <2>3. \A i \in DOMAIN StayCities : km[i] \in Nat /\ km[i] = Gap[x][StayCities[i]]
    BY <2>1, <2>2, DriveNat DEF Places
  <2>4. PICK all : all = {km[i] : i \in DOMAIN StayCities}
    OBVIOUS
  <2>5. all \in SUBSET Nat /\ all # {}
    <3>1. 1 \in DOMAIN StayCities
      BY <1>2, <2>1
    <3>. QED
      BY <3>1, <2>3, <2>4
  <2>6. Min(all) \in all /\ \A i \in DOMAIN StayCities : Min(all) <= km[i]
    BY <2>4, <2>5, MinOfNats
  <2>7. PICK nearest : nearest = {i \in DOMAIN StayCities : km[i] = Min(all)}
    OBVIOUS
  <2>a. nearest # {} /\ nearest \in SUBSET Nat
    BY <2>1, <2>4, <2>6, <2>7
  <2>b. /\ Min(nearest) \in DOMAIN StayCities /\ km[Min(nearest)] = Min(all)
        /\ \A j \in DOMAIN StayCities : km[j] = Min(all) => Min(nearest) <= j
    BY <2>a, <2>7, MinOfNats
  <2>8. \E i \in DOMAIN StayCities : \A j \in DOMAIN StayCities :
            /\ Gap[x][StayCities[i]] <= Gap[x][StayCities[j]]
            /\ Gap[x][StayCities[i]] = Gap[x][StayCities[j]] => i <= j
    BY <2>3, <2>6, <2>b
  <2>. QED
    BY <1>2, <2>1, <2>8 DEF NearestStayCity
<1>. QED
  BY <1>1, <1>2

LEMMA Fields ==
  ASSUME req \in Requests
  PROVE  /\ req.days \in Nat /\ req.days >= 1
         /\ req.dayStart \in Nat /\ req.firstDayStart \in Nat /\ req.dayEnd \in Nat
         /\ req.cap \in Nat /\ req.lunch \in Nat
         /\ req.returns \in BOOLEAN /\ req.middayRest \in BOOLEAN /\ req.evening \in BOOLEAN
         /\ req.destination \in Cities \cup {NoCity} /\ req.nightPois \in Seq(Pois)
<1>1. req \in ScheduleWishes
  BY RequestAssumption
<1>2. req.days \in Nat \ {0}
  BY <1>1 DEF ScheduleWishes
<1>. QED
  BY <1>1, <1>2 DEF ScheduleWishes

LEMMA FinalType ==
  ASSUME req \in Requests, NEW x \in Places
  PROVE  FinalCity(x) \in Cities /\ EndCity(x) \in Cities
BY Fields, NearestType, MapAssumption, HoursAssumption DEF FinalCity, EndCity

(* The city of the night is a city, and after visits or on the last day it *)
(* is the one the visits were weighed against.                             *)
LEMMA StayType ==
  ASSUME TypeOK
  PROVE  /\ \A stay \in StayCity : stay \in Cities
         /\ \A stay \in StayCity : seen # {} => stay = EndCity(place)
         /\ \A stay \in StayCity : IsLastDay => stay = FinalCity(place)
<1>1. req \in Requests /\ place \in Places /\ city \in Cities
  BY DEF TypeOK
<1>2. ASSUME NEW stay \in ProgressStayCity
      PROVE  stay \in Cities
  <2>1. CASE Goals = {} \/ driving >= req.cap
    BY <1>1, <1>2, <2>1 DEF ProgressStayCity
  <2>2. CASE ~(Goals = {} \/ driving >= req.cap)
    <3>1. PICK nearer \in UNION {Searches(goal) : goal \in Goals} : stay = nearer[Len(StayCities)]
      BY <1>2, <2>2 DEF ProgressStayCity
    <3>2. nearer \in [0 .. Len(StayCities) -> Cities]
      BY <3>1 DEF Searches
    <3>3. Len(StayCities) \in 0 .. Len(StayCities)
      <4>1. Len(StayCities) \in Nat
        BY MapAssumption, HoursAssumption
      <4>. QED
        BY <4>1
    <3>. QED
      BY <3>1, <3>2, <3>3
  <2>. QED
    BY <2>1, <2>2
<1>. QED
  BY <1>1, <1>2, FinalType, NearestType DEF StayCity, EndCity

-----------------------------------------------------------------------------
(* The blocks of a step.                                                   *)

LEMMA BlockType ==
  ASSUME NEW kind \in Kinds, NEW start \in Nat, NEW length \in Nat, NEW what \in Places
  PROVE  /\ Block(kind, start, length, what) \in Blocks
         /\ Block(kind, start, length, what).kind = kind
         /\ Block(kind, start, length, what).start = start
         /\ Block(kind, start, length, what).length = length
         /\ Block(kind, start, length, what).what = what
BY DEF Block, Blocks

(* A block without a sight in it.                                          *)
LEMMA IdleBlock ==
  ASSUME NEW kind \in Kinds, kind # "visit", kind # "stroll",
         NEW start \in Nat, NEW length \in Nat, NEW what \in Places,
         NEW from \in Nat, NEW to \in Nat, NEW dayEnd,
         from <= start, start + length <= to
  PROVE  Chain(<<Block(kind, start, length, what)>>, from, to, dayEnd)
<1>1. PICK b : b = Block(kind, start, length, what)
  OBVIOUS
<1>2. /\ b \in Blocks /\ from <= b.start /\ b.start + b.length <= to
      /\ InHours(b, dayEnd)
  BY <1>1, BlockType DEF InHours
<1>. QED
  BY <1>1, <1>2, ChainOne

LEMMA RestsNat ==
  ASSUME continuous \in Nat, NEW leg \in Nat
  PROVE  RestsWithin(leg) \in Nat /\ OnTheRoad(leg) \in Nat /\ OnTheRoad(leg) >= leg
<1>1. RestsWithin(leg) \in Nat
  <2>1. \A n \in Nat : n # 0 => (n - 1) \div 120 \in Nat
    OBVIOUS
  <2>. QED
    BY <2>1 DEF RestsWithin, ContinuousDriveLimit
<1>. QED
  BY <1>1 DEF OnTheRoad, RestStop

LEMMA DriveChain ==
  ASSUME continuous \in Nat, NEW leg \in Nat, NEW from \in Nat, NEW to \in Places, NEW dayEnd
  PROVE  Chain(<<DriveBlock(from, leg, RestsWithin(leg), to)>>,
               from, from + OnTheRoad(leg), dayEnd)
<1>1. PICK b : b = DriveBlock(from, leg, RestsWithin(leg), to)
  OBVIOUS
<1>a. /\ b = [kind |-> "drive", start |-> from, length |-> OnTheRoad(leg),
               what |-> to, rests |-> RestsWithin(leg)]
      /\ RestsWithin(leg) \in Nat /\ OnTheRoad(leg) \in Nat
  BY <1>1, RestsNat DEF DriveBlock, OnTheRoad
<1>2. /\ b \in Blocks /\ b.start = from /\ b.length = OnTheRoad(leg)
      /\ b.kind # "visit" /\ b.kind # "stroll"
  BY <1>a DEF Blocks, Kinds
<1>3. from + OnTheRoad(leg) \in Nat
  BY RestsNat
<1>. QED
  BY <1>1, <1>2, <1>3, ChainOne DEF InHours

(* The hours of a visit follow each other.                                 *)
LEMMA PlacementTimes ==
  ASSUME TypeOK, NEW p \in Pois, NEW at, at = Placement(p)
  PROVE  /\ at.leg \in Nat /\ at.leg = Drive[place][p]
         /\ at.leave \in Nat /\ at.arrive \in Nat /\ at.settled \in Nat
         /\ at.ready \in Nat /\ at.start \in Nat
         /\ at.leave = clock \/ at.leave = clock + RestStop
         /\ at.arrive = at.leave + OnTheRoad(at.leg)
         /\ at.settled = at.arrive + (IF ChecksIn(p) THEN CheckInRest ELSE 0)
         /\ at.meal = MealBefore(at.settled) /\ at.meal \in {"lunch", "dinner", "none"}
         /\ at.ready = at.settled + MealTime(at.meal)
         /\ at.start = Later(at.ready, Opens[p])
<1>1. /\ req \in Requests /\ place \in Places /\ clock \in Nat /\ continuous \in Nat
      /\ req.lunch \in Nat /\ p \in Places /\ Opens[p] \in Nat
  BY Fields, MapAssumption, HoursAssumption DEF TypeOK, Places
<1>2. /\ at.leg = Drive[place][p]
      /\ at.leave = clock + (IF RestBefore(at.leg) THEN RestStop ELSE 0)
      /\ at.arrive = at.leave + OnTheRoad(at.leg)
      /\ at.settled = at.arrive + (IF ChecksIn(p) THEN CheckInRest ELSE 0)
      /\ at.meal = MealBefore(at.settled)
      /\ at.ready = at.settled + MealTime(at.meal)
      /\ at.start = Later(at.ready, Opens[p])
  BY DEF Placement
<1>3. at.leg \in Nat
  BY <1>1, <1>2, DriveNat
<1>4. at.leave \in Nat /\ (at.leave = clock \/ at.leave = clock + RestStop)
  BY <1>1, <1>2 DEF RestStop
<1>5. at.arrive \in Nat
  BY <1>1, <1>2, <1>3, <1>4, RestsNat
<1>6. at.settled \in Nat
  BY <1>2, <1>5 DEF CheckInRest
<1>7. at.meal \in {"lunch", "dinner", "none"}
  BY <1>2 DEF MealBefore
<1>8. MealTime(at.meal) \in Nat
  BY <1>1, <1>7 DEF MealTime, LunchWithRest, LunchTime, MiddayRestTime, Dinner
<1>9. at.ready \in Nat
  BY <1>2, <1>6, <1>8
<1>10. at.start \in Nat
  BY <1>1, <1>2, <1>9 DEF Later
<1>. QED
  BY <1>2, <1>3, <1>4, <1>5, <1>6, <1>7, <1>9, <1>10

(* A visit prolongs the day to its end.                                    *)
LEMMA VisitBlocks ==
  ASSUME TypeOK, Chain(blocks, 0, clock, req.dayEnd),
         NEW p \in Pois, NEW at, at = Placement(p), OpenForVisit(p, at),
         at.start + VisitTime[p] <= req.dayEnd
  PROVE  Chain(blocks
              \o When(at.leave # clock, Block("rest", clock, RestStop, p))
              \o <<DriveBlock(at.leave, at.leg, RestsWithin(at.leg), p)>>
              \o When(ChecksIn(p), Block("check-in", at.arrive, CheckInRest, CityOf[p]))
              \o When(at.meal # "none",
                      Block(at.meal, at.settled, IF at.meal = "dinner" THEN Dinner ELSE LunchTime, p))
              \o When(at.meal = "lunch" /\ req.middayRest,
                      Block("rest", at.settled + LunchTime, MiddayRestTime, p))
              \o When(at.start - at.ready >= VisibleWait,
                      Block("rest", at.ready, at.start - at.ready, p))
              \o <<Block("visit", at.start, VisitTime[p], p)>>,
              0, at.start + VisitTime[p], req.dayEnd)
<1>0. /\ req \in Requests /\ clock \in Nat /\ continuous \in Nat
      /\ req.lunch \in Nat /\ req.middayRest \in BOOLEAN
      /\ p \in Places /\ CityOf[p] \in Places /\ VisitTime[p] \in Nat /\ Opens[p] \in Nat
      /\ Closes[p] \in Nat
  BY Fields, MapAssumption, HoursAssumption DEF TypeOK, Places
<1>1. /\ at.leg \in Nat /\ at.leave \in Nat /\ at.arrive \in Nat /\ at.settled \in Nat
      /\ at.ready \in Nat /\ at.start \in Nat
      /\ at.leave = clock \/ at.leave = clock + RestStop
      /\ at.arrive = at.leave + OnTheRoad(at.leg)
      /\ at.settled = at.arrive + (IF ChecksIn(p) THEN CheckInRest ELSE 0)
      /\ at.meal \in {"lunch", "dinner", "none"}
      /\ at.ready = at.settled + MealTime(at.meal)
      /\ at.start = Later(at.ready, Opens[p])
  BY PlacementTimes
<1>2. PICK eaten : eaten = at.settled + (IF at.meal = "none" THEN 0 ELSE
                               IF at.meal = "dinner" THEN Dinner ELSE LunchTime)
  OBVIOUS
<1>3. /\ eaten \in Nat /\ at.settled <= eaten /\ eaten <= at.ready
      /\ at.meal = "lunch" /\ req.middayRest =>
            at.settled + LunchTime = eaten /\ eaten + MiddayRestTime = at.ready
  BY <1>0, <1>1, <1>2 DEF MealTime, LunchWithRest, LunchTime, MiddayRestTime, Dinner
<1>a. Chain(When(at.leave # clock, Block("rest", clock, RestStop, p)),
            clock, at.leave, req.dayEnd)
  <2>1. CASE at.leave # clock
    <3>1. RestStop \in Nat /\ clock <= clock /\ clock + RestStop <= at.leave /\ "rest" \in Kinds
      BY <2>1, <1>0, <1>1 DEF RestStop, Kinds
    <3>2. Chain(<<Block("rest", clock, RestStop, p)>>, clock, at.leave, req.dayEnd)
      BY <3>1, <1>0, <1>1, IdleBlock
    <3>. QED
      BY <2>1, <3>2 DEF When
  <2>2. CASE at.leave = clock
    BY <2>2, <1>0, ChainNone DEF When
  <2>. QED
    BY <2>1, <2>2
<1>b. Chain(<<DriveBlock(at.leave, at.leg, RestsWithin(at.leg), p)>>,
            at.leave, at.arrive, req.dayEnd)
  BY <1>0, <1>1, DriveChain
<1>c. Chain(When(ChecksIn(p), Block("check-in", at.arrive, CheckInRest, CityOf[p])),
            at.arrive, at.settled, req.dayEnd)
  <2>1. CASE ChecksIn(p)
    <3>1. /\ CheckInRest \in Nat /\ at.arrive <= at.arrive
          /\ at.arrive + CheckInRest <= at.settled /\ "check-in" \in Kinds
      BY <2>1, <1>1 DEF CheckInRest, Kinds
    <3>2. Chain(<<Block("check-in", at.arrive, CheckInRest, CityOf[p])>>,
                at.arrive, at.settled, req.dayEnd)
      BY <3>1, <1>0, <1>1, IdleBlock
    <3>. QED
      BY <2>1, <3>2 DEF When
  <2>2. CASE ~ChecksIn(p)
    <3>1. at.arrive <= at.settled
      BY <2>2, <1>1
    <3>. QED
      BY <2>2, <3>1, <1>1, ChainNone DEF When
  <2>. QED
    BY <2>1, <2>2
<1>d. Chain(When(at.meal # "none",
                 Block(at.meal, at.settled, IF at.meal = "dinner" THEN Dinner ELSE LunchTime, p)),
            at.settled, eaten, req.dayEnd)
  <2>1. PICK length : length = IF at.meal = "dinner" THEN Dinner ELSE LunchTime
    OBVIOUS
  <2>2. CASE at.meal # "none"
    <3>1. /\ length \in Nat /\ at.settled <= at.settled /\ at.settled + length <= eaten
          /\ at.meal \in Kinds /\ at.meal # "visit" /\ at.meal # "stroll"
      BY <2>1, <2>2, <1>0, <1>1, <1>2 DEF Dinner, LunchTime, Kinds
    <3>2. Chain(<<Block(at.meal, at.settled, length, p)>>, at.settled, eaten, req.dayEnd)
      BY <3>1, <1>0, <1>1, <1>3, IdleBlock
    <3>. QED
      BY <2>1, <2>2, <3>2 DEF When
  <2>3. CASE at.meal = "none"
    BY <2>3, <1>1, <1>3, ChainNone DEF When
  <2>. QED
    BY <2>2, <2>3
<1>e. Chain(When(at.meal = "lunch" /\ req.middayRest,
                 Block("rest", at.settled + LunchTime, MiddayRestTime, p)),
            eaten, at.ready, req.dayEnd)
  <2>1. CASE at.meal = "lunch" /\ req.middayRest
    <3>1. /\ at.settled + LunchTime \in Nat /\ MiddayRestTime \in Nat /\ "rest" \in Kinds
          /\ eaten <= at.settled + LunchTime
          /\ (at.settled + LunchTime) + MiddayRestTime <= at.ready
      BY <2>1, <1>0, <1>1, <1>3 DEF MiddayRestTime, LunchTime, Kinds
    <3>2. Chain(<<Block("rest", at.settled + LunchTime, MiddayRestTime, p)>>,
                eaten, at.ready, req.dayEnd)
      BY <3>1, <1>0, <1>1, <1>3, IdleBlock
    <3>. QED
      BY <2>1, <3>2 DEF When
  <2>2. CASE ~(at.meal = "lunch" /\ req.middayRest)
    BY <2>2, <1>1, <1>3, ChainNone DEF When
  <2>. QED
    BY <2>1, <2>2
<1>f. Chain(When(at.start - at.ready >= VisibleWait,
                 Block("rest", at.ready, at.start - at.ready, p)),
            at.ready, at.start, req.dayEnd)
  <2>0. /\ at.ready <= at.start /\ at.start - at.ready \in Nat
        /\ at.ready + (at.start - at.ready) = at.start
    BY <1>0, <1>1 DEF Later
  <2>1. CASE at.start - at.ready >= VisibleWait
    <3>1. "rest" \in Kinds /\ at.ready <= at.ready /\ at.ready + (at.start - at.ready) <= at.start
      BY <2>0, <1>1 DEF Kinds
    <3>2. Chain(<<Block("rest", at.ready, at.start - at.ready, p)>>,
                at.ready, at.start, req.dayEnd)
      BY <2>0, <3>1, <1>0, <1>1, IdleBlock
    <3>. QED
      BY <2>1, <3>2 DEF When
  <2>2. CASE ~(at.start - at.ready >= VisibleWait)
    BY <2>0, <2>2, <1>1, ChainNone DEF When
  <2>. QED
    BY <2>1, <2>2
<1>g. Chain(<<Block("visit", at.start, VisitTime[p], p)>>,
            at.start, at.start + VisitTime[p], req.dayEnd)
  <2>1. PICK b : b = Block("visit", at.start, VisitTime[p], p)
    OBVIOUS
  <2>2. /\ b \in Blocks /\ b.kind = "visit" /\ b.start = at.start
        /\ b.length = VisitTime[p] /\ b.what = p
    <3>1. "visit" \in Kinds
      BY DEF Kinds
    <3>. QED
      BY <2>1, <3>1, <1>0, <1>1, BlockType
  <2>3. at.start + VisitTime[p] <= Closes[p]
    BY DEF OpenForVisit
  <2>4. at.start >= Opens[p]
    BY <1>0, <1>1 DEF Later
  <2>5. InHours(b, req.dayEnd)
    BY <2>2, <2>3, <2>4 DEF InHours, Earlier
  <2>6. at.start + VisitTime[p] \in Nat
    BY <1>0, <1>1
  <2>. QED
    BY <2>1, <2>2, <2>5, <2>6, <1>1, ChainOne
<1>. DEFINE rest1   == When(at.leave # clock, Block("rest", clock, RestStop, p))
            drive   == <<DriveBlock(at.leave, at.leg, RestsWithin(at.leg), p)>>
            checkIn == When(ChecksIn(p), Block("check-in", at.arrive, CheckInRest, CityOf[p]))
            meal    == When(at.meal # "none", Block(at.meal, at.settled,
                            IF at.meal = "dinner" THEN Dinner ELSE LunchTime, p))
            rest2   == When(at.meal = "lunch" /\ req.middayRest,
                            Block("rest", at.settled + LunchTime, MiddayRestTime, p))
            wait    == When(at.start - at.ready >= VisibleWait,
                            Block("rest", at.ready, at.start - at.ready, p))
            visit   == <<Block("visit", at.start, VisitTime[p], p)>>
<1>. HIDE DEF rest1, drive, checkIn, meal, rest2, wait, visit
<1>h. /\ Chain(rest1, clock, at.leave, req.dayEnd)
      /\ Chain(drive, at.leave, at.arrive, req.dayEnd)
      /\ Chain(checkIn, at.arrive, at.settled, req.dayEnd)
      /\ Chain(meal, at.settled, eaten, req.dayEnd)
      /\ Chain(rest2, eaten, at.ready, req.dayEnd)
      /\ Chain(wait, at.ready, at.start, req.dayEnd)
      /\ Chain(visit, at.start, at.start + VisitTime[p], req.dayEnd)
  BY <1>a, <1>b, <1>c, <1>d, <1>e, <1>f, <1>g
     DEF rest1, drive, checkIn, meal, rest2, wait, visit
<1>i. Chain(blocks \o rest1 \o drive \o checkIn, 0, at.settled, req.dayEnd)
  BY <1>h, ChainConcat
<1>j. Chain(blocks \o rest1 \o drive \o checkIn \o meal \o rest2,
            0, at.ready, req.dayEnd)
  BY <1>h, <1>i, ChainConcat
<1>k. Chain(blocks \o rest1 \o drive \o checkIn \o meal \o rest2 \o wait \o visit,
            0, at.start + VisitTime[p], req.dayEnd)
  BY <1>h, <1>j, ChainConcat
<1>. QED
  BY <1>k DEF rest1, drive, checkIn, meal, rest2, wait, visit

(* So does the leg to the city of the night.                               *)
LEMMA DriveToBlocks ==
  ASSUME TypeOK, Chain(blocks, 0, clock, req.dayEnd), NEW stay \in Cities, DriveTo(stay)
  PROVE  /\ Chain(blocks', 0, clock', req.dayEnd)
         /\ clock' \in Nat /\ clock' >= clock
<1>0. /\ req \in Requests /\ clock \in Nat /\ continuous \in Nat /\ place \in Places
      /\ city \in Places /\ stay \in Places
      /\ req.lunch \in Nat /\ req.middayRest \in BOOLEAN
  BY Fields, MapAssumption, HoursAssumption DEF TypeOK, Places
<1>1. PICK leg : leg = Drive[place][stay]
  OBVIOUS
<1>2. PICK eats \in BOOLEAN : eats = LunchBeforeLeg(leg)
  BY DEF LunchBeforeLeg
<1>3. PICK fed : fed = clock + (IF eats THEN LunchWithRest ELSE 0)
  OBVIOUS
<1>4. PICK leave : leave = fed + (IF RestBefore(leg) THEN RestStop ELSE 0)
  OBVIOUS
<1>5. leg \in Nat
  BY <1>0, <1>1, DriveNat
<1>6. PICK eaten : eaten = IF eats THEN clock + LunchTime ELSE clock
  OBVIOUS
<1>7. /\ eaten \in Nat /\ clock <= eaten /\ fed \in Nat /\ eaten <= fed
      /\ eats /\ req.middayRest => clock + LunchTime = eaten /\ eaten + MiddayRestTime = fed
  BY <1>0, <1>3, <1>6 DEF LunchWithRest, LunchTime, MiddayRestTime
<1>8. leave \in Nat /\ (leave = fed \/ leave = fed + RestStop)
  BY <1>4, <1>7 DEF RestStop
<1>9. /\ blocks' = blocks \o When(eats, Block("lunch", clock, LunchTime, city))
              \o When(eats /\ req.middayRest,
                      Block("rest", clock + LunchTime, MiddayRestTime, city))
              \o When(leave # fed, Block("rest", fed, RestStop, stay))
              \o <<DriveBlock(leave, leg, RestsWithin(leg), stay)>>
      /\ clock' = leave + OnTheRoad(leg)
  BY <1>1, <1>2, <1>3, <1>4 DEF DriveTo
<1>a. Chain(When(eats, Block("lunch", clock, LunchTime, city)), clock, eaten, req.dayEnd)
  <2>1. CASE eats
    <3>1. /\ LunchTime \in Nat /\ clock <= clock /\ clock + LunchTime <= eaten
          /\ "lunch" \in Kinds
      BY <2>1, <1>0, <1>6 DEF LunchTime, Kinds
    <3>2. Chain(<<Block("lunch", clock, LunchTime, city)>>, clock, eaten, req.dayEnd)
      BY <3>1, <1>0, <1>7, IdleBlock
    <3>. QED
      BY <2>1, <3>2 DEF When
  <2>2. CASE ~eats
    BY <2>2, <1>0, <1>7, ChainNone DEF When
  <2>. QED
    BY <2>1, <2>2
<1>b. Chain(When(eats /\ req.middayRest, Block("rest", clock + LunchTime, MiddayRestTime, city)),
            eaten, fed, req.dayEnd)
  <2>1. CASE eats /\ req.middayRest
    <3>1. /\ clock + LunchTime \in Nat /\ MiddayRestTime \in Nat /\ "rest" \in Kinds
          /\ eaten <= clock + LunchTime /\ (clock + LunchTime) + MiddayRestTime <= fed
      BY <2>1, <1>7 DEF MiddayRestTime, Kinds
    <3>2. Chain(<<Block("rest", clock + LunchTime, MiddayRestTime, city)>>,
                eaten, fed, req.dayEnd)
      BY <3>1, <1>0, <1>7, IdleBlock
    <3>. QED
      BY <2>1, <3>2 DEF When
  <2>2. CASE ~(eats /\ req.middayRest)
    BY <2>2, <1>7, ChainNone DEF When
  <2>. QED
    BY <2>1, <2>2
<1>c. Chain(When(leave # fed, Block("rest", fed, RestStop, stay)), fed, leave, req.dayEnd)
  <2>1. CASE leave # fed
    <3>1. RestStop \in Nat /\ fed <= fed /\ fed + RestStop <= leave /\ "rest" \in Kinds
      BY <2>1, <1>7, <1>8 DEF RestStop, Kinds
    <3>2. Chain(<<Block("rest", fed, RestStop, stay)>>, fed, leave, req.dayEnd)
      BY <3>1, <1>0, <1>7, <1>8, IdleBlock
    <3>. QED
      BY <2>1, <3>2 DEF When
  <2>2. CASE leave = fed
    BY <2>2, <1>7, ChainNone DEF When
  <2>. QED
    BY <2>1, <2>2
<1>d. Chain(<<DriveBlock(leave, leg, RestsWithin(leg), stay)>>,
            leave, leave + OnTheRoad(leg), req.dayEnd)
  BY <1>0, <1>5, <1>8, DriveChain
<1>e. Chain(blocks', 0, clock', req.dayEnd)
  <2>. DEFINE lunch == When(eats, Block("lunch", clock, LunchTime, city))
              rest1 == When(eats /\ req.middayRest,
                            Block("rest", clock + LunchTime, MiddayRestTime, city))
              rest2 == When(leave # fed, Block("rest", fed, RestStop, stay))
              drive == <<DriveBlock(leave, leg, RestsWithin(leg), stay)>>
  <2>. HIDE DEF lunch, rest1, rest2, drive
  <2>1. /\ Chain(lunch, clock, eaten, req.dayEnd)
        /\ Chain(rest1, eaten, fed, req.dayEnd)
        /\ Chain(rest2, fed, leave, req.dayEnd)
        /\ Chain(drive, leave, leave + OnTheRoad(leg), req.dayEnd)
    BY <1>a, <1>b, <1>c, <1>d DEF lunch, rest1, rest2, drive
  <2>2. Chain(blocks \o lunch \o rest1, 0, fed, req.dayEnd)
    BY <2>1, ChainConcat
  <2>3. Chain(blocks \o lunch \o rest1 \o rest2 \o drive, 0, leave + OnTheRoad(leg), req.dayEnd)
    BY <2>1, <2>2, ChainConcat
  <2>. QED
    BY <1>9, <2>3 DEF lunch, rest1, rest2, drive
<1>f. clock' \in Nat /\ clock' >= clock
  <2>1. OnTheRoad(leg) \in Nat
    BY <1>0, <1>5, RestsNat
  <2>. QED
    BY <2>1, <1>0, <1>7, <1>8, <1>9 DEF RestStop
<1>. QED
  BY <1>e, <1>f

(* Who strolls after dinner finds the place open, and not seen before.     *)
LEMMA StrollFacts ==
  ASSUME TypeOK, NEW stay \in Cities, NEW from \in Nat, NEW p \in Strolls(stay, from)
  PROVE  /\ p \in Pois /\ p \notin visited
         /\ Opens[p] <= from /\ StrollTime(p, from) \in Nat
         /\ from + StrollTime(p, from) <= Earlier(Closes[p], req.dayEnd)
<1>0. /\ req \in Requests /\ req.dayEnd \in Nat
      /\ DOMAIN req.nightPois \in SUBSET Nat /\ \A i \in DOMAIN req.nightPois : req.nightPois[i] \in Pois
  <2>1. req \in Requests
    BY DEF TypeOK
  <2>2. req.nightPois \in Seq(Pois)
    BY <2>1, Fields
  <2>. QED
    BY <2>1, <2>2, Fields
<1>1. PICK choices : choices = StrollChoices(stay, from)
  OBVIOUS
<1>2. /\ choices # {} /\ p = req.nightPois[Min(choices)]
      /\ ~(req.dayEnd - from < MinEveningVisit) /\ StrollTime(p, from) >= MinEveningVisit
  BY <1>1 DEF Strolls
<1>3. choices \in SUBSET Nat /\ choices \subseteq DOMAIN req.nightPois
  BY <1>0, <1>1 DEF StrollChoices
<1>4. Min(choices) \in choices
  BY <1>2, <1>3, MinOfNats
<1>5. /\ p \in Pois /\ p \notin visited
      /\ Opens[p] <= from /\ from + MinEveningVisit <= Closes[p]
  BY <1>0, <1>1, <1>2, <1>3, <1>4 DEF StrollChoices
<1>6. VisitTime[p] \in Nat /\ Closes[p] \in Nat
  BY <1>5, MapAssumption, HoursAssumption
<1>7. PICK bounds : bounds = {VisitTime[p], req.dayEnd - from, Closes[p] - from}
  OBVIOUS
<1>8. bounds \in SUBSET Nat /\ bounds # {}
  BY <1>0, <1>2, <1>5, <1>6, <1>7 DEF MinEveningVisit
<1>9. /\ Min(bounds) \in Nat /\ Min(bounds) <= req.dayEnd - from /\ Min(bounds) <= Closes[p] - from
  BY <1>7, <1>8, MinOfNats
<1>a. StrollTime(p, from) = Min(bounds)
  BY <1>7 DEF StrollTime
<1>. QED
  BY <1>0, <1>5, <1>6, <1>9, <1>a DEF Earlier

(* The evening prolongs the day to some hour.                              *)
LEMMA EveningBlocks ==
  ASSUME TypeOK, dinnerDone => clock >= DinnerTime, NEW stay \in Cities,
         NEW strolls, strolls \subseteq Strolls(stay, StrollFrom)
  PROVE  \E to \in Nat : Chain(EveningAway(stay, strolls), clock, to, req.dayEnd)
<1>0. /\ req \in Requests /\ clock \in Nat /\ dinnerDone \in BOOLEAN /\ lunchDone \in BOOLEAN
      /\ req.lunch \in Nat /\ req.middayRest \in BOOLEAN /\ stay \in Places
  BY Fields DEF TypeOK, Places
<1>1. PICK late \in BOOLEAN : late = LunchBeforeEvening
  BY DEF LunchBeforeEvening
<1>2. /\ dinnerDone => ~late
      /\ LunchAt \in Nat /\ clock <= LunchAt
  <2>1. dinnerDone => ~LunchBeforeEvening
    <3>1. clock \in EarlyLunchStart .. LateLunchLimit => clock < DinnerTime
      BY <1>0 DEF LateLunchLimit, EarlyLunchStart, DinnerTime
    <3>2. DinnerTime \in Nat
      BY DEF DinnerTime
    <3>3. LunchBeforeEvening => clock \in EarlyLunchStart .. LateLunchLimit
      BY DEF LunchBeforeEvening
    <3>. QED
      BY <3>1, <3>2, <3>3, <1>0
  <2>2. LunchAt \in Nat /\ clock <= LunchAt
    BY <1>0 DEF LunchAt, Later, LunchWindowStart
  <2>. QED
    BY <2>1, <2>2, <1>1
<1>3. PICK eaten : eaten = IF late THEN LunchAt + LunchTime ELSE clock
  OBVIOUS
<1>4. AfterLunch = IF late THEN LunchAt + LunchWithRest ELSE clock
  BY <1>1 DEF AfterLunch
<1>5. /\ eaten \in Nat /\ clock <= eaten /\ AfterLunch \in Nat /\ eaten <= AfterLunch
      /\ late /\ req.middayRest =>
            LunchAt + LunchTime = eaten /\ eaten + MiddayRestTime = AfterLunch
  BY <1>0, <1>2, <1>3, <1>4 DEF LunchWithRest, LunchTime, MiddayRestTime
<1>6. PICK table : table = IF dinnerDone THEN clock ELSE DinnerAt
  OBVIOUS
<1>7. /\ table \in Nat /\ AfterLunch <= table /\ StrollFrom \in Nat /\ table <= StrollFrom
      /\ ~dinnerDone => /\ DinnerAt = table /\ DinnerTime <= table
                        /\ table + Dinner = StrollFrom
  BY <1>0, <1>2, <1>4, <1>5, <1>6 DEF DinnerAt, DinnerStart, StrollFrom, Later, DinnerTime, Dinner
<1>8. PICK p : p = CHOOSE x \in strolls : TRUE
  OBVIOUS
<1>9. PICK end : end = IF strolls = {} THEN StrollFrom ELSE StrollFrom + StrollTime(p, StrollFrom)
  OBVIOUS
<1>10. strolls # {} => /\ p \in Pois /\ Opens[p] <= StrollFrom
                       /\ StrollTime(p, StrollFrom) \in Nat
                       /\ StrollFrom + StrollTime(p, StrollFrom) <= Earlier(Closes[p], req.dayEnd)
  <2>1. strolls # {} => p \in Strolls(stay, StrollFrom)
    BY <1>8
  <2>. QED
    BY <2>1, <1>7, StrollFacts
<1>11. end \in Nat /\ StrollFrom <= end
  BY <1>7, <1>9, <1>10
<1>a. Chain(When(late, Block("lunch", LunchAt, LunchTime, stay)), clock, eaten, req.dayEnd)
  <2>1. CASE late
    <3>1. LunchTime \in Nat /\ LunchAt + LunchTime <= eaten /\ "lunch" \in Kinds
      BY <2>1, <1>0, <1>2, <1>3 DEF LunchTime, Kinds
    <3>2. Chain(<<Block("lunch", LunchAt, LunchTime, stay)>>, clock, eaten, req.dayEnd)
      BY <3>1, <1>0, <1>2, <1>5, IdleBlock
    <3>. QED
      BY <2>1, <3>2 DEF When
  <2>2. CASE ~late
    BY <2>2, <1>0, <1>5, ChainNone DEF When
  <2>. QED
    BY <2>1, <2>2
<1>b. Chain(When(late /\ req.middayRest, Block("rest", LunchAt + LunchTime, MiddayRestTime, stay)),
            eaten, AfterLunch, req.dayEnd)
  <2>1. CASE late /\ req.middayRest
    <3>1. /\ LunchAt + LunchTime \in Nat /\ MiddayRestTime \in Nat /\ "rest" \in Kinds
          /\ eaten <= LunchAt + LunchTime /\ (LunchAt + LunchTime) + MiddayRestTime <= AfterLunch
      BY <2>1, <1>5 DEF MiddayRestTime, Kinds
    <3>2. Chain(<<Block("rest", LunchAt + LunchTime, MiddayRestTime, stay)>>,
                eaten, AfterLunch, req.dayEnd)
      BY <3>1, <1>0, <1>5, IdleBlock
    <3>. QED
      BY <2>1, <3>2 DEF When
  <2>2. CASE ~(late /\ req.middayRest)
    BY <2>2, <1>5, ChainNone DEF When
  <2>. QED
    BY <2>1, <2>2
<1>c. Chain(When(~dinnerDone /\ DinnerTime - AfterLunch >= FreeTimeThreshold,
                 Block("rest", AfterLunch, DinnerTime - AfterLunch, stay)),
            AfterLunch, table, req.dayEnd)
  <2>1. CASE ~dinnerDone /\ DinnerTime - AfterLunch >= FreeTimeThreshold
    <3>1. /\ DinnerTime - AfterLunch \in Nat /\ "rest" \in Kinds /\ AfterLunch <= AfterLunch
          /\ AfterLunch + (DinnerTime - AfterLunch) <= table
      BY <2>1, <1>5, <1>7 DEF DinnerTime, FreeTimeThreshold, Kinds
    <3>2. Chain(<<Block("rest", AfterLunch, DinnerTime - AfterLunch, stay)>>,
                AfterLunch, table, req.dayEnd)
      BY <3>1, <1>0, <1>5, <1>7, IdleBlock
    <3>. QED
      BY <2>1, <3>2 DEF When
  <2>2. CASE ~(~dinnerDone /\ DinnerTime - AfterLunch >= FreeTimeThreshold)
    BY <2>2, <1>5, <1>7, ChainNone DEF When
  <2>. QED
    BY <2>1, <2>2
<1>d. Chain(When(~dinnerDone, Block("dinner", DinnerAt, Dinner, stay)),
            table, StrollFrom, req.dayEnd)
  <2>1. CASE ~dinnerDone
    <3>1. Dinner \in Nat /\ "dinner" \in Kinds /\ table <= table
      BY <1>7 DEF Dinner, Kinds
    <3>2. Chain(<<Block("dinner", table, Dinner, stay)>>, table, StrollFrom, req.dayEnd)
      BY <2>1, <3>1, <1>0, <1>7, IdleBlock
    <3>. QED
      BY <2>1, <3>2, <1>7 DEF When
  <2>2. CASE dinnerDone
    BY <2>2, <1>7, ChainNone DEF When
  <2>. QED
    BY <2>1, <2>2, <1>0
<1>e. Chain(When(strolls # {}, Block("stroll", StrollFrom, end - StrollFrom, p)),
            StrollFrom, end, req.dayEnd)
  <2>1. CASE strolls # {}
    <3>1. PICK length : length = end - StrollFrom
      OBVIOUS
    <3>2. PICK b : b = Block("stroll", StrollFrom, length, p)
      OBVIOUS
    <3>3. length \in Nat /\ StrollFrom + length = end /\ p \in Places /\ "stroll" \in Kinds
      BY <2>1, <3>1, <1>7, <1>10, <1>11 DEF Places, Kinds
    <3>4. /\ b \in Blocks /\ b.kind = "stroll" /\ b.start = StrollFrom
          /\ b.length = length /\ b.what = p
      BY <3>2, <3>3, <1>7, BlockType
    <3>5. end <= Earlier(Closes[p], req.dayEnd)
      BY <2>1, <1>9, <1>10
    <3>6. InHours(b, req.dayEnd)
      BY <2>1, <3>3, <3>4, <3>5, <1>7, <1>10 DEF InHours
    <3>7. Chain(<<b>>, StrollFrom, end, req.dayEnd)
      <4>1. StrollFrom <= b.start /\ b.start + b.length <= end
        BY <3>3, <3>4, <1>7, <1>11
      <4>. QED
        BY <4>1, <3>4, <3>6, <1>7, <1>11, ChainOne
    <3>. QED
      BY <2>1, <3>1, <3>2, <3>7 DEF When
  <2>2. CASE strolls = {}
    BY <2>2, <1>7, <1>11, ChainNone DEF When
  <2>. QED
    BY <2>1, <2>2
<1>f. PICK to : to = Later(end, Bedtime)
  OBVIOUS
<1>g. Chain(<<Block("lodging", to, 0, stay)>>, end, to, req.dayEnd)
  <2>1. to \in Nat /\ end <= to /\ to + 0 <= to /\ 0 \in Nat /\ "lodging" \in Kinds
    BY <1>f, <1>11 DEF Later, Bedtime, Kinds
  <2>. QED
    BY <2>1, <1>0, <1>11, IdleBlock
<1>. DEFINE lunch   == When(late, Block("lunch", LunchAt, LunchTime, stay))
            rest    == When(late /\ req.middayRest,
                            Block("rest", LunchAt + LunchTime, MiddayRestTime, stay))
            free    == When(~dinnerDone /\ DinnerTime - AfterLunch >= FreeTimeThreshold,
                            Block("rest", AfterLunch, DinnerTime - AfterLunch, stay))
            dinner  == When(~dinnerDone, Block("dinner", DinnerAt, Dinner, stay))
            stroll  == When(strolls # {}, Block("stroll", StrollFrom, end - StrollFrom, p))
            lodging == <<Block("lodging", to, 0, stay)>>
<1>h. EveningAway(stay, strolls) = lunch \o rest \o free \o dinner \o stroll \o lodging
  BY <1>1, <1>8, <1>9, <1>f DEF EveningAway
<1>. HIDE DEF lunch, rest, free, dinner, stroll, lodging
<1>i. /\ Chain(lunch, clock, eaten, req.dayEnd)
      /\ Chain(rest, eaten, AfterLunch, req.dayEnd)
      /\ Chain(free, AfterLunch, table, req.dayEnd)
      /\ Chain(dinner, table, StrollFrom, req.dayEnd)
      /\ Chain(stroll, StrollFrom, end, req.dayEnd)
      /\ Chain(lodging, end, to, req.dayEnd)
  BY <1>a, <1>b, <1>c, <1>d, <1>e, <1>g DEF lunch, rest, free, dinner, stroll, lodging
<1>j. Chain(lunch \o rest \o free, clock, table, req.dayEnd)
  BY <1>i, ChainConcat
<1>k. Chain(lunch \o rest \o free \o dinner \o stroll \o lodging, clock, to, req.dayEnd)
  BY <1>i, <1>j, ChainConcat
<1>l. to \in Nat
  BY <1>f, <1>11 DEF Later, Bedtime
<1>. QED
  BY <1>h, <1>k, <1>l

-----------------------------------------------------------------------------
(* The inductive invariant. Beside the types it says of today what the     *)
(* properties say of the days behind; the cap is kept because what is left *)
(* of it covers the way on to the city of the night after every visit.     *)

TodayOnTime  == Chain(blocks, 0, clock, req.dayEnd)
DaysOnTime   == /\ plan \in Seq(Days)
                /\ \A d \in 1 .. Len(plan) :
                      \E to \in Nat : Chain(plan[d].blocks, 0, to, req.dayEnd)
DinnerIsLate == dinnerDone => clock >= DinnerTime
CapAhead     == /\ phase \in {"visits", "transfer"} /\ seen # {} =>
                      driving + Drive[place][EndCity(place)] <= req.cap
                /\ phase = "night" /\ seen # {} => driving <= req.cap
CapBehind    == \A d \in 1 .. Len(plan) : plan[d].seen # {} => plan[d].driving <= req.cap
Promised     == /\ req.returns => city = OriginCity
                /\ ~req.returns /\ req.destination # NoCity => city = req.destination
AtTheEnd     == /\ phase = "done" => IsLastDay
                /\ phase \in {"night", "done"} /\ IsLastDay => Promised
                /\ phase = "visits" /\ seen = {} /\ plan # <<>> => city = plan[Len(plan)].base

IInv == /\ TypeOK
        /\ TodayOnTime
        /\ DaysOnTime
        /\ DinnerIsLate
        /\ CapAhead
        /\ CapBehind
        /\ NothingLost
        /\ AtTheEnd

LEMMA InitInv == Init => IInv
<1>. SUFFICES ASSUME Init PROVE IInv
  OBVIOUS
<1>1. req \in Requests /\ route \in Routes /\ plan = <<>> /\ blocks = <<>>
  BY DEF Init
<1>2. req.firstDayStart \in Nat /\ req.days \in Nat /\ req.days >= 1
  BY <1>1, Fields
<1>3. TypeOK
  <2>1. OriginCity \in Cities /\ OriginCity \in Places
    BY MapAssumption, HoursAssumption DEF Places
  <2>2. Len(plan) = 0
    BY <1>1
  <2>3. day \in 1 .. req.days /\ Len(plan) = IF phase = "done" THEN day ELSE day - 1
    BY <1>2, <2>2 DEF Init
  <2>4. clock \in Nat /\ driving \in Nat /\ continuous \in Nat
    BY <1>2 DEF Init
  <2>5. place \in Places /\ city \in Cities /\ lastNight \in Cities /\ checkedIn \subseteq Cities
    BY <2>1 DEF Init
  <2>6. /\ phase \in {"visits", "transfer", "night", "done"}
        /\ pending \subseteq DOMAIN route /\ visited \subseteq Pois /\ seen \subseteq Pois
        /\ lunchDone \in BOOLEAN /\ dinnerDone \in BOOLEAN
    BY DEF Init
  <2>. QED
    BY <1>1, <2>3, <2>4, <2>5, <2>6 DEF TypeOK
<1>4. TodayOnTime
  <2>1. clock \in Nat /\ 0 <= clock
    BY <1>2 DEF Init
  <2>. QED
    BY <1>1, <2>1, ChainNone DEF TodayOnTime
<1>5. DaysOnTime /\ CapBehind
  <2>1. plan \in Seq(Days) /\ Len(plan) = 0
    BY <1>1
  <2>. QED
    BY <2>1 DEF DaysOnTime, CapBehind
<1>6. DinnerIsLate /\ CapAhead /\ AtTheEnd
  BY <1>1 DEF Init, DinnerIsLate, CapAhead, AtTheEnd
<1>7. NothingLost
  BY DEF Init, NothingLost
<1>. QED
  BY <1>3, <1>4, <1>5, <1>6, <1>7 DEF IInv

LEMMA VisitStep == IInv /\ VisitNext => IInv'
<1>. SUFFICES ASSUME IInv, VisitNext PROVE IInv'
  OBVIOUS
<1>0. /\ TypeOK /\ TodayOnTime /\ DaysOnTime /\ DinnerIsLate
      /\ CapBehind /\ NothingLost
  BY DEF IInv
<1>1. PICK i \in FeasibleNow : Visit(i) /\ phase = "visits"
  BY DEF VisitNext
<1>2. i \in pending /\ Feasible(route[i])
  BY <1>1 DEF FeasibleNow
<1>3. /\ req \in Requests /\ route \in Routes /\ i \in DOMAIN route /\ pending \subseteq DOMAIN route
      /\ visited \subseteq Pois /\ seen \subseteq Pois /\ checkedIn \subseteq Cities
      /\ clock \in Nat /\ driving \in Nat
      /\ lunchDone \in BOOLEAN /\ dinnerDone \in BOOLEAN
  BY <1>0, <1>2 DEF TypeOK
<1>4. route \in Seq(Pois) /\ \A a, b \in DOMAIN route : route[a] = route[b] => a = b
  BY <1>3, RouteAssumption
<1>5. PICK p \in Pois : p = route[i]
  <2>1. route[i] \in Pois
    BY <1>3, <1>4
  <2>. QED
    BY <2>1
<1>6. PICK at : at = Placement(p)
  OBVIOUS
<1>7. /\ at.leg \in Nat /\ at.leg = Drive[place][p] /\ at.start \in Nat
      /\ at.leave \in Nat /\ at.arrive \in Nat /\ at.settled \in Nat /\ at.ready \in Nat
      /\ at.leave = clock \/ at.leave = clock + RestStop
      /\ at.arrive = at.leave + OnTheRoad(at.leg)
      /\ at.settled = at.arrive + (IF ChecksIn(p) THEN CheckInRest ELSE 0)
      /\ at.meal = MealBefore(at.settled) /\ at.meal \in {"lunch", "dinner", "none"}
      /\ at.ready = at.settled + MealTime(at.meal)
      /\ at.start = Later(at.ready, Opens[p])
  BY <1>0, <1>6, PlacementTimes
<1>8. OpenForVisit(p, at) /\ FitsToday(p, at)
  BY <1>2, <1>5, <1>6 DEF Feasible
<1>9. /\ CityOf[p] \in Cities /\ p \in Places /\ VisitTime[p] \in Nat
      /\ Drive[p][EndCity(p)] \in Nat /\ req.cap \in Nat /\ req.dayEnd \in Nat
  <2>1. CityOf[p] \in Cities /\ p \in Places /\ VisitTime[p] \in Nat
    BY MapAssumption, HoursAssumption DEF Places
  <2>2. EndCity(p) \in Places
    BY <1>3, <2>1, FinalType DEF Places
  <2>. QED
    BY <1>3, <2>1, <2>2, DriveNat, Fields
<1>a. /\ driving + at.leg + Drive[p][EndCity(p)] <= req.cap
      /\ at.start + VisitTime[p] <= req.dayEnd
  BY <1>8, <1>7, <1>9 DEF FitsToday
<1>b. /\ clock' = at.start + VisitTime[p] /\ driving' = driving + at.leg /\ continuous' = 0
      /\ checkedIn' = (IF ChecksIn(p) THEN checkedIn \cup {CityOf[p]} ELSE checkedIn)
      /\ lunchDone' = (lunchDone \/ at.meal = "lunch")
      /\ dinnerDone' = (dinnerDone \/ at.meal = "dinner")
      /\ seen' = seen \cup {p} /\ visited' = visited \cup {p} /\ pending' = pending \ {i}
      /\ place' = p /\ city' = CityOf[p]
      /\ UNCHANGED <<req, route, phase, day, lastNight, plan>>
  BY <1>1, <1>5, <1>6 DEF Visit, Take, input
<1>c. clock' \in Nat /\ clock' >= at.settled /\ at.settled >= clock
  <2>1. OnTheRoad(at.leg) \in Nat /\ MealTime(at.meal) \in Nat /\ Opens[p] \in Nat
    <3>1. OnTheRoad(at.leg) \in Nat
      BY <1>0, <1>7, RestsNat DEF TypeOK
    <3>2. req.lunch \in Nat
      BY <1>3, Fields
    <3>3. MealTime(at.meal) \in Nat
      BY <1>7, <3>2 DEF MealTime, LunchWithRest, LunchTime, MiddayRestTime, Dinner
    <3>. QED
      BY <3>1, <3>3, MapAssumption, HoursAssumption
  <2>2. at.settled >= clock
    BY <2>1, <1>3, <1>7 DEF RestStop, CheckInRest
  <2>3. at.start >= at.settled
    BY <2>1, <1>7 DEF Later
  <2>. QED
    BY <2>2, <2>3, <1>7, <1>9, <1>b
<1>d. TypeOK'
  <2>1. driving' \in Nat /\ continuous' \in Nat
    BY <1>3, <1>7, <1>b
  <2>2. lunchDone' \in BOOLEAN /\ dinnerDone' \in BOOLEAN
    BY <1>3, <1>b
  <2>3. /\ pending' \subseteq DOMAIN route' /\ visited' \subseteq Pois /\ seen' \subseteq Pois
        /\ checkedIn' \subseteq Cities /\ place' \in Places /\ city' \in Cities
    BY <1>3, <1>9, <1>b
  <2>. QED
    BY <2>1, <2>2, <2>3, <1>0, <1>b, <1>c DEF TypeOK
<1>e. TodayOnTime'
  <2>1. Chain(blocks', 0, at.start + VisitTime[p], req.dayEnd)
    <3>1. Chain(blocks, 0, clock, req.dayEnd)
      BY <1>0 DEF TodayOnTime
    <3>. QED
      BY <1>0, <1>1, <1>5, <1>6, <1>8, <1>a, <3>1, VisitBlocks DEF Visit
  <2>. QED
    BY <2>1, <1>b DEF TodayOnTime
<1>f. DaysOnTime' /\ CapBehind'
  BY <1>0, <1>b DEF DaysOnTime, CapBehind
<1>g. DinnerIsLate'
  <2>1. at.meal = "dinner" => at.settled \in DinnerTime .. DinnerWindowEnd
    BY <1>7 DEF MealBefore
  <2>2. DinnerTime \in Nat /\ DinnerWindowEnd \in Nat
    BY DEF DinnerTime, DinnerWindowEnd
  <2>3. at.meal = "dinner" => at.settled >= DinnerTime
    BY <2>1, <2>2, <1>7
  <2>. QED
    BY <2>2, <2>3, <1>0, <1>3, <1>7, <1>b, <1>c DEF DinnerIsLate
<1>h. CapAhead'
  <2>1. EndCity(p)' = EndCity(p)
    BY <1>b DEF EndCity, IsLastDay, FinalCity
  <2>2. driving' + Drive[place'][EndCity(place)'] <= req.cap
    BY <1>a, <1>b, <2>1 DEF EndCity, IsLastDay, FinalCity
  <2>. QED
    BY <1>1, <1>b, <2>2 DEF CapAhead
<1>i. NothingLost'
  BY <1>0, <1>3, <1>4, <1>5, <1>b DEF NothingLost
<1>j. AtTheEnd'
  BY <1>1, <1>b DEF AtTheEnd
<1>. QED
  BY <1>d, <1>e, <1>f, <1>g, <1>h, <1>i, <1>j DEF IInv

LEMMA EndVisitsStep == IInv /\ EndVisits => IInv'
<1>. SUFFICES ASSUME IInv, EndVisits PROVE IInv'
  OBVIOUS
<1>1. /\ phase = "visits" /\ phase' = "transfer"
      /\ UNCHANGED <<req, route, day, pending, visited, seen, clock, driving, continuous,
                     lunchDone, dinnerDone, place, city, lastNight, checkedIn, blocks, plan>>
  BY DEF EndVisits, input, today
<1>2. TypeOK'
  BY <1>1 DEF IInv, TypeOK
<1>3. TodayOnTime' /\ DaysOnTime' /\ DinnerIsLate' /\ CapBehind' /\ NothingLost'
  BY <1>1 DEF IInv, TodayOnTime, DaysOnTime, DinnerIsLate, CapBehind, NothingLost
<1>4. CapAhead' /\ AtTheEnd'
  BY <1>1 DEF IInv, CapAhead, AtTheEnd, EndCity, IsLastDay, FinalCity
<1>. QED
  BY <1>2, <1>3, <1>4 DEF IInv

LEMMA TransferStep == IInv /\ Transfer => IInv'
<1>. SUFFICES ASSUME IInv, Transfer PROVE IInv'
  OBVIOUS
<1>0. /\ TypeOK /\ TodayOnTime /\ DaysOnTime /\ DinnerIsLate
      /\ CapAhead /\ CapBehind /\ NothingLost
  BY DEF IInv
<1>1. /\ phase = "transfer" /\ phase' = "night"
      /\ UNCHANGED <<req, route, day, pending, visited, seen, lastNight, checkedIn, plan>>
  BY DEF Transfer, input
<1>2. PICK stay \in StayCity :
         IF stay = city THEN UNCHANGED <<blocks, today, place, city>> ELSE DriveTo(stay)
  BY DEF Transfer
<1>3. /\ req \in Requests /\ clock \in Nat /\ driving \in Nat /\ continuous \in Nat
      /\ place \in Places /\ city \in Cities
      /\ lunchDone \in BOOLEAN /\ dinnerDone \in BOOLEAN /\ req.cap \in Nat
  BY <1>0, Fields DEF TypeOK
<1>4. /\ stay \in Cities /\ stay \in Places
      /\ seen # {} => stay = EndCity(place)
      /\ IsLastDay => stay = FinalCity(place)
  BY <1>0, <1>2, StayType DEF Places
<1>5. Drive[place][stay] \in Nat
  BY <1>3, <1>4, DriveNat
<1>6. /\ city' = stay /\ place' \in Places
      /\ driving' \in Nat /\ driving' <= driving + Drive[place][stay]
      /\ continuous' \in Nat /\ lunchDone' \in BOOLEAN /\ dinnerDone' = dinnerDone
      /\ clock' \in Nat /\ clock' >= clock
      /\ Chain(blocks', 0, clock', req.dayEnd)
  <2>1. CASE stay = city
    BY <2>1, <1>0, <1>2, <1>3, <1>5 DEF today, TodayOnTime
  <2>2. CASE stay # city
    <3>1. DriveTo(stay) /\ Chain(blocks, 0, clock, req.dayEnd)
      BY <2>2, <1>0, <1>2 DEF TodayOnTime
    <3>2. /\ city' = stay /\ place' = stay /\ driving' = driving + Drive[place][stay]
          /\ continuous' = 0 /\ lunchDone' \in BOOLEAN /\ dinnerDone' = dinnerDone
      BY <3>1 DEF DriveTo, Arrive
    <3>3. /\ clock' \in Nat /\ clock' >= clock
          /\ Chain(blocks', 0, clock', req.dayEnd)
      BY <3>1, <1>0, <1>4, DriveToBlocks
    <3>. QED
      BY <3>2, <3>3, <1>3, <1>4, <1>5
  <2>. QED
    BY <2>1, <2>2
<1>7. TypeOK'
  BY <1>0, <1>1, <1>4, <1>6 DEF TypeOK
<1>8. TodayOnTime'
  BY <1>1, <1>6 DEF TodayOnTime
<1>9. DaysOnTime' /\ CapBehind' /\ NothingLost'
  BY <1>0, <1>1 DEF DaysOnTime, CapBehind, NothingLost
<1>a. DinnerIsLate'
  BY <1>0, <1>3, <1>6 DEF DinnerIsLate, DinnerTime
<1>b. CapAhead'
  <2>1. seen # {} => driving + Drive[place][stay] <= req.cap
    BY <1>0, <1>1, <1>4 DEF CapAhead
  <2>2. seen # {} => driving' <= req.cap
    BY <2>1, <1>3, <1>5, <1>6
  <2>. QED
    BY <2>2, <1>1 DEF CapAhead
<1>c. AtTheEnd'
  <2>1. IsLastDay => (Promised)'
    BY <1>1, <1>4, <1>6 DEF Promised, FinalCity
  <2>. QED
    BY <2>1, <1>1 DEF AtTheEnd, IsLastDay
<1>. QED
  BY <1>7, <1>8, <1>9, <1>a, <1>b, <1>c DEF IInv

LEMMA NightStep == IInv /\ Night => IInv'
<1>. SUFFICES ASSUME IInv, Night PROVE IInv'
  OBVIOUS
<1>0. /\ TypeOK /\ TodayOnTime /\ DaysOnTime /\ DinnerIsLate
      /\ CapAhead /\ CapBehind /\ NothingLost /\ AtTheEnd
  BY DEF IInv
<1>1. /\ req \in Requests /\ day \in 1 .. req.days /\ phase = "night"
      /\ clock \in Nat /\ driving \in Nat /\ city \in Cities /\ seen \subseteq Pois
      /\ visited \subseteq Pois /\ pending \subseteq DOMAIN route /\ checkedIn \subseteq Cities
      /\ plan \in Seq(Days) /\ Len(plan) = day - 1 /\ req.days \in Nat
      /\ req.dayStart \in Nat
  BY <1>0, Fields DEF Night, TypeOK, DaysOnTime
<1>2. PICK strolls : strolls = IF ~IsLastDay /\ city # OriginCity
                               THEN Strolls(city, StrollFrom) ELSE {}
  OBVIOUS
<1>3. PICK evening : evening = IF ~IsLastDay /\ city # OriginCity
                               THEN EveningAway(city, strolls) ELSE <<>>
  OBVIOUS
<1>4. PICK behind : behind = [blocks |-> blocks \o evening, base |-> city,
                              driving |-> driving, seen |-> seen]
  OBVIOUS
<1>5. /\ plan' = Append(plan, behind)
      /\ visited' = visited \cup strolls
      /\ pending' = {i \in pending : route[i] \notin strolls}
      /\ seen' = {} /\ driving' = 0 /\ continuous' = 0
      /\ lunchDone' = FALSE /\ dinnerDone' = FALSE
      /\ checkedIn' = (IF IsLastDay THEN checkedIn ELSE checkedIn \cup {city})
      /\ lastNight' = (IF IsLastDay THEN lastNight ELSE city)
      /\ UNCHANGED <<req, route, place, city>>
  BY <1>2, <1>3, <1>4 DEF Night, input
<1>6. /\ IsLastDay => phase' = "done" /\ blocks' = <<>> /\ clock' = 0 /\ day' = day
      /\ ~IsLastDay => /\ phase' = "visits" /\ day' = day + 1
                       /\ blocks' = <<Block("breakfast", req.dayStart, Breakfast, city)>>
                       /\ clock' = req.dayStart + Breakfast
  BY DEF Night
<1>7. StrollFrom \in Nat
  <2>1. clock \in Nat /\ dinnerDone \in BOOLEAN /\ lunchDone \in BOOLEAN
        /\ req.lunch \in Nat /\ req.middayRest \in BOOLEAN
    BY <1>0, <1>1, Fields DEF TypeOK
  <2>2. LunchAt \in Nat
    BY <2>1 DEF LunchAt, Later, LunchWindowStart
  <2>3. AfterLunch \in Nat
    BY <2>1, <2>2 DEF AfterLunch, LunchWithRest, LunchTime, MiddayRestTime
  <2>4. DinnerAt \in Nat
    BY <2>3 DEF DinnerAt, DinnerStart, Later, DinnerTime
  <2>. QED
    BY <2>1, <2>4 DEF StrollFrom, Dinner
<1>8. strolls \subseteq Pois
  BY <1>0, <1>1, <1>2, <1>7, StrollFacts
<1>9. \E to \in Nat : Chain(blocks \o evening, 0, to, req.dayEnd)
  <2>1. PICK to \in Nat : Chain(evening, clock, to, req.dayEnd)
    <3>1. CASE ~IsLastDay /\ city # OriginCity
      <4>1. strolls \subseteq Strolls(city, StrollFrom)
        BY <3>1, <1>2
      <4>2. \E to \in Nat : Chain(EveningAway(city, strolls), clock, to, req.dayEnd)
        BY <4>1, <1>0, <1>1, EveningBlocks DEF DinnerIsLate
      <4>. QED
        BY <3>1, <4>2, <1>3
    <3>2. CASE ~(~IsLastDay /\ city # OriginCity)
      <4>1. Chain(<<>>, clock, clock, req.dayEnd)
        BY <1>1, ChainNone
      <4>. QED
        BY <3>2, <4>1, <1>1, <1>3
    <3>. QED
      BY <3>1, <3>2
  <2>. QED
    BY <2>1, <1>0, ChainConcat DEF TodayOnTime
<1>a. behind \in Days
  <2>1. blocks \o evening \in Seq(Blocks)
    BY <1>9 DEF Chain
  <2>. QED
    BY <2>1, <1>1, <1>4 DEF Days
<1>b. plan' \in Seq(Days) /\ Len(plan') = Len(plan) + 1
  <2>1. plan' \in Seq(Days)
    BY <1>1, <1>5, <1>a, AppendProperties
  <2>2. Len(plan') = Len(plan) + 1
    BY <1>1, <1>5, <1>a, AppendProperties
  <2>. QED
    BY <2>1, <2>2
<1>c. /\ \A d \in 1 .. Len(plan) : plan'[d] = plan[d]
      /\ plan'[Len(plan) + 1] = behind
  BY <1>1, <1>5, <1>a, AppendProperties
<1>d. behind.driving = driving /\ behind.seen = seen /\ behind.base = city
      /\ behind.blocks = blocks \o evening
  BY <1>4
<1>e. ASSUME NEW d \in 1 .. Len(plan')
      PROVE  \/ d \in 1 .. Len(plan) /\ plan'[d] = plan[d]
             \/ d = Len(plan) + 1 /\ plan'[d] = behind
  <2>1. d \in 1 .. Len(plan) \/ d = Len(plan) + 1
    BY <1>1, <1>b
  <2>. QED
    BY <2>1, <1>c
<1>f. IsLastDay <=> day = req.days
  BY DEF IsLastDay
<1>g. TypeOK'
  <2>1. /\ day' \in 1 .. req'.days
        /\ Len(plan') = IF phase' = "done" THEN day' ELSE day' - 1
    BY <1>1, <1>5, <1>6, <1>b, <1>f
  <2>2. clock' \in Nat /\ driving' \in Nat /\ continuous' \in Nat
    BY <1>1, <1>5, <1>6 DEF Breakfast
  <2>3. pending' \subseteq DOMAIN route' /\ visited' \subseteq Pois /\ seen' \subseteq Pois
    BY <1>1, <1>5, <1>8
  <2>4. lastNight' \in Cities /\ checkedIn' \subseteq Cities
    BY <1>0, <1>1, <1>5 DEF TypeOK
  <2>. QED
    BY <2>1, <2>2, <2>3, <2>4, <1>0, <1>5, <1>6 DEF TypeOK
<1>h. TodayOnTime'
  <2>1. CASE IsLastDay
    <3>1. Chain(<<>>, 0, 0, req.dayEnd)
      BY ChainNone
    <3>. QED
      BY <2>1, <3>1, <1>5, <1>6 DEF TodayOnTime
  <2>2. CASE ~IsLastDay
    <3>1. /\ Breakfast \in Nat /\ "breakfast" \in Kinds /\ 0 <= req.dayStart
          /\ req.dayStart + Breakfast \in Nat /\ city \in Places
      BY <1>1 DEF Breakfast, Kinds, Places
    <3>2. Chain(<<Block("breakfast", req.dayStart, Breakfast, city)>>,
                0, req.dayStart + Breakfast, req.dayEnd)
      BY <3>1, <1>1, IdleBlock
    <3>. QED
      BY <2>2, <3>2, <1>5, <1>6 DEF TodayOnTime
  <2>. QED
    BY <2>1, <2>2
<1>i. DaysOnTime'
  <2>1. ASSUME NEW d \in 1 .. Len(plan')
        PROVE  \E to \in Nat : Chain(plan'[d].blocks, 0, to, req.dayEnd)
    BY <1>0, <1>9, <1>d, <1>e DEF DaysOnTime
  <2>. QED
    BY <2>1, <1>5, <1>b DEF DaysOnTime
<1>j. CapBehind'
  <2>1. ASSUME NEW d \in 1 .. Len(plan'), plan'[d].seen # {}
        PROVE  plan'[d].driving <= req.cap
    <3>1. CASE d \in 1 .. Len(plan) /\ plan'[d] = plan[d]
      BY <3>1, <2>1, <1>0 DEF CapBehind
    <3>2. CASE d = Len(plan) + 1 /\ plan'[d] = behind
      BY <3>2, <2>1, <1>0, <1>1, <1>d DEF CapAhead
    <3>. QED
      BY <3>1, <3>2, <1>e
  <2>. QED
    BY <2>1, <1>5 DEF CapBehind
<1>k. NothingLost'
  BY <1>0, <1>1, <1>5 DEF NothingLost
<1>l. DinnerIsLate' /\ CapAhead'
  BY <1>5, <1>6 DEF DinnerIsLate, CapAhead
<1>m. AtTheEnd'
  <2>1. phase' = "done" => IsLastDay'
    BY <1>5, <1>6 DEF IsLastDay
  <2>2. phase' \in {"night", "done"} /\ IsLastDay' => Promised'
    <3>1. phase' \in {"night", "done"} => IsLastDay
      BY <1>6
    <3>2. IsLastDay => Promised
      BY <1>0, <1>1 DEF AtTheEnd
    <3>. QED
      BY <3>1, <3>2, <1>5 DEF Promised
  <2>3. city' = plan'[Len(plan')].base
    BY <1>1, <1>5, <1>b, <1>c, <1>d
  <2>. QED
    BY <2>1, <2>2, <2>3 DEF AtTheEnd
<1>. QED
  BY <1>g, <1>h, <1>i, <1>j, <1>k, <1>l, <1>m DEF IInv

LEMMA StutterStep == IInv /\ UNCHANGED vars => IInv'
<1>. SUFFICES ASSUME IInv, UNCHANGED vars PROVE IInv'
  OBVIOUS
<1>1. UNCHANGED <<req, route, phase, day, pending, visited, seen, clock, driving, continuous,
                  lunchDone, dinnerDone, place, city, lastNight, checkedIn, blocks, plan>>
  BY DEF vars, input, today
<1>2. TypeOK'
  BY <1>1 DEF IInv, TypeOK
<1>3. TodayOnTime' /\ DaysOnTime' /\ DinnerIsLate' /\ CapBehind' /\ NothingLost'
  BY <1>1 DEF IInv, TodayOnTime, DaysOnTime, DinnerIsLate, CapBehind, NothingLost
<1>4. CapAhead' /\ AtTheEnd'
  BY <1>1 DEF IInv, CapAhead, AtTheEnd, Promised, EndCity, IsLastDay, FinalCity
<1>. QED
  BY <1>2, <1>3, <1>4 DEF IInv

(* The inductive invariant holds in every schedule.                        *)
THEOREM ScheduleInvariant == Spec => []IInv
<1>1. IInv /\ [Next]_vars => IInv'
  BY VisitStep, EndVisitsStep, TransferStep, NightStep, StutterStep DEF Next
<1>. QED
  BY InitInv, <1>1, PTL DEF Spec

-----------------------------------------------------------------------------
(* What it says of the plan.                                               *)

(* Every variable keeps its type, and the plan has one entry per day.      *)
THEOREM ScheduleTypes == Spec => []TypeOK
<1>1. IInv => TypeOK
  BY DEF IInv
<1>. QED
  BY <1>1, ScheduleInvariant, PTL

(* The blocks of a day of the schedule, today's included, form a chain.    *)
LEMMA EveryDayIsAChain ==
  ASSUME IInv, NEW bs \in DayBlocks
  PROVE  \E to \in Nat : Chain(bs, 0, to, req.dayEnd)
<1>1. CASE bs = blocks
  BY <1>1 DEF IInv, TodayOnTime, TypeOK
<1>2. CASE bs # blocks
  <2>1. plan \in Seq(Days)
    BY DEF IInv, DaysOnTime
  <2>2. PICK d \in 1 .. Len(plan) : bs = plan[d].blocks
    BY <2>1, <1>2 DEF DayBlocks
  <2>. QED
    BY <2>2 DEF IInv, DaysOnTime
<1>. QED
  BY <1>1, <1>2

LEMMA LivedDays == IInv => BlocksFollowEachOther
<1>. SUFFICES ASSUME IInv, NEW bs \in DayBlocks, NEW i \in 1 .. Len(bs) - 1
              PROVE  bs[i].start + bs[i].length <= bs[i + 1].start
  BY DEF BlocksFollowEachOther
<1>1. PICK to \in Nat : Chain(bs, 0, to, req.dayEnd)
  BY EveryDayIsAChain
<1>2. bs \in Seq(Blocks) /\ Len(bs) \in Nat
  BY <1>1 DEF Chain
<1>3. i \in 1 .. Len(bs) /\ i + 1 \in 1 .. Len(bs) /\ i < i + 1
  BY <1>2
<1>. QED
  BY <1>1, <1>3 DEF Chain

(* No block of a day starts before the one above it has ended: whatever    *)
(* the map and the wishes, the hours the scheduler writes can be lived.    *)
THEOREM DaysCanBeLived == Spec => []BlocksFollowEachOther
BY LivedDays, ScheduleInvariant, PTL

LEMMA OpenDoors == IInv => VisitsInsideHours
<1>. SUFFICES ASSUME IInv, NEW bs \in DayBlocks, NEW i \in Sights(bs)
              PROVE  /\ bs[i].start >= Opens[bs[i].what]
                     /\ bs[i].start + bs[i].length <= Earlier(Closes[bs[i].what], req.dayEnd)
  BY DEF VisitsInsideHours
<1>1. PICK to \in Nat : Chain(bs, 0, to, req.dayEnd)
  BY EveryDayIsAChain
<1>2. bs \in Seq(Blocks)
  BY <1>1 DEF Chain
<1>3. i \in 1 .. Len(bs) /\ bs[i].kind \in {"visit", "stroll"}
  BY <1>2 DEF Sights
<1>. QED
  BY <1>1, <1>3 DEF Chain, InHours

(* Every visit and every stroll is within the hours of the place and       *)
(* before the end of the day, whatever meals and rests came before it.     *)
THEOREM VisitsAreInside == Spec => []VisitsInsideHours
BY OpenDoors, ScheduleInvariant, PTL

LEMMA KeptCap == IInv => CapOnSightseeing
<1>. SUFFICES ASSUME IInv PROVE CapOnSightseeing
  OBVIOUS
<1>1. plan \in Seq(Days) /\ CapBehind
  BY DEF IInv, DaysOnTime
<1>. QED
  BY <1>1 DEF CapOnSightseeing, CapBehind

(* A day with visits never drives past its cap.                            *)
THEOREM SightseeingKeepsTheCap == Spec => []CapOnSightseeing
BY KeptCap, ScheduleInvariant, PTL

(* A place of the route is visited or still in the queue, and never both.  *)
THEOREM NothingIsLost == Spec => []NothingLost
<1>1. IInv => NothingLost
  BY DEF IInv
<1>. QED
  BY <1>1, ScheduleInvariant, PTL

(* The trip ends where it was promised to, and the group wakes up in the   *)
(* city it went to bed in.                                                 *)
THEOREM TripEndsThere == Spec => []EndsWherePromised
<1>1. IInv => EndsWherePromised
  BY DEF IInv, AtTheEnd, Promised, EndsWherePromised
<1>. QED
  BY <1>1, ScheduleInvariant, PTL

-----------------------------------------------------------------------------
(* Days that can be borne. A part of a day has blocks of these kinds and   *)
(* shows these sights, each once; a meal in it is the only one of its kind *)
(* and at an hour for it, and its drives are rested.                       *)

MealBlocks == {"lunch", "dinner"}
Shows == {"visit", "stroll"}

InMeasure(b) ==
    /\ b.kind = "lunch" => b.start \in EarlyLunchStart .. LateLunchLimit
    /\ b.kind = "dinner" => b.start >= DinnerTime
    /\ b.kind = "drive" =>
          b.length - RestStop * b.rests <= ContinuousDriveLimit * (b.rests + 1)

Part(bs, kinds, sights) ==
    /\ bs \in Seq(Blocks)
    /\ \A i \in 1 .. Len(bs) : bs[i].kind \in kinds /\ InMeasure(bs[i])
    /\ \A i, j \in 1 .. Len(bs) : bs[i].kind = bs[j].kind /\ bs[i].kind \in MealBlocks => i = j
    /\ \A i, j \in 1 .. Len(bs) : j = i + 1 => ~(bs[i].kind = "drive" /\ bs[j].kind = "drive")
    /\ \A i \in 1 .. Len(bs) : bs[i].kind \in Shows => bs[i].what \in sights
    /\ \A p \in sights : \E i \in 1 .. Len(bs) : bs[i].kind \in Shows /\ bs[i].what = p
    /\ \A i, j \in 1 .. Len(bs) :
          bs[i].kind \in Shows /\ bs[j].kind \in Shows /\ bs[i].what = bs[j].what => i = j

\* One may drive on from here, and nothing is seen after dinner.
Rested(bs) == bs # <<>> => bs[Len(bs)].kind # "drive"
Quiet(bs)  == \A i, j \in 1 .. Len(bs) : bs[i].kind = "dinner" /\ bs[j].kind \in Shows => j < i

LEMMA PartNone == Part(<<>>, {}, {})
<1>1. <<>> \in Seq(Blocks) /\ Len(<<>>) = 0
  BY EmptySeq
<1>. QED
  BY <1>1 DEF Part

LEMMA PartOne ==
  ASSUME NEW b \in Blocks, InMeasure(b)
  PROVE  Part(<<b>>, {b.kind}, IF b.kind \in Shows THEN {b.what} ELSE {})
<1>1. <<b>> \in Seq(Blocks) /\ Len(<<b>>) = 1 /\ <<b>>[1] = b
  OBVIOUS
<1>2. PICK bs : bs = <<b>>
  OBVIOUS
<1>3. bs \in Seq(Blocks) /\ \A i \in 1 .. Len(bs) : i = 1 /\ bs[i] = b
  BY <1>1, <1>2
<1>4. Len(bs) = 1
  BY <1>1, <1>2
<1>. QED
  BY <1>2, <1>3, <1>4 DEF Part

LEMMA PartWider ==
  ASSUME NEW bs, NEW kinds, NEW more, NEW sights, Part(bs, kinds, sights), kinds \subseteq more
  PROVE  Part(bs, more, sights)
BY DEF Part

LEMMA PartShows ==
  ASSUME NEW bs, NEW kinds, NEW sights, Part(bs, kinds, sights)
  PROVE  sights = {bs[i].what : i \in Sights(bs)}
<1>1. DOMAIN bs = 1 .. Len(bs)
  BY DEF Part
<1>. QED
  BY <1>1 DEF Part, Sights, Shows

LEMMA PartConcat ==
  ASSUME NEW s, NEW t, NEW kinds, NEW more, NEW sights, NEW others,
         Part(s, kinds, sights), Part(t, more, others),
         kinds \cap more \cap MealBlocks = {}, sights \cap others = {},
         "drive" \notin kinds \/ "drive" \notin more \/ Rested(s)
  PROVE  Part(s \o t, kinds \cup more, sights \cup others)
<1>0. s \in Seq(Blocks) /\ t \in Seq(Blocks) /\ Len(s) \in Nat /\ Len(t) \in Nat
  BY DEF Part
<1>1. PICK u : u = s \o t
  OBVIOUS
<1>2. u \in Seq(Blocks) /\ Len(u) = Len(s) + Len(t)
  BY <1>0, <1>1, ConcatProperties
<1>4. \A i \in 1 .. Len(u) : u[i] = IF i <= Len(s) THEN s[i] ELSE t[i - Len(s)]
  BY <1>0, <1>1, <1>2, ConcatProperties
<1>5. \A i \in 1 .. Len(u) : \/ i \in 1 .. Len(s) /\ u[i] = s[i]
                             \/ i > Len(s) /\ i - Len(s) \in 1 .. Len(t) /\ u[i] = t[i - Len(s)]
  BY <1>0, <1>2, <1>4
<1>6. /\ \A i \in 1 .. Len(s) : i \in 1 .. Len(u) /\ u[i] = s[i]
      /\ \A i \in 1 .. Len(t) : /\ i + Len(s) \in 1 .. Len(u) /\ (i + Len(s)) - Len(s) = i
                                /\ ~(i + Len(s) <= Len(s))
  BY <1>0, <1>2, <1>4
<1>7. \A i \in 1 .. Len(t) : i + Len(s) \in 1 .. Len(u) /\ u[i + Len(s)] = t[i]
  BY <1>4, <1>6
<1>a. \A i \in 1 .. Len(u) : u[i].kind \in kinds \cup more /\ InMeasure(u[i])
  BY <1>5 DEF Part
<1>b. ASSUME NEW i \in 1 .. Len(u), NEW j \in 1 .. Len(u),
             u[i].kind = u[j].kind, u[i].kind \in MealBlocks
      PROVE  i = j
  <2>1. CASE i \in 1 .. Len(s) /\ j \in 1 .. Len(s)
    <3>1. u[i] = s[i] /\ u[j] = s[j]
      BY <2>1, <1>6
    <3>. QED
      BY <2>1, <3>1, <1>b DEF Part
  <2>2. CASE ~(i \in 1 .. Len(s)) /\ ~(j \in 1 .. Len(s))
    <3>1. PICK a \in 1 .. Len(t), b \in 1 .. Len(t) :
             a = i - Len(s) /\ b = j - Len(s) /\ u[i] = t[a] /\ u[j] = t[b]
      BY <2>2, <1>5
    <3>2. a = b
      BY <3>1, <1>b DEF Part
    <3>. QED
      BY <3>1, <3>2, <1>0
  <2>3. CASE i \in 1 .. Len(s) /\ ~(j \in 1 .. Len(s))
    <3>1. u[i].kind \in kinds /\ u[j].kind \in more
      BY <2>3, <1>5 DEF Part
    <3>. QED
      BY <3>1, <1>b
  <2>4. CASE ~(i \in 1 .. Len(s)) /\ j \in 1 .. Len(s)
    <3>1. u[i].kind \in more /\ u[j].kind \in kinds
      BY <2>4, <1>5 DEF Part
    <3>. QED
      BY <3>1, <1>b
  <2>. QED
    BY <2>1, <2>2, <2>3, <2>4
<1>c. ASSUME NEW i \in 1 .. Len(u), NEW j \in 1 .. Len(u), j = i + 1,
             u[i].kind = "drive", u[j].kind = "drive"
      PROVE  FALSE
  <2>1. CASE j \in 1 .. Len(s)
    <3>1. i \in 1 .. Len(s) /\ u[i] = s[i] /\ u[j] = s[j]
      BY <2>1, <1>0, <1>6, <1>c
    <3>. QED
      BY <2>1, <3>1, <1>c DEF Part
  <2>2. CASE i > Len(s)
    <3>1. PICK a \in 1 .. Len(t), b \in 1 .. Len(t) : b = a + 1 /\ u[i] = t[a] /\ u[j] = t[b]
      <4>1. /\ i - Len(s) \in 1 .. Len(t) /\ j - Len(s) \in 1 .. Len(t)
            /\ j - Len(s) = (i - Len(s)) + 1 /\ u[i] = t[i - Len(s)] /\ u[j] = t[j - Len(s)]
        BY <2>2, <1>0, <1>2, <1>4, <1>c
      <4>. QED
        BY <4>1
    <3>. QED
      BY <3>1, <1>c DEF Part
  <2>3. CASE i = Len(s)
    <3>1. /\ i \in 1 .. Len(s) /\ u[i] = s[i]
          /\ 1 \in 1 .. Len(t) /\ u[j] = t[1]
      BY <2>3, <1>0, <1>2, <1>4, <1>c
    <3>2. s # <<>>
      BY <3>1
    <3>3. s[Len(s)].kind = "drive" /\ "drive" \in kinds /\ "drive" \in more
      BY <2>3, <3>1, <1>c DEF Part
    <3>. QED
      BY <3>2, <3>3 DEF Rested
  <2>. QED
    BY <2>1, <2>2, <2>3, <1>0, <1>c
<1>d. \A i \in 1 .. Len(u) : u[i].kind \in Shows => u[i].what \in sights \cup others
  BY <1>5 DEF Part
<1>e. ASSUME NEW p \in sights \cup others
      PROVE  \E i \in 1 .. Len(u) : u[i].kind \in Shows /\ u[i].what = p
  <2>1. CASE p \in sights
    BY <2>1, <1>6 DEF Part
  <2>2. CASE p \in others
    <3>1. PICK i \in 1 .. Len(t) : t[i].kind \in Shows /\ t[i].what = p
      BY <2>2 DEF Part
    <3>2. PICK k \in 1 .. Len(u) : u[k] = t[i]
      BY <1>7
    <3>. QED
      BY <3>1, <3>2
  <2>. QED
    BY <2>1, <2>2
<1>f. ASSUME NEW i \in 1 .. Len(u), NEW j \in 1 .. Len(u),
             u[i].kind \in Shows, u[j].kind \in Shows, u[i].what = u[j].what
      PROVE  i = j
  <2>1. CASE i \in 1 .. Len(s) /\ j \in 1 .. Len(s)
    <3>1. u[i] = s[i] /\ u[j] = s[j]
      BY <2>1, <1>6
    <3>. QED
      BY <2>1, <3>1, <1>f DEF Part
  <2>2. CASE ~(i \in 1 .. Len(s)) /\ ~(j \in 1 .. Len(s))
    <3>1. PICK a \in 1 .. Len(t), b \in 1 .. Len(t) :
             a = i - Len(s) /\ b = j - Len(s) /\ u[i] = t[a] /\ u[j] = t[b]
      BY <2>2, <1>5
    <3>2. a = b
      BY <3>1, <1>f DEF Part
    <3>. QED
      BY <3>1, <3>2, <1>0
  <2>3. CASE i \in 1 .. Len(s) /\ ~(j \in 1 .. Len(s))
    <3>1. u[i].what \in sights /\ u[j].what \in others
      BY <2>3, <1>5, <1>f DEF Part
    <3>. QED
      BY <3>1, <1>f
  <2>4. CASE ~(i \in 1 .. Len(s)) /\ j \in 1 .. Len(s)
    <3>1. u[i].what \in others /\ u[j].what \in sights
      BY <2>4, <1>5, <1>f DEF Part
    <3>. QED
      BY <3>1, <1>f
  <2>. QED
    BY <2>1, <2>2, <2>3, <2>4
<1>. QED
  BY <1>1, <1>2, <1>a, <1>b, <1>c, <1>d, <1>e, <1>f DEF Part

\* Dinner is in the second part and nothing is seen there.
LEMMA QuietConcat ==
  ASSUME NEW s, NEW t, NEW kinds, NEW more, NEW sights,
         Part(s, kinds, sights), Part(t, more, {}), "dinner" \notin kinds
  PROVE  Quiet(s \o t)
<1>0. s \in Seq(Blocks) /\ t \in Seq(Blocks) /\ Len(s) \in Nat /\ Len(t) \in Nat
  BY DEF Part
<1>1. PICK u : u = s \o t
  OBVIOUS
<1>2. u \in Seq(Blocks) /\ Len(u) = Len(s) + Len(t)
  BY <1>0, <1>1, ConcatProperties
<1>4. \A i \in 1 .. Len(u) : u[i] = IF i <= Len(s) THEN s[i] ELSE t[i - Len(s)]
  BY <1>0, <1>1, <1>2, ConcatProperties
<1>5. \A i \in 1 .. Len(u) : \/ i \in 1 .. Len(s) /\ u[i] = s[i]
                             \/ i > Len(s) /\ i - Len(s) \in 1 .. Len(t) /\ u[i] = t[i - Len(s)]
  BY <1>0, <1>2, <1>4
<1>6. ASSUME NEW i \in 1 .. Len(u), NEW j \in 1 .. Len(u), u[i].kind = "dinner", u[j].kind \in Shows
      PROVE  j < i
  <2>1. i > Len(s)
    BY <1>5, <1>6 DEF Part
  <2>2. j \in 1 .. Len(s)
    BY <1>5, <1>6 DEF Part
  <2>. QED
    BY <2>1, <2>2, <1>0
<1>. QED
  BY <1>1, <1>6 DEF Quiet

\* A block that shows nothing, there or not.
LEMMA PartIdle ==
  ASSUME NEW kind \in Kinds \ Shows, NEW start \in Nat, NEW length \in Nat, NEW what \in Places,
         NEW condition \in BOOLEAN, kind # "drive",
         condition /\ kind = "lunch" => start \in EarlyLunchStart .. LateLunchLimit,
         condition /\ kind = "dinner" => start >= DinnerTime
  PROVE  Part(When(condition, Block(kind, start, length, what)), IF condition THEN {kind} ELSE {}, {})
<1>1. CASE condition
  <2>1. PICK b : b = Block(kind, start, length, what)
    OBVIOUS
  <2>2. b \in Blocks /\ b.kind = kind /\ b.start = start
    BY <2>1, BlockType
  <2>3. InMeasure(b)
    BY <1>1, <2>2 DEF InMeasure
  <2>4. Part(<<b>>, {kind}, {})
    <3>1. Part(<<b>>, {b.kind}, IF b.kind \in Shows THEN {b.what} ELSE {})
      BY <2>2, <2>3, PartOne
    <3>. QED
      BY <2>2, <3>1
  <2>. QED
    BY <1>1, <2>1, <2>4 DEF When
<1>2. CASE ~condition
  BY <1>2, PartNone DEF When
<1>. QED
  BY <1>1, <1>2

\* A drive has as many rests as its length asks for.
LEMMA PartDrive ==
  ASSUME continuous \in Nat, NEW leg \in Nat, NEW from \in Nat, NEW to \in Places
  PROVE  Part(<<DriveBlock(from, leg, RestsWithin(leg), to)>>, {"drive"}, {})
<1>1. PICK b : b = DriveBlock(from, leg, RestsWithin(leg), to)
  OBVIOUS
<1>2. /\ b = [kind |-> "drive", start |-> from, length |-> OnTheRoad(leg),
               what |-> to, rests |-> RestsWithin(leg)]
      /\ RestsWithin(leg) \in Nat /\ OnTheRoad(leg) \in Nat
  BY <1>1, RestsNat DEF DriveBlock, OnTheRoad
<1>3. /\ b \in Blocks /\ b.kind = "drive" /\ b.length = OnTheRoad(leg) /\ b.rests = RestsWithin(leg)
  BY <1>2 DEF Blocks, Kinds
<1>4. leg <= 120 * (RestsWithin(leg) + 1)
  <2>1. PICK counted \in Nat : counted = IF RestBefore(leg) THEN leg ELSE continuous + leg
    OBVIOUS
  <2>2. leg <= counted
    BY <2>1
  <2>3. RestsWithin(leg) = IF counted = 0 THEN 0 ELSE (counted - 1) \div 120
    BY <2>1 DEF RestsWithin, ContinuousDriveLimit
  <2>4. CASE counted = 0
    BY <2>2, <2>3, <2>4
  <2>5. CASE counted # 0
    <3>1. PICK n \in Nat : n = counted - 1
      BY <2>1, <2>5
    <3>2. n <= 120 * (n \div 120) + 119
      BY <3>1
    <3>. QED
      BY <2>1, <2>2, <2>3, <2>5, <3>1, <3>2
  <2>. QED
    BY <2>4, <2>5
<1>5. InMeasure(b)
  <2>1. OnTheRoad(leg) - 15 * RestsWithin(leg) = leg
    BY <1>2 DEF OnTheRoad, RestStop
  <2>. QED
    BY <1>3, <1>4, <2>1 DEF InMeasure, RestStop, ContinuousDriveLimit
<1>6. Part(<<b>>, {b.kind}, IF b.kind \in Shows THEN {b.what} ELSE {})
  BY <1>3, <1>5, PartOne
<1>. QED
  BY <1>1, <1>3, <1>6 DEF Shows

\* The last block of a longer day.
LEMMA LastBlock ==
  ASSUME NEW s \in Seq(Blocks), NEW b \in Blocks
  PROVE  Rested(s \o <<b>>) <=> b.kind # "drive"
<1>1. PICK t : t = <<b>>
  OBVIOUS
<1>2. t \in Seq(Blocks) /\ Len(t) = 1 /\ t[1] = b
  BY <1>1
<1>3. PICK u : u = s \o t
  OBVIOUS
<1>4. u \in Seq(Blocks) /\ Len(u) = Len(s) + 1 /\ Len(s) \in Nat
  <2>1. Len(s) \in Nat
    OBVIOUS
  <2>2. u \in Seq(Blocks) /\ Len(u) = Len(s) + Len(t)
    BY <1>2, <1>3, ConcatProperties
  <2>. QED
    BY <2>1, <2>2, <1>2
<1>5. u[Len(u)] = b /\ u # <<>>
  <2>1. Len(u) \in 1 .. Len(s) + Len(t) /\ ~(Len(u) <= Len(s)) /\ Len(u) - Len(s) = 1
    BY <1>2, <1>4
  <2>2. u[Len(u)] = t[Len(u) - Len(s)]
    BY <2>1, <1>2, <1>3, ConcatProperties
  <2>. QED
    BY <2>1, <2>2, <1>2, <1>4
<1>. QED
  BY <1>1, <1>3, <1>5 DEF Rested

-----------------------------------------------------------------------------
(* What a step adds to the day.                                            *)

\* The kinds of block that may be in a day so far.
KindsOf(lunch, dinner) ==
    {"drive", "rest", "check-in", "breakfast", "visit"}
        \cup (IF lunch THEN {"lunch"} ELSE {}) \cup (IF dinner THEN {"dinner"} ELSE {})

LEMMA RestBlock ==
  ASSUME NEW start \in Nat, NEW length \in Nat, NEW what \in Places
  PROVE  /\ Block("rest", start, length, what) \in Blocks
         /\ Block("rest", start, length, what).kind = "rest"
BY DEF Block, Blocks, Kinds

LEMMA RestedWhen ==
  ASSUME NEW s \in Seq(Blocks), Rested(s), NEW condition \in BOOLEAN, NEW b \in Blocks, b.kind # "drive"
  PROVE  Rested(s \o When(condition, b))
<1>1. CASE condition
  BY <1>1, LastBlock DEF When
<1>2. CASE ~condition
  <2>1. s \o <<>> = s
    OBVIOUS
  <2>. QED
    BY <1>2, <2>1 DEF When
<1>. QED
  BY <1>1, <1>2

LEMMA VisitParts ==
  ASSUME TypeOK, Part(blocks, KindsOf(lunchDone, dinnerDone), seen), Rested(blocks),
         NEW p \in Pois, p \notin seen, NEW i, p = route[i], Visit(i)
  PROVE  Part(blocks', KindsOf(lunchDone', dinnerDone'), seen \cup {p}) /\ Rested(blocks')
<1>. PICK at : at = Placement(p)
  OBVIOUS
<1>0. /\ req \in Requests /\ clock \in Nat /\ continuous \in Nat
      /\ req.lunch \in Nat /\ req.middayRest \in BOOLEAN
      /\ lunchDone \in BOOLEAN /\ dinnerDone \in BOOLEAN
      /\ p \in Places /\ CityOf[p] \in Places /\ VisitTime[p] \in Nat /\ Opens[p] \in Nat
  BY Fields, MapAssumption, HoursAssumption DEF TypeOK, Places
<1>1. /\ at.leg \in Nat /\ at.leave \in Nat /\ at.arrive \in Nat /\ at.settled \in Nat
      /\ at.ready \in Nat /\ at.start \in Nat
      /\ at.meal \in {"lunch", "dinner", "none"} /\ at.meal = MealBefore(at.settled)
      /\ at.start = Later(at.ready, Opens[p])
  BY PlacementTimes
<1>2. /\ at.meal = "lunch" => ~lunchDone /\ at.settled \in EarlyLunchStart .. LateLunchLimit
      /\ at.meal = "dinner" => ~dinnerDone /\ at.settled >= DinnerTime
  <2>1. /\ at.meal = "lunch" => /\ ~lunchDone /\ at.settled >= LunchWindowStart
                                /\ at.settled <= LunchWindowEnd \/ at.settled <= LateLunchLimit
        /\ at.meal = "dinner" => ~dinnerDone /\ at.settled \in DinnerTime .. DinnerWindowEnd
    BY <1>1 DEF MealBefore
  <2>. QED
    BY <2>1, <1>1 DEF EarlyLunchStart, LateLunchLimit, LunchWindowStart, LunchWindowEnd,
                      DinnerTime, DinnerWindowEnd
<1>3. /\ RestStop \in Nat /\ CheckInRest \in Nat /\ LunchTime \in Nat /\ MiddayRestTime \in Nat
      /\ Dinner \in Nat /\ at.settled + LunchTime \in Nat /\ at.start - at.ready \in Nat
  BY <1>0, <1>1 DEF RestStop, CheckInRest, LunchTime, MiddayRestTime, Dinner, Later
<1>4. /\ "rest" \in Kinds \ Shows /\ "check-in" \in Kinds \ Shows
      /\ "lunch" \in Kinds \ Shows /\ "dinner" \in Kinds \ Shows
  BY DEF Kinds, Shows
<1>5. ChecksIn(p) \in BOOLEAN
  BY DEF ChecksIn
<1>6. PICK visible \in BOOLEAN : visible = (at.start - at.ready >= VisibleWait)
  <2>1. CASE at.start - at.ready >= VisibleWait
    <3>1. (at.start - at.ready >= VisibleWait) = TRUE
      BY <2>1
    <3>. QED
      BY <3>1
  <2>2. CASE ~(at.start - at.ready >= VisibleWait)
    <3>1. (at.start - at.ready >= VisibleWait) = FALSE
      BY <2>2
    <3>. QED
      BY <3>1
  <2>. QED
    BY <2>1, <2>2
<1>7. PICK rests \in BOOLEAN : rests = (at.leave # clock)
  OBVIOUS
<1>8. PICK midday \in BOOLEAN : midday = (at.meal = "lunch" /\ req.middayRest)
  OBVIOUS
<1>9. PICK eats \in BOOLEAN : eats = (at.meal # "none")
  OBVIOUS
<1>. DEFINE rest1   == When(rests, Block("rest", clock, RestStop, p))
            drive   == <<DriveBlock(at.leave, at.leg, RestsWithin(at.leg), p)>>
            checkIn == When(ChecksIn(p), Block("check-in", at.arrive, CheckInRest, CityOf[p]))
            meal    == When(eats, Block(at.meal, at.settled,
                            IF at.meal = "dinner" THEN Dinner ELSE LunchTime, p))
            rest2   == When(midday, Block("rest", at.settled + LunchTime, MiddayRestTime, p))
            wait    == When(visible, Block("rest", at.ready, at.start - at.ready, p))
            visit   == <<Block("visit", at.start, VisitTime[p], p)>>
            before  == KindsOf(lunchDone, dinnerDone)
            courses == IF eats THEN {at.meal} ELSE {}
<1>a. Part(rest1, {"rest"}, {})
  <2>1. Part(rest1, IF rests THEN {"rest"} ELSE {}, {})
    BY <1>0, <1>3, <1>4, <1>7, PartIdle
  <2>. QED
    BY <2>1, PartWider
<1>b. Part(drive, {"drive"}, {})
  BY <1>0, <1>1, PartDrive
<1>c. Part(checkIn, {"check-in"}, {})
  <2>1. Part(checkIn, IF ChecksIn(p) THEN {"check-in"} ELSE {}, {})
    BY <1>0, <1>1, <1>3, <1>4, <1>5, PartIdle
  <2>. QED
    BY <2>1, PartWider
<1>d. Part(meal, courses, {})
  <2>1. CASE eats
    <3>1. at.meal \in Kinds \ Shows /\ at.meal # "drive"
      BY <2>1, <1>1, <1>4, <1>9
    <3>2. PICK length \in Nat : length = IF at.meal = "dinner" THEN Dinner ELSE LunchTime
      BY <1>3
    <3>. QED
      BY <2>1, <3>1, <3>2, <1>0, <1>1, <1>2, PartIdle
  <2>2. CASE ~eats
    BY <2>2, PartNone DEF When
  <2>. QED
    BY <2>1, <2>2
<1>e. Part(rest2, {"rest"}, {})
  <2>1. Part(rest2, IF midday THEN {"rest"} ELSE {}, {})
    BY <1>0, <1>3, <1>4, PartIdle
  <2>. QED
    BY <2>1, PartWider
<1>f. Part(wait, {"rest"}, {})
  <2>1. Part(wait, IF visible THEN {"rest"} ELSE {}, {})
    BY <1>0, <1>1, <1>3, <1>4, PartIdle
  <2>. QED
    BY <2>1, PartWider
<1>g. Part(visit, {"visit"}, {p}) /\ Block("visit", at.start, VisitTime[p], p) \in Blocks
  <2>1. PICK b : b = Block("visit", at.start, VisitTime[p], p)
    OBVIOUS
  <2>2. b \in Blocks /\ b.kind = "visit" /\ b.what = p
    <3>1. "visit" \in Kinds
      BY DEF Kinds
    <3>. QED
      BY <2>1, <3>1, <1>0, <1>1, BlockType
  <2>3. InMeasure(b)
    BY <2>2 DEF InMeasure
  <2>4. Part(<<b>>, {b.kind}, IF b.kind \in Shows THEN {b.what} ELSE {})
    BY <2>2, <2>3, PartOne
  <2>. QED
    BY <2>1, <2>2, <2>4 DEF Shows
<1>h. Rested(blocks \o rest1)
  <2>1. blocks \in Seq(Blocks)
    BY DEF Part
  <2>2. p \in Places /\ clock \in Nat /\ RestStop \in Nat
    BY <1>0, <1>3
  <2>3. /\ Block("rest", clock, RestStop, p) \in Blocks
        /\ Block("rest", clock, RestStop, p).kind = "rest"
    BY <2>2, RestBlock
  <2>. QED
    BY <2>1, <2>3, RestedWhen
<1>i. /\ before \cap {"rest"} \cap MealBlocks = {} /\ "drive" \notin {"rest"}
      /\ before \cap courses \cap MealBlocks = {}
      /\ "rest" \in before /\ "drive" \in before /\ "check-in" \in before /\ "visit" \in before
      /\ "drive" \notin courses /\ "rest" \notin MealBlocks /\ "drive" \notin MealBlocks
      /\ "check-in" \notin MealBlocks /\ "visit" \notin MealBlocks
  BY <1>1, <1>2, <1>9 DEF KindsOf, MealBlocks
<1>j. before \cup courses \subseteq
          KindsOf(lunchDone \/ at.meal = "lunch", dinnerDone \/ at.meal = "dinner")
  BY <1>1, <1>9 DEF KindsOf
<1>k. seen \cap {p} = {}
  OBVIOUS
<1>t. /\ blocks' = blocks \o rest1 \o drive \o checkIn \o meal \o rest2 \o wait \o visit
      /\ lunchDone' = (lunchDone \/ at.meal = "lunch")
      /\ dinnerDone' = (dinnerDone \/ at.meal = "dinner")
  BY <1>6, <1>7, <1>8, <1>9 DEF Visit
<1>. HIDE DEF rest1, drive, checkIn, meal, rest2, wait, visit, before, courses
<1>l. Part(blocks \o rest1, before, seen)
  <2>1. Part(blocks \o rest1, before \cup {"rest"}, seen \cup {})
    BY <1>a, <1>i, PartConcat DEF before
  <2>. QED
    BY <2>1, <1>i, PartWider
<1>m. Part(blocks \o rest1 \o drive, before, seen)
  <2>1. Part(blocks \o rest1 \o drive, before \cup {"drive"}, seen \cup {})
    BY <1>l, <1>b, <1>h, <1>i, PartConcat
  <2>. QED
    BY <2>1, <1>i, PartWider
<1>n. Part(blocks \o rest1 \o drive \o checkIn, before, seen)
  <2>1. Part(blocks \o rest1 \o drive \o checkIn, before \cup {"check-in"}, seen \cup {})
    BY <1>m, <1>c, <1>i, PartConcat
  <2>. QED
    BY <2>1, <1>i, PartWider
<1>o. Part(blocks \o rest1 \o drive \o checkIn \o meal, before \cup courses, seen)
  <2>1. Part(blocks \o rest1 \o drive \o checkIn \o meal, before \cup courses, seen \cup {})
    BY <1>n, <1>d, <1>i, PartConcat
  <2>. QED
    BY <2>1, PartWider
<1>p. Part(blocks \o rest1 \o drive \o checkIn \o meal \o rest2, before \cup courses, seen)
  <2>1. Part(blocks \o rest1 \o drive \o checkIn \o meal \o rest2,
             (before \cup courses) \cup {"rest"}, seen \cup {})
    BY <1>o, <1>e, <1>i, PartConcat
  <2>. QED
    BY <2>1, <1>i, PartWider
<1>q. Part(blocks \o rest1 \o drive \o checkIn \o meal \o rest2 \o wait, before \cup courses, seen)
  <2>1. Part(blocks \o rest1 \o drive \o checkIn \o meal \o rest2 \o wait,
             (before \cup courses) \cup {"rest"}, seen \cup {})
    BY <1>p, <1>f, <1>i, PartConcat
  <2>. QED
    BY <2>1, <1>i, PartWider
<1>r. Part(blocks \o rest1 \o drive \o checkIn \o meal \o rest2 \o wait \o visit,
            before \cup courses, seen \cup {p})
  <2>1. Part(blocks \o rest1 \o drive \o checkIn \o meal \o rest2 \o wait \o visit,
             (before \cup courses) \cup {"visit"}, seen \cup {p})
    BY <1>q, <1>g, <1>i, <1>k, PartConcat
  <2>. QED
    BY <2>1, <1>i, PartWider
<1>s. Rested(blocks \o rest1 \o drive \o checkIn \o meal \o rest2 \o wait \o visit)
  <2>1. PICK s : s = blocks \o rest1 \o drive \o checkIn \o meal \o rest2 \o wait
    OBVIOUS
  <2>2. s \in Seq(Blocks)
    BY <2>1, <1>q DEF Part
  <2>3. Block("visit", at.start, VisitTime[p], p).kind = "visit"
    BY DEF Block
  <2>. QED
    BY <2>1, <2>2, <2>3, <1>g, LastBlock DEF visit
<1>. QED
  <2>1. Part(blocks \o rest1 \o drive \o checkIn \o meal \o rest2 \o wait \o visit,
             KindsOf(lunchDone \/ at.meal = "lunch", dinnerDone \/ at.meal = "dinner"),
             seen \cup {p})
    BY <1>j, <1>r, PartWider
  <2>. QED
    BY <2>1, <1>s, <1>t

LEMMA DriveToParts ==
  ASSUME TypeOK, Part(blocks, KindsOf(lunchDone, dinnerDone), seen), Rested(blocks),
         NEW stay \in Cities, DriveTo(stay)
  PROVE  Part(blocks', KindsOf(lunchDone', dinnerDone'), seen)
<1>0. /\ req \in Requests /\ clock \in Nat /\ continuous \in Nat /\ place \in Places
      /\ city \in Places /\ stay \in Places
      /\ req.lunch \in Nat /\ req.middayRest \in BOOLEAN
      /\ lunchDone \in BOOLEAN /\ dinnerDone \in BOOLEAN
  BY Fields, MapAssumption, HoursAssumption DEF TypeOK, Places
<1>1. PICK leg \in Nat : leg = Drive[place][stay]
  BY <1>0, DriveNat
<1>2. PICK eats \in BOOLEAN : eats = LunchBeforeLeg(leg)
  BY DEF LunchBeforeLeg
<1>3. PICK fed \in Nat : fed = clock + (IF eats THEN LunchWithRest ELSE 0)
  BY <1>0 DEF LunchWithRest, LunchTime, MiddayRestTime
<1>4. PICK leave \in Nat : leave = fed + (IF RestBefore(leg) THEN RestStop ELSE 0)
  BY <1>3 DEF RestStop
<1>5. PICK rests \in BOOLEAN : rests = (leave # fed)
  OBVIOUS
<1>6. PICK midday \in BOOLEAN : midday = (eats /\ req.middayRest)
  OBVIOUS
<1>7. /\ blocks' = blocks \o When(eats, Block("lunch", clock, LunchTime, city))
              \o When(midday, Block("rest", clock + LunchTime, MiddayRestTime, city))
              \o When(rests, Block("rest", fed, RestStop, stay))
              \o <<DriveBlock(leave, leg, RestsWithin(leg), stay)>>
      /\ lunchDone' = (lunchDone \/ eats) /\ dinnerDone' = dinnerDone
  BY <1>1, <1>2, <1>3, <1>4, <1>5, <1>6 DEF DriveTo
<1>8. eats => ~lunchDone /\ clock \in EarlyLunchStart .. LateLunchLimit
  <2>1. eats => ~lunchDone /\ clock \in EarlyLunchStart .. LunchWindowEnd
    BY <1>2 DEF LunchBeforeLeg
  <2>. QED
    BY <2>1, <1>0 DEF EarlyLunchStart, LunchWindowEnd, LateLunchLimit
<1>9. /\ RestStop \in Nat /\ LunchTime \in Nat /\ MiddayRestTime \in Nat
      /\ clock + LunchTime \in Nat
      /\ "rest" \in Kinds \ Shows /\ "lunch" \in Kinds \ Shows
  BY <1>0 DEF RestStop, LunchTime, MiddayRestTime, Kinds, Shows
<1>. DEFINE lunch   == When(eats, Block("lunch", clock, LunchTime, city))
            rest1   == When(midday, Block("rest", clock + LunchTime, MiddayRestTime, city))
            rest2   == When(rests, Block("rest", fed, RestStop, stay))
            drive   == <<DriveBlock(leave, leg, RestsWithin(leg), stay)>>
            before  == KindsOf(lunchDone, dinnerDone)
            courses == IF eats THEN {"lunch"} ELSE {}
<1>a. Part(lunch, courses, {})
  BY <1>0, <1>8, <1>9, PartIdle
<1>b. Part(rest1, {"rest"}, {})
  <2>1. Part(rest1, IF midday THEN {"rest"} ELSE {}, {})
    BY <1>0, <1>9, PartIdle
  <2>. QED
    BY <2>1, PartWider
<1>c. Part(rest2, {"rest"}, {})
  <2>1. Part(rest2, IF rests THEN {"rest"} ELSE {}, {})
    BY <1>0, <1>9, PartIdle
  <2>. QED
    BY <2>1, PartWider
<1>d. Part(drive, {"drive"}, {})
  BY <1>0, PartDrive
<1>e. Rested(blocks \o lunch) /\ Rested(blocks \o lunch \o rest1)
      /\ Rested(blocks \o lunch \o rest1 \o rest2)
  <2>1. /\ Block("lunch", clock, LunchTime, city) \in Blocks
        /\ Block("lunch", clock, LunchTime, city).kind = "lunch"
        /\ Block("rest", clock + LunchTime, MiddayRestTime, city) \in Blocks
        /\ Block("rest", clock + LunchTime, MiddayRestTime, city).kind = "rest"
        /\ Block("rest", fed, RestStop, stay) \in Blocks
        /\ Block("rest", fed, RestStop, stay).kind = "rest"
    BY <1>0, <1>9, BlockType
  <2>2. /\ blocks \in Seq(Blocks) /\ lunch \in Seq(Blocks)
        /\ rest1 \in Seq(Blocks) /\ rest2 \in Seq(Blocks)
    BY <1>a, <1>b, <1>c DEF Part
  <2>3. blocks \o lunch \in Seq(Blocks) /\ blocks \o lunch \o rest1 \in Seq(Blocks)
    <3>. HIDE DEF lunch, rest1
    <3>1. blocks \o lunch \in Seq(Blocks)
      BY <2>2, ConcatProperties
    <3>. QED
      BY <2>2, <3>1, ConcatProperties
  <2>4. Rested(blocks \o lunch)
    BY <2>1, <2>2, RestedWhen
  <2>5. Rested(blocks \o lunch \o rest1)
    BY <2>1, <2>3, <2>4, RestedWhen
  <2>. QED
    BY <2>1, <2>3, <2>4, <2>5, RestedWhen
<1>f. /\ before \cap courses \cap MealBlocks = {}
      /\ "rest" \in before /\ "drive" \in before /\ "drive" \notin courses
      /\ "rest" \notin MealBlocks /\ "drive" \notin MealBlocks
      /\ before \cup courses = KindsOf(lunchDone', dinnerDone')
  BY <1>0, <1>7, <1>8 DEF KindsOf, MealBlocks
<1>. HIDE DEF lunch, rest1, rest2, drive, before, courses
<1>g. Part(blocks \o lunch, before \cup courses, seen)
  <2>1. Part(blocks \o lunch, before \cup courses, seen \cup {})
    BY <1>a, <1>f, PartConcat DEF before
  <2>. QED
    BY <2>1, PartWider
<1>h. Part(blocks \o lunch \o rest1, before \cup courses, seen)
  <2>1. Part(blocks \o lunch \o rest1, (before \cup courses) \cup {"rest"}, seen \cup {})
    BY <1>b, <1>f, <1>g, PartConcat
  <2>. QED
    BY <2>1, <1>f, PartWider
<1>i. Part(blocks \o lunch \o rest1 \o rest2, before \cup courses, seen)
  <2>1. Part(blocks \o lunch \o rest1 \o rest2, (before \cup courses) \cup {"rest"}, seen \cup {})
    BY <1>c, <1>f, <1>h, PartConcat
  <2>. QED
    BY <2>1, <1>f, PartWider
<1>j. Part(blocks \o lunch \o rest1 \o rest2 \o drive, before \cup courses, seen)
  <2>1. Part(blocks \o lunch \o rest1 \o rest2 \o drive,
             (before \cup courses) \cup {"drive"}, seen \cup {})
    BY <1>d, <1>e, <1>f, <1>i, PartConcat
  <2>. QED
    BY <2>1, <1>f, PartWider
<1>. QED
  BY <1>7, <1>f, <1>j DEF lunch, rest1, rest2, drive

\* An evening away from home, with a stroll to one place at most.
EveningKinds == {"rest", "stroll", "lodging"}
                    \cup (IF lunchDone THEN {} ELSE {"lunch"})
                    \cup (IF dinnerDone THEN {} ELSE {"dinner"})

LEMMA EveningParts ==
  ASSUME TypeOK, NEW stay \in Cities, NEW strolls, strolls \subseteq Strolls(stay, StrollFrom),
         StrollFrom \in Nat
  PROVE  Part(EveningAway(stay, strolls), EveningKinds, strolls)
<1>0. /\ req \in Requests /\ clock \in Nat /\ dinnerDone \in BOOLEAN /\ lunchDone \in BOOLEAN
      /\ req.lunch \in Nat /\ req.middayRest \in BOOLEAN /\ stay \in Places
  BY Fields DEF TypeOK, Places
<1>1. PICK late \in BOOLEAN : late = LunchBeforeEvening
  BY DEF LunchBeforeEvening
<1>2. LunchAt \in Nat /\ (late => ~lunchDone /\ LunchAt \in EarlyLunchStart .. LateLunchLimit)
  <2>1. late => ~lunchDone /\ clock \in EarlyLunchStart .. LateLunchLimit
    BY <1>1 DEF LunchBeforeEvening
  <2>. QED
    BY <2>1, <1>0 DEF LunchAt, Later, LunchWindowStart, EarlyLunchStart, LateLunchLimit
<1>3. AfterLunch \in Nat /\ DinnerAt \in Nat /\ DinnerAt >= DinnerTime
  <2>1. AfterLunch \in Nat
    BY <1>0, <1>2 DEF AfterLunch, LunchWithRest, LunchTime, MiddayRestTime
  <2>. QED
    BY <2>1 DEF DinnerAt, DinnerStart, Later, DinnerTime
<1>4. PICK midday \in BOOLEAN : midday = (late /\ req.middayRest)
  OBVIOUS
<1>5. PICK idle \in BOOLEAN : idle = (~dinnerDone /\ DinnerTime - AfterLunch >= FreeTimeThreshold)
  OBVIOUS
<1>6. idle => DinnerTime - AfterLunch \in Nat
  <2>1. idle => DinnerTime - AfterLunch >= FreeTimeThreshold
    BY <1>5, Zenon
  <2>2. \A n \in Nat : DinnerTime - n >= FreeTimeThreshold => DinnerTime - n \in Nat
    BY DEF DinnerTime, FreeTimeThreshold
  <2>. QED
    BY <2>1, <2>2, <1>3
<1>7. PICK hungry \in BOOLEAN : hungry = ~dinnerDone
  OBVIOUS
<1>8. PICK p : p = CHOOSE x \in strolls : TRUE
  OBVIOUS
<1>9. strolls # {} => strolls = {p}
  BY <1>8 DEF Strolls
<1>10. strolls # {} => p \in Pois /\ StrollTime(p, StrollFrom) \in Nat
  <2>1. strolls # {} => p \in Strolls(stay, StrollFrom)
    BY <1>9
  <2>. QED
    BY <2>1, StrollFacts
<1>11. PICK end \in Nat : end = IF strolls = {} THEN StrollFrom
                                ELSE StrollFrom + StrollTime(p, StrollFrom)
  BY <1>10
<1>12. PICK out \in BOOLEAN : out = (strolls # {})
  OBVIOUS
<1>13. /\ LunchTime \in Nat /\ LunchAt + LunchTime \in Nat /\ MiddayRestTime \in Nat
       /\ Dinner \in Nat /\ Later(end, Bedtime) \in Nat
       /\ "rest" \in Kinds \ Shows /\ "lunch" \in Kinds \ Shows /\ "dinner" \in Kinds \ Shows
       /\ "lodging" \in Kinds \ Shows
  BY <1>0, <1>2 DEF LunchTime, MiddayRestTime, Dinner, Later, Bedtime, Kinds, Shows
<1>. DEFINE lunch   == When(late, Block("lunch", LunchAt, LunchTime, stay))
            rest    == When(midday, Block("rest", LunchAt + LunchTime, MiddayRestTime, stay))
            free    == When(idle, Block("rest", AfterLunch, DinnerTime - AfterLunch, stay))
            dinner  == When(hungry, Block("dinner", DinnerAt, Dinner, stay))
            stroll  == When(out, Block("stroll", StrollFrom, end - StrollFrom, p))
            lodging == <<Block("lodging", Later(end, Bedtime), 0, stay)>>
            noon    == IF late THEN {"lunch"} ELSE {}
            night   == IF hungry THEN {"dinner"} ELSE {}
            walk    == IF out THEN {"stroll"} ELSE {}
<1>a. EveningAway(stay, strolls) = lunch \o rest \o free \o dinner \o stroll \o lodging
  BY <1>1, <1>4, <1>5, <1>7, <1>8, <1>11, <1>12 DEF EveningAway
<1>b. Part(lunch, noon, {})
  BY <1>0, <1>2, <1>13, PartIdle
<1>c. Part(rest, {"rest"}, {})
  <2>1. Part(rest, IF midday THEN {"rest"} ELSE {}, {})
    BY <1>0, <1>13, PartIdle
  <2>. QED
    BY <2>1, PartWider
<1>d. Part(free, {"rest"}, {})
  <2>1. CASE idle
    <3>1. PICK length \in Nat : length = DinnerTime - AfterLunch
      BY <2>1, <1>6
    <3>2. Part(When(idle, Block("rest", AfterLunch, length, stay)), IF idle THEN {"rest"} ELSE {}, {})
      BY <1>0, <1>3, <1>13, PartIdle
    <3>. QED
      BY <3>1, <3>2, PartWider
  <2>2. CASE ~idle
    <3>1. free = <<>>
      BY <2>2 DEF When
    <3>. QED
      BY <3>1, PartNone, PartWider
  <2>. QED
    BY <2>1, <2>2
<1>e. Part(dinner, night, {})
  BY <1>0, <1>3, <1>13, PartIdle
<1>f. Part(stroll, walk, strolls)
  <2>1. CASE out
    <3>1. end - StrollFrom \in Nat /\ p \in Places /\ "stroll" \in Kinds
      <4>1. strolls # {}
        BY <2>1, <1>12
      <4>2. end = StrollFrom + StrollTime(p, StrollFrom) /\ StrollTime(p, StrollFrom) \in Nat
        BY <4>1, <1>10, <1>11
      <4>3. end - StrollFrom \in Nat
        BY <4>2
      <4>. QED
        BY <4>1, <4>3, <1>10 DEF Places, Kinds
    <3>2. PICK length \in Nat : length = end - StrollFrom
      BY <3>1
    <3>3. PICK b : b = Block("stroll", StrollFrom, length, p)
      OBVIOUS
    <3>4. b \in Blocks /\ b.kind = "stroll" /\ b.what = p
      BY <3>1, <3>3, BlockType
    <3>5. InMeasure(b)
      BY <3>4 DEF InMeasure
    <3>6. Part(<<b>>, {b.kind}, IF b.kind \in Shows THEN {b.what} ELSE {})
      BY <3>4, <3>5, PartOne
    <3>7. Part(<<b>>, {"stroll"}, {p})
      BY <3>4, <3>6 DEF Shows
    <3>8. stroll = <<b>>
      BY <2>1, <3>2, <3>3 DEF When
    <3>. QED
      BY <2>1, <3>7, <3>8, <1>9, <1>12
  <2>2. CASE ~out
    BY <2>2, <1>12, PartNone DEF When
  <2>. QED
    BY <2>1, <2>2
<1>g. Part(lodging, {"lodging"}, {})
  <2>1. PICK b : b = Block("lodging", Later(end, Bedtime), 0, stay)
    OBVIOUS
  <2>2. b \in Blocks /\ b.kind = "lodging"
    BY <2>1, <1>0, <1>13, BlockType
  <2>3. InMeasure(b)
    BY <2>2 DEF InMeasure
  <2>4. Part(<<b>>, {b.kind}, IF b.kind \in Shows THEN {b.what} ELSE {})
    BY <2>2, <2>3, PartOne
  <2>. QED
    BY <2>1, <2>2, <2>4 DEF Shows
<1>h. /\ "rest" \notin MealBlocks /\ "lodging" \notin MealBlocks
      /\ ((noon \cup {"rest"}) \cup {"rest"}) \cap night \cap MealBlocks = {}
      /\ (((noon \cup {"rest"}) \cup {"rest"}) \cup night) \cap walk \cap MealBlocks = {}
      /\ "drive" \notin night /\ "drive" \notin walk
      /\ ((((noon \cup {"rest"}) \cup {"rest"}) \cup night) \cup walk) \cup {"lodging"} \subseteq EveningKinds
  BY <1>0, <1>2, <1>7 DEF MealBlocks, EveningKinds
<1>. HIDE DEF lunch, rest, free, dinner, stroll, lodging, noon, night, walk
<1>i. Part(lunch \o rest, noon \cup {"rest"}, {} \cup {})
  BY <1>b, <1>c, <1>h, PartConcat
<1>j. Part(lunch \o rest \o free, (noon \cup {"rest"}) \cup {"rest"}, ({} \cup {}) \cup {})
  BY <1>d, <1>h, <1>i, PartConcat
<1>k. Part(lunch \o rest \o free \o dinner, ((noon \cup {"rest"}) \cup {"rest"}) \cup night, {})
  <2>1. Part(lunch \o rest \o free, (noon \cup {"rest"}) \cup {"rest"}, {})
    BY <1>j
  <2>2. Part(lunch \o rest \o free \o dinner, ((noon \cup {"rest"}) \cup {"rest"}) \cup night, {} \cup {})
    BY <2>1, <1>e, <1>h, PartConcat
  <2>. QED
    BY <2>2
<1>l. Part(lunch \o rest \o free \o dinner \o stroll,
           (((noon \cup {"rest"}) \cup {"rest"}) \cup night) \cup walk, strolls)
  <2>1. Part(lunch \o rest \o free \o dinner \o stroll,
             (((noon \cup {"rest"}) \cup {"rest"}) \cup night) \cup walk, {} \cup strolls)
    BY <1>f, <1>h, <1>k, PartConcat
  <2>2. {} \cup strolls = strolls
    OBVIOUS
  <2>. QED
    BY <2>1, <2>2
<1>m. Part(lunch \o rest \o free \o dinner \o stroll \o lodging, EveningKinds, strolls)
  <2>1. Part(lunch \o rest \o free \o dinner \o stroll \o lodging,
             ((((noon \cup {"rest"}) \cup {"rest"}) \cup night) \cup walk) \cup {"lodging"},
             strolls \cup {})
    BY <1>g, <1>h, <1>l, PartConcat
  <2>2. strolls \cup {} = strolls
    OBVIOUS
  <2>. QED
    BY <2>1, <2>2, <1>h, PartWider
<1>. QED
  BY <1>a, <1>m

-----------------------------------------------------------------------------
(* The invariant of bearable days. Today has no meal yet that is not       *)
(* ticked off; a drive ends it only while the night begins; the sights of  *)
(* the days are apart, and all of them together are what was visited; and  *)
(* a day without visits starts its way on with all of its cap.             *)

Seen(bs) == {bs[i].what : i \in Sights(bs)}

TodayInMeasure ==
    /\ Part(blocks, KindsOf(lunchDone, dinnerDone), seen)
    /\ phase \in {"visits", "transfer"} => Rested(blocks)
    /\ ~req.evening => ~dinnerDone
DaysInMeasure ==
    \A d \in 1 .. Len(plan) :
        /\ Part(plan[d].blocks, Kinds, Seen(plan[d].blocks))
        /\ ~req.evening => Quiet(plan[d].blocks)
SightsApart ==
    /\ \A p \in visited : p \in seen \/ \E d \in 1 .. Len(plan) : p \in Seen(plan[d].blocks)
    /\ seen \subseteq visited
    /\ \A d \in 1 .. Len(plan) : /\ Seen(plan[d].blocks) \subseteq visited
                                 /\ Seen(plan[d].blocks) \cap seen = {}
    /\ \A d, e \in 1 .. Len(plan) : d # e => Seen(plan[d].blocks) \cap Seen(plan[e].blocks) = {}
CapOnTheWay ==
    /\ phase \in {"visits", "transfer"} /\ seen = {} => driving = 0
    /\ phase = "night" /\ ~IsLastDay => driving <= req.cap
    /\ \A d \in 1 .. Len(plan) : d < req.days => plan[d].driving <= req.cap

BearInv == IInv /\ TodayInMeasure /\ DaysInMeasure /\ SightsApart /\ CapOnTheWay

LEMMA PartEmpty ==
  ASSUME NEW kinds
  PROVE  Part(<<>>, kinds, {}) /\ Rested(<<>>)
BY PartNone, PartWider DEF Rested

LEMMA BearInit == Init => BearInv
<1>. SUFFICES ASSUME Init PROVE BearInv
  OBVIOUS
<1>1. /\ blocks = <<>> /\ plan = <<>> /\ seen = {} /\ visited = {} /\ driving = 0
      /\ dinnerDone = FALSE /\ phase = "visits" /\ Len(plan) = 0
  BY DEF Init
<1>2. TodayInMeasure
  BY <1>1, PartEmpty DEF TodayInMeasure
<1>3. DaysInMeasure /\ SightsApart /\ CapOnTheWay
  BY <1>1 DEF DaysInMeasure, SightsApart, CapOnTheWay
<1>. QED
  BY <1>2, <1>3, InitInv DEF BearInv

LEMMA BearVisit == BearInv /\ VisitNext => BearInv'
<1>. SUFFICES ASSUME BearInv, VisitNext PROVE BearInv'
  OBVIOUS
<1>0. IInv /\ TypeOK /\ NothingLost /\ TodayInMeasure /\ DaysInMeasure /\ SightsApart /\ CapOnTheWay
  BY DEF BearInv, IInv
<1>1. PICK i \in FeasibleNow : Visit(i) /\ phase = "visits"
  BY DEF VisitNext
<1>2. i \in pending /\ Feasible(route[i])
  BY <1>1 DEF FeasibleNow
<1>3. /\ req \in Requests /\ route \in Routes /\ i \in DOMAIN route
      /\ lunchDone \in BOOLEAN /\ dinnerDone \in BOOLEAN
  BY <1>0, <1>2 DEF TypeOK
<1>4. PICK p \in Pois : p = route[i]
  <2>1. route \in Seq(Pois)
    BY <1>3, RouteAssumption
  <2>. QED
    BY <2>1, <1>3
<1>5. p \notin visited
  BY <1>0, <1>2, <1>3, <1>4 DEF NothingLost
<1>6. p \notin seen
  BY <1>0, <1>5 DEF SightsApart
<1>7. PICK at : at = Placement(p)
  OBVIOUS
<1>8. /\ lunchDone' = (lunchDone \/ at.meal = "lunch")
      /\ dinnerDone' = (dinnerDone \/ at.meal = "dinner")
      /\ seen' = seen \cup {p} /\ visited' = visited \cup {p}
      /\ UNCHANGED <<req, route, phase, day, plan>>
  BY <1>1, <1>4, <1>7 DEF Visit, input
<1>9. /\ Part(blocks', KindsOf(lunchDone', dinnerDone'), seen')
      /\ Rested(blocks')
  <2>1. /\ Part(blocks, KindsOf(lunchDone, dinnerDone), seen) /\ Rested(blocks)
    BY <1>0, <1>1 DEF TodayInMeasure
  <2>2. /\ Part(blocks', KindsOf(lunchDone', dinnerDone'), seen \cup {p})
        /\ Rested(blocks')
    BY <2>1, <1>0, <1>1, <1>4, <1>6, VisitParts
  <2>. QED
    BY <2>2, <1>8
<1>a. ~req.evening => at.meal # "dinner"
  <2>. SUFFICES ASSUME ~req.evening, at.meal = "dinner" PROVE FALSE
    OBVIOUS
  <2>1. /\ at.settled \in Nat /\ at.ready \in Nat /\ at.start \in Nat
        /\ at.meal = MealBefore(at.settled)
        /\ at.ready = at.settled + MealTime(at.meal)
        /\ at.start = Later(at.ready, Opens[p])
    BY <1>0, <1>7, PlacementTimes
  <2>2. at.settled \in DinnerTime .. DinnerWindowEnd
    BY <2>1 DEF MealBefore
  <2>3. at.start < LateVisitCutoff
    BY <1>2, <1>4, <1>7 DEF Feasible, LateEnough
  <2>4. at.ready = at.settled + 75
    BY <2>1 DEF MealTime, Dinner
  <2>5. Opens[p] \in Nat
    BY HoursAssumption
  <2>6. at.start >= at.ready
    BY <2>1, <2>5 DEF Later
  <2>7. at.settled >= 1140
    BY <2>1, <2>2 DEF DinnerTime, DinnerWindowEnd
  <2>8. at.start < 1170
    BY <2>3 DEF LateVisitCutoff
  <2>. QED
    BY <2>1, <2>4, <2>6, <2>7, <2>8
<1>b. TodayInMeasure'
  <2>1. ~req'.evening => ~dinnerDone'
    BY <1>0, <1>8, <1>a DEF TodayInMeasure
  <2>. QED
    BY <1>9, <2>1 DEF TodayInMeasure
<1>c. DaysInMeasure' /\ CapOnTheWay'
  BY <1>0, <1>1, <1>8 DEF DaysInMeasure, CapOnTheWay
<1>d. SightsApart'
  <2>1. \A d \in 1 .. Len(plan) : /\ Seen(plan[d].blocks) \subseteq visited
                                  /\ Seen(plan[d].blocks) \cap seen = {}
    BY <1>0 DEF SightsApart
  <2>2. \A d \in 1 .. Len(plan) : /\ Seen(plan[d].blocks) \subseteq visited'
                                  /\ Seen(plan[d].blocks) \cap seen' = {}
    BY <2>1, <1>5, <1>8
  <2>. QED
    BY <2>2, <1>0, <1>8 DEF SightsApart
<1>. QED
  BY <1>0, <1>b, <1>c, <1>d, VisitStep DEF BearInv

LEMMA BearEndVisits == BearInv /\ EndVisits => BearInv'
<1>. SUFFICES ASSUME BearInv, EndVisits PROVE BearInv'
  OBVIOUS
<1>1. /\ phase = "visits" /\ phase' = "transfer"
      /\ UNCHANGED <<req, day, visited, seen, driving, lunchDone, dinnerDone, blocks, plan>>
  BY DEF EndVisits, input, today
<1>2. TodayInMeasure' /\ DaysInMeasure' /\ SightsApart'
  BY <1>1 DEF BearInv, TodayInMeasure, DaysInMeasure, SightsApart
<1>3. CapOnTheWay'
  BY <1>1 DEF BearInv, CapOnTheWay
<1>. QED
  BY <1>2, <1>3, EndVisitsStep DEF BearInv

\* Who only moves on goes nowhere, or to a city within what is left of the cap.
LEMMA WayOn ==
  ASSUME TypeOK, NEW stay \in ProgressStayCity, stay # city
  PROVE  Drive[place][stay] <= req.cap - driving
<1>a. PICK goal \in Goals : \E nearer \in Searches(goal) : stay = nearer[Len(StayCities)]
  BY DEF ProgressStayCity
<1>1. PICK nearer \in Searches(goal) : stay = nearer[Len(StayCities)]
  BY <1>a
<1>2. StayCities \in Seq(Cities) /\ Len(StayCities) \in Nat /\ DOMAIN StayCities = 1 .. Len(StayCities)
  BY HoursAssumption
<1>3. /\ nearer[0] = city
      /\ \A i \in 1 .. Len(StayCities) :
            nearer[i] = IF Closer(nearer[i - 1], StayCities[i], goal)
                      THEN StayCities[i] ELSE nearer[i - 1]
  BY <1>2 DEF Searches
<1>4. PICK found : found = {i \in 0 .. Len(StayCities) : nearer[i] = stay}
  OBVIOUS
<1>5. found \in SUBSET Nat /\ Len(StayCities) \in found
  BY <1>1, <1>2, <1>4
<1>6. PICK i \in found : \A j \in found : i <= j
  BY <1>5, MinOfNats
<1>7. i \in 0 .. Len(StayCities) /\ nearer[i] = stay /\ i # 0
  BY <1>3, <1>4, <1>6
<1>8. i \in 1 .. Len(StayCities) /\ i - 1 \in 0 .. Len(StayCities) /\ ~(i <= i - 1)
  BY <1>2, <1>7
<1>9. nearer[i - 1] # stay
  BY <1>4, <1>6, <1>8
<1>10. Closer(nearer[i - 1], StayCities[i], goal) /\ StayCities[i] = stay
  BY <1>3, <1>7, <1>8, <1>9
<1>. QED
  BY <1>10 DEF Closer

LEMMA BearTransfer == BearInv /\ Transfer => BearInv'
<1>. SUFFICES ASSUME BearInv, Transfer PROVE BearInv'
  OBVIOUS
<1>0. IInv /\ TypeOK /\ CapAhead /\ TodayInMeasure /\ DaysInMeasure /\ SightsApart /\ CapOnTheWay
  BY DEF BearInv, IInv
<1>1. /\ phase = "transfer" /\ phase' = "night"
      /\ UNCHANGED <<req, day, visited, seen, plan>>
  BY DEF Transfer, input
<1>2. PICK stay \in StayCity :
         IF stay = city THEN UNCHANGED <<blocks, today, place, city>> ELSE DriveTo(stay)
  BY DEF Transfer
<1>3. stay \in Cities
  BY <1>0, <1>2, StayType
<1>4. /\ Part(blocks', KindsOf(lunchDone', dinnerDone'), seen)
      /\ dinnerDone' = dinnerDone
  <2>1. Part(blocks, KindsOf(lunchDone, dinnerDone), seen) /\ Rested(blocks)
    BY <1>0, <1>1 DEF TodayInMeasure
  <2>2. CASE stay = city
    BY <2>1, <2>2, <1>2 DEF today
  <2>3. CASE stay # city
    <3>1. DriveTo(stay)
      BY <2>3, <1>2
    <3>2. dinnerDone' = dinnerDone
      BY <3>1 DEF DriveTo
    <3>. QED
      BY <2>1, <3>1, <3>2, <1>0, <1>3, DriveToParts
  <2>. QED
    BY <2>2, <2>3
<1>5. TodayInMeasure'
  BY <1>0, <1>1, <1>4 DEF TodayInMeasure
<1>6. DaysInMeasure' /\ SightsApart'
  BY <1>0, <1>1 DEF DaysInMeasure, SightsApart
<1>7. ~IsLastDay => driving' <= req.cap
  <2>. SUFFICES ASSUME ~IsLastDay PROVE driving' <= req.cap
    OBVIOUS
  <2>0. req.cap \in Nat /\ driving \in Nat /\ place \in Places /\ stay \in Places
    BY <1>0, <1>3, Fields DEF TypeOK, Places
  <2>1. CASE seen # {}
    <3>1. CapAhead'
      BY <1>0, TransferStep DEF IInv
    <3>. QED
      BY <2>1, <3>1, <1>1 DEF CapAhead
  <2>2. CASE seen = {} /\ stay = city
    <3>1. driving' = 0
      BY <2>2, <1>0, <1>1, <1>2 DEF CapOnTheWay, today
    <3>. QED
      BY <3>1, <2>0
  <2>3. CASE seen = {} /\ stay # city
    <3>1. driving = 0 /\ driving' = driving + Drive[place][stay]
      BY <2>3, <1>0, <1>1, <1>2 DEF CapOnTheWay, DriveTo
    <3>2. stay \in ProgressStayCity
      BY <2>3, <1>2 DEF StayCity
    <3>3. Drive[place][stay] <= req.cap - driving
      BY <2>3, <3>2, <1>0, WayOn
    <3>. QED
      BY <3>1, <3>3, <2>0, DriveNat
  <2>. QED
    BY <2>1, <2>2, <2>3
<1>8. CapOnTheWay'
  BY <1>0, <1>1, <1>7 DEF CapOnTheWay, IsLastDay
<1>. QED
  BY <1>0, <1>5, <1>6, <1>8, TransferStep DEF BearInv

LEMMA BearNight == BearInv /\ Night => BearInv'
<1>. SUFFICES ASSUME BearInv, Night PROVE BearInv'
  OBVIOUS
<1>0. IInv /\ TypeOK /\ DaysOnTime /\ TodayInMeasure /\ DaysInMeasure /\ SightsApart /\ CapOnTheWay
  BY DEF BearInv, IInv
<1>1. /\ req \in Requests /\ day \in 1 .. req.days /\ phase = "night"
      /\ clock \in Nat /\ driving \in Nat /\ city \in Cities /\ req.days \in Nat
      /\ plan \in Seq(Days) /\ Len(plan) = day - 1 /\ req.dayStart \in Nat
      /\ lunchDone \in BOOLEAN /\ dinnerDone \in BOOLEAN
  BY <1>0, Fields DEF Night, TypeOK, DaysOnTime
<1>2. PICK away \in BOOLEAN : away = (~IsLastDay /\ city # OriginCity)
  BY DEF IsLastDay
<1>3. PICK strolls : strolls = IF away THEN Strolls(city, StrollFrom) ELSE {}
  OBVIOUS
<1>4. PICK evening : evening = IF away THEN EveningAway(city, strolls) ELSE <<>>
  OBVIOUS
<1>5. PICK behind : behind = [blocks |-> blocks \o evening, base |-> city,
                              driving |-> driving, seen |-> seen]
  OBVIOUS
<1>6. /\ plan' = Append(plan, behind)
      /\ visited' = visited \cup strolls
      /\ seen' = {} /\ driving' = 0 /\ dinnerDone' = FALSE /\ lunchDone' = FALSE
      /\ req' = req
  BY <1>2, <1>3, <1>4, <1>5 DEF Night, input
<1>7. /\ IsLastDay => phase' = "done" /\ blocks' = <<>> /\ day' = day
      /\ ~IsLastDay => /\ phase' = "visits"
                       /\ blocks' = <<Block("breakfast", req.dayStart, Breakfast, city)>>
  BY DEF Night
<1>8. StrollFrom \in Nat
  <2>1. req.lunch \in Nat /\ req.middayRest \in BOOLEAN
    BY <1>1, Fields
  <2>2. LunchAt \in Nat
    BY <1>1 DEF LunchAt, Later, LunchWindowStart
  <2>3. AfterLunch \in Nat
    BY <1>1, <2>1, <2>2 DEF AfterLunch, LunchWithRest, LunchTime, MiddayRestTime
  <2>4. DinnerAt \in Nat
    BY <2>3 DEF DinnerAt, DinnerStart, Later, DinnerTime
  <2>. QED
    BY <1>1, <2>4 DEF StrollFrom, Dinner
<1>9. /\ strolls \cap visited = {}
      /\ ~req.evening => strolls = {}
  <2>1. away => \A p \in strolls : p \notin visited
    BY <1>0, <1>1, <1>3, <1>8, StrollFacts
  <2>2. ~req.evening => strolls = {}
    BY <1>3 DEF Strolls
  <2>. QED
    BY <2>1, <2>2, <1>3
<1>a. Part(evening, EveningKinds, strolls)
  <2>1. CASE away
    BY <2>1, <1>0, <1>1, <1>3, <1>4, <1>8, EveningParts
  <2>2. CASE ~away
    BY <2>2, <1>3, <1>4, PartEmpty
  <2>. QED
    BY <2>1, <2>2
<1>b. PICK kinds : kinds = KindsOf(lunchDone, dinnerDone)
  OBVIOUS
<1>c. /\ Part(blocks, kinds, seen)
      /\ kinds \cap EveningKinds \cap MealBlocks = {} /\ "drive" \notin EveningKinds
      /\ kinds \cup EveningKinds \subseteq Kinds
      /\ seen \cap strolls = {}
  <2>1. Part(blocks, kinds, seen)
    BY <1>0, <1>b DEF TodayInMeasure
  <2>2. kinds \cap EveningKinds \cap MealBlocks = {} /\ "drive" \notin EveningKinds
    BY <1>1, <1>b DEF KindsOf, EveningKinds, MealBlocks
  <2>3. kinds \cup EveningKinds \subseteq Kinds
    BY <1>1, <1>b DEF KindsOf, EveningKinds, Kinds
  <2>4. seen \cap strolls = {}
    BY <1>0, <1>9 DEF SightsApart
  <2>. QED
    BY <2>1, <2>2, <2>3, <2>4
<1>d. PICK day1 : day1 = blocks \o evening
  OBVIOUS
<1>e. Part(day1, Kinds, seen \cup strolls)
  <2>1. Part(day1, kinds \cup EveningKinds, seen \cup strolls)
    BY <1>a, <1>c, <1>d, PartConcat
  <2>. QED
    BY <2>1, <1>c, PartWider
<1>f. Seen(day1) = seen \cup strolls
  BY <1>e, PartShows DEF Seen
<1>g. ~req.evening => Quiet(day1)
  <2>. SUFFICES ASSUME ~req.evening PROVE Quiet(day1)
    OBVIOUS
  <2>1. "dinner" \notin kinds
    BY <1>0, <1>1, <1>b DEF TodayInMeasure, KindsOf
  <2>2. Part(evening, EveningKinds, {})
    BY <1>9, <1>a
  <2>. QED
    BY <2>1, <2>2, <1>c, <1>d, QuietConcat
<1>h. behind.blocks = day1 /\ behind.driving = driving
  BY <1>5, <1>d
<1>i. behind \in Days
  <2>1. day1 \in Seq(Blocks)
    BY <1>e DEF Part
  <2>2. seen \subseteq Pois
    BY <1>0 DEF TypeOK
  <2>. QED
    BY <2>1, <2>2, <1>1, <1>5, <1>d DEF Days
<1>j. /\ Len(plan') = Len(plan) + 1 /\ Len(plan) \in Nat
      /\ \A d \in 1 .. Len(plan) : plan'[d] = plan[d]
      /\ plan'[Len(plan) + 1] = behind
  <2>1. Len(plan') = Len(plan) + 1
    BY <1>1, <1>6, <1>i, AppendProperties
  <2>2. \A d \in 1 .. Len(plan) : plan'[d] = plan[d]
    BY <1>1, <1>6, <1>i, AppendProperties
  <2>3. plan'[Len(plan) + 1] = behind
    BY <1>1, <1>6, <1>i, AppendProperties
  <2>. QED
    BY <2>1, <2>2, <2>3, <1>1
<1>k. \A d \in 1 .. Len(plan') : \/ d \in 1 .. Len(plan) /\ plan'[d] = plan[d]
                                 \/ d = Len(plan) + 1 /\ plan'[d] = behind
  BY <1>j
<1>l. TodayInMeasure'
  <2>1. CASE IsLastDay
    <3>1. Part(<<>>, KindsOf(FALSE, FALSE), {}) /\ Rested(<<>>)
      BY PartEmpty
    <3>2. blocks' = <<>>
      BY <2>1, <1>7
    <3>. QED
      BY <3>1, <3>2, <1>6 DEF TodayInMeasure
  <2>2. CASE ~IsLastDay
    <3>1. PICK b : b = Block("breakfast", req.dayStart, Breakfast, city)
      OBVIOUS
    <3>2. b \in Blocks /\ b.kind = "breakfast"
      <4>1. "breakfast" \in Kinds /\ Breakfast \in Nat /\ city \in Places
        BY <1>1 DEF Kinds, Breakfast, Places
      <4>. QED
        BY <3>1, <4>1, <1>1, BlockType
    <3>3. InMeasure(b)
      BY <3>2 DEF InMeasure
    <3>4. Part(<<b>>, {b.kind}, IF b.kind \in Shows THEN {b.what} ELSE {})
      BY <3>2, <3>3, PartOne
    <3>5. Part(<<b>>, {"breakfast"}, {})
      BY <3>2, <3>4 DEF Shows
    <3>6. {"breakfast"} \subseteq KindsOf(FALSE, FALSE)
      BY DEF KindsOf
    <3>7. Part(<<b>>, KindsOf(FALSE, FALSE), {})
      BY <3>5, <3>6, PartWider
    <3>8. Rested(<<b>>)
      <4>1. <<b>>[Len(<<b>>)] = b
        OBVIOUS
      <4>. QED
        BY <4>1, <3>2 DEF Rested
    <3>9. blocks' = <<b>>
      BY <2>2, <1>7, <3>1
    <3>. QED
      BY <3>7, <3>8, <3>9, <1>6 DEF TodayInMeasure
  <2>. QED
    BY <2>1, <2>2
<1>m. DaysInMeasure'
  <2>1. ASSUME NEW d \in 1 .. Len(plan')
        PROVE  /\ Part(plan'[d].blocks, Kinds, Seen(plan'[d].blocks))
               /\ ~req.evening => Quiet(plan'[d].blocks)
    BY <1>0, <1>e, <1>f, <1>g, <1>h, <1>k DEF DaysInMeasure
  <2>. QED
    BY <2>1, <1>6 DEF DaysInMeasure
<1>n. SightsApart'
  <2>1. ASSUME NEW p \in visited'
        PROVE  \E d \in 1 .. Len(plan') : p \in Seen(plan'[d].blocks)
    <3>1. CASE p \in seen \cup strolls
      <4>1. Len(plan) + 1 \in 1 .. Len(plan') /\ Seen(plan'[Len(plan) + 1].blocks) = seen \cup strolls
        BY <1>f, <1>h, <1>j
      <4>. QED
        BY <3>1, <4>1
    <3>2. CASE p \notin seen \cup strolls
      <4>1. PICK d \in 1 .. Len(plan) : p \in Seen(plan[d].blocks)
        BY <3>2, <2>1, <1>0, <1>6 DEF SightsApart
      <4>2. d \in 1 .. Len(plan') /\ plan'[d] = plan[d]
        BY <1>j
      <4>. QED
        BY <4>1, <4>2
    <3>. QED
      BY <3>1, <3>2
  <2>2. ASSUME NEW d \in 1 .. Len(plan')
        PROVE  Seen(plan'[d].blocks) \subseteq visited'
    <3>1. \A e \in 1 .. Len(plan) : Seen(plan[e].blocks) \subseteq visited
      BY <1>0 DEF SightsApart
    <3>2. seen \subseteq visited
      BY <1>0 DEF SightsApart
    <3>. QED
      BY <3>1, <3>2, <1>6, <1>f, <1>h, <1>k
  <2>3. ASSUME NEW d \in 1 .. Len(plan'), NEW e \in 1 .. Len(plan'), d # e
        PROVE  Seen(plan'[d].blocks) \cap Seen(plan'[e].blocks) = {}
    <3>1. \A x \in 1 .. Len(plan) : Seen(plan[x].blocks) \cap (seen \cup strolls) = {}
      BY <1>0, <1>9 DEF SightsApart
    <3>2. \A x, y \in 1 .. Len(plan) : x # y => Seen(plan[x].blocks) \cap Seen(plan[y].blocks) = {}
      BY <1>0 DEF SightsApart
    <3>. QED
      BY <3>1, <3>2, <2>3, <1>f, <1>h, <1>k
  <2>4. seen' = {}
    BY <1>6
  <2>. QED
    BY <2>1, <2>2, <2>3, <2>4 DEF SightsApart
<1>o. CapOnTheWay'
  <2>1. ASSUME NEW d \in 1 .. Len(plan'), d < req.days
        PROVE  plan'[d].driving <= req.cap
    <3>1. CASE d \in 1 .. Len(plan) /\ plan'[d] = plan[d]
      BY <3>1, <2>1, <1>0 DEF CapOnTheWay
    <3>2. CASE d = Len(plan) + 1 /\ plan'[d] = behind
      <4>1. ~IsLastDay
        BY <3>2, <2>1, <1>1 DEF IsLastDay
      <4>. QED
        BY <3>2, <4>1, <1>0, <1>1, <1>h DEF CapOnTheWay
    <3>. QED
      BY <3>1, <3>2, <1>k
  <2>2. phase' # "night"
    BY <1>7
  <2>. QED
    BY <2>1, <2>2, <1>6 DEF CapOnTheWay
<1>. QED
  BY <1>0, <1>l, <1>m, <1>n, <1>o, NightStep DEF BearInv

LEMMA BearStutter == BearInv /\ UNCHANGED vars => BearInv'
<1>. SUFFICES ASSUME BearInv, UNCHANGED vars PROVE BearInv'
  OBVIOUS
<1>1. UNCHANGED <<req, phase, day, visited, seen, driving, lunchDone, dinnerDone, blocks, plan>>
  BY DEF vars, input, today
<1>2. TodayInMeasure' /\ DaysInMeasure' /\ SightsApart'
  BY <1>1 DEF BearInv, TodayInMeasure, DaysInMeasure, SightsApart
<1>3. CapOnTheWay'
  BY <1>1 DEF BearInv, CapOnTheWay, IsLastDay
<1>. QED
  BY <1>2, <1>3, StutterStep DEF BearInv

LEMMA AlwaysBear == Spec => []BearInv
<1>1. BearInv /\ [Next]_vars => BearInv'
  BY BearVisit, BearEndVisits, BearTransfer, BearNight, BearStutter DEF Next
<1>. QED
  BY BearInit, <1>1, PTL DEF Spec

\* A day of the plan, or today so far, is a part of a day.
LEMMA EveryDayIsAPart ==
  ASSUME BearInv, NEW bs \in DayBlocks
  PROVE  \E sights : Part(bs, Kinds, sights) /\ (~req.evening => Quiet(bs))
<1>0. plan \in Seq(Days) /\ lunchDone \in BOOLEAN /\ dinnerDone \in BOOLEAN
  BY DEF BearInv, IInv, DaysOnTime, TypeOK
<1>1. CASE bs = blocks
  <2>1. KindsOf(lunchDone, dinnerDone) \subseteq Kinds
    BY <1>0 DEF KindsOf, Kinds
  <2>2. Part(blocks, KindsOf(lunchDone, dinnerDone), seen)
    BY DEF BearInv, TodayInMeasure
  <2>3. ~req.evening => "dinner" \notin KindsOf(lunchDone, dinnerDone)
    BY <1>0 DEF BearInv, TodayInMeasure, KindsOf
  <2>4. ~req.evening => Quiet(blocks)
    BY <2>2, <2>3 DEF Part, Quiet
  <2>. QED
    BY <1>1, <2>1, <2>2, <2>4, PartWider
<1>2. CASE bs # blocks
  <2>1. PICK d \in 1 .. Len(plan) : bs = plan[d].blocks
    BY <1>0, <1>2 DEF DayBlocks
  <2>. QED
    BY <2>1 DEF BearInv, DaysInMeasure
<1>. QED
  BY <1>1, <1>2

\* A place that was visited stands once in the diary of the trip.
LEMMA OneSighting ==
  ASSUME BearInv, NEW p \in visited
  PROVE  \E s \in Sightings(p) : Sightings(p) = {s}
<1>1. /\ plan \in Seq(Days) /\ Len(plan) \in Nat /\ DOMAIN plan = 1 .. Len(plan)
      /\ lunchDone \in BOOLEAN /\ dinnerDone \in BOOLEAN
  BY DEF BearInv, IInv, DaysOnTime, TypeOK
<1>2. PICK days : days = [d \in DOMAIN plan |-> plan[d].blocks]
  OBVIOUS
<1>3. \A d \in 1 .. Len(plan) : plan[d].blocks \in Seq(Blocks)
  BY DEF BearInv, DaysInMeasure, Part
<1>4. days \in Seq(Seq(Blocks)) /\ Len(days) = Len(plan) /\ blocks \in Seq(Blocks)
  <2>1. blocks \in Seq(Blocks)
    BY DEF BearInv, TodayInMeasure, Part
  <2>. QED
    BY <2>1, <1>1, <1>2, <1>3
<1>5. PICK diary : diary = Append(days, blocks)
  OBVIOUS
<1>6. /\ DOMAIN diary = 1 .. Len(plan) + 1
      /\ \A d \in 1 .. Len(plan) : diary[d] = plan[d].blocks
      /\ diary[Len(plan) + 1] = blocks
  <2>1. diary \in Seq(Seq(Blocks)) /\ Len(diary) = Len(plan) + 1
    BY <1>4, <1>5, AppendProperties
  <2>2. \A d \in 1 .. Len(plan) : diary[d] = days[d]
    BY <1>4, <1>5, AppendProperties
  <2>3. diary[Len(plan) + 1] = blocks
    BY <1>4, <1>5, AppendProperties
  <2>. QED
    BY <2>1, <2>2, <2>3, <1>1, <1>2
<1>7. PICK sights : sights = [d \in 1 .. Len(plan) + 1 |->
                                 IF d = Len(plan) + 1 THEN seen ELSE Seen(plan[d].blocks)]
  OBVIOUS
<1>8. \A d \in DOMAIN diary : Part(diary[d], Kinds, sights[d])
  <2>1. Part(blocks, Kinds, seen)
    <3>1. KindsOf(lunchDone, dinnerDone) \subseteq Kinds
      BY <1>1 DEF KindsOf, Kinds
    <3>. QED
      BY <3>1, PartWider DEF BearInv, TodayInMeasure
  <2>2. ASSUME NEW d \in 1 .. Len(plan) PROVE Part(diary[d], Kinds, sights[d])
    <3>1. d \in 1 .. Len(plan) + 1 /\ d # Len(plan) + 1
      BY <1>1
    <3>2. sights[d] = Seen(plan[d].blocks)
      BY <3>1, <1>7
    <3>. QED
      BY <3>2, <1>6 DEF BearInv, DaysInMeasure
  <2>3. sights[Len(plan) + 1] = seen
    BY <1>1, <1>7
  <2>4. \A d \in DOMAIN diary : d \in 1 .. Len(plan) \/ d = Len(plan) + 1
    BY <1>1, <1>6
  <2>. QED
    BY <2>1, <2>2, <2>3, <2>4, <1>6
<1>9. PICK here : here = [d \in DOMAIN diary |->
                            {j \in Sights(diary[d]) : diary[d][j].what = p}]
  OBVIOUS
<1>10. Sightings(p) = UNION {{<<d, i>> : i \in here[d]} : d \in DOMAIN diary}
  <2>1. Diary = diary
    BY <1>2, <1>5 DEF Diary
  <2>2. Sightings(p) = UNION {{<<d, i>> : i \in {j \in Sights(diary[d]) : diary[d][j].what = p}} :
                                 d \in DOMAIN diary}
    BY <2>1 DEF Sightings
  <2>3. \A d \in DOMAIN diary : here[d] = {j \in Sights(diary[d]) : diary[d][j].what = p}
    BY <1>9
  <2>4. \A d \in DOMAIN diary :
           {<<d, i>> : i \in {j \in Sights(diary[d]) : diary[d][j].what = p}} = {<<d, i>> : i \in here[d]}
    BY <2>3
  <2>. QED
    BY <2>2, <2>4
<1>11. \A d \in DOMAIN diary : \A i :
          i \in here[d] <=> /\ i \in 1 .. Len(diary[d])
                            /\ diary[d][i].kind \in Shows /\ diary[d][i].what = p
  <2>1. ASSUME NEW d \in DOMAIN diary
        PROVE  here[d] = {j \in 1 .. Len(diary[d]) : diary[d][j].kind \in Shows /\ diary[d][j].what = p}
    <3>1. DOMAIN diary[d] = 1 .. Len(diary[d])
      BY <1>8 DEF Part
    <3>. QED
      BY <3>1, <1>9 DEF Sights, Shows
  <2>. QED
    BY <2>1
<1>12. PICK d \in DOMAIN diary : p \in sights[d]
  <2>1. CASE p \in seen
    BY <2>1, <1>1, <1>6, <1>7
  <2>2. CASE p \notin seen
    <3>1. PICK d \in 1 .. Len(plan) : p \in Seen(plan[d].blocks)
      BY <2>2 DEF BearInv, SightsApart
    <3>2. d \in 1 .. Len(plan) + 1 /\ d # Len(plan) + 1
      BY <1>1
    <3>. QED
      BY <3>1, <3>2, <1>6, <1>7
  <2>. QED
    BY <2>1, <2>2
<1>13. PICK i \in 1 .. Len(diary[d]) : diary[d][i].kind \in Shows /\ diary[d][i].what = p
  BY <1>8, <1>12 DEF Part
<1>14. \A e \in DOMAIN diary : e # d => p \notin sights[e]
  <2>. SUFFICES ASSUME NEW e \in DOMAIN diary, e # d PROVE sights[e] \cap sights[d] = {}
    BY <1>12
  <2>1. /\ e \in 1 .. Len(plan) \/ e = Len(plan) + 1
        /\ d \in 1 .. Len(plan) \/ d = Len(plan) + 1
    BY <1>1, <1>6
  <2>2. \A x \in 1 .. Len(plan) : sights[x] = Seen(plan[x].blocks)
    <3>1. \A x \in 1 .. Len(plan) : x \in 1 .. Len(plan) + 1 /\ x # Len(plan) + 1
      BY <1>1
    <3>. QED
      BY <3>1, <1>7
  <2>3. sights[Len(plan) + 1] = seen
    BY <1>1, <1>7
  <2>4. \A x \in 1 .. Len(plan) : Seen(plan[x].blocks) \cap seen = {}
    BY DEF BearInv, SightsApart
  <2>5. \A x, y \in 1 .. Len(plan) : x # y => Seen(plan[x].blocks) \cap Seen(plan[y].blocks) = {}
    BY DEF BearInv, SightsApart
  <2>. QED
    BY <2>1, <2>2, <2>3, <2>4, <2>5
<1>15. \A e \in DOMAIN diary : \A j \in here[e] : e = d /\ j = i
  <2>. SUFFICES ASSUME NEW e \in DOMAIN diary, NEW j \in here[e] PROVE e = d /\ j = i
    OBVIOUS
  <2>1. j \in 1 .. Len(diary[e]) /\ diary[e][j].kind \in Shows /\ diary[e][j].what = p
    BY <1>11
  <2>2. p \in sights[e]
    BY <2>1, <1>8 DEF Part
  <2>3. e = d
    BY <2>2, <1>14
  <2>. QED
    BY <2>1, <2>3, <1>8, <1>13 DEF Part
<1>16. i \in here[d]
  BY <1>11, <1>13
<1>17. Sightings(p) = {<<d, i>>}
  <2>1. <<d, i>> \in Sightings(p)
    BY <1>10, <1>16
  <2>2. ASSUME NEW s \in Sightings(p) PROVE s = <<d, i>>
    <3>1. PICK e \in DOMAIN diary : s \in {<<e, j>> : j \in here[e]}
      BY <1>10
    <3>2. PICK j \in here[e] : s = <<e, j>>
      BY <3>1
    <3>. QED
      BY <3>2, <1>15
  <2>. QED
    BY <2>1, <2>2
<1>. QED
  BY <1>17

LEMMA BearableDays == BearInv => DaysAreBearable
<1>. SUFFICES ASSUME BearInv PROVE DaysAreBearable
  OBVIOUS
<1>1. SeenOnce
  BY OneSighting DEF SeenOnce
<1>2. ASSUME NEW bs \in DayBlocks
      PROVE  /\ \A i, j \in DOMAIN bs :
                   bs[i].kind = bs[j].kind /\ bs[i].kind \in {"lunch", "dinner"} => i = j
             /\ \A i \in DOMAIN bs :
                   /\ bs[i].kind = "lunch" => bs[i].start \in EarlyLunchStart .. LateLunchLimit
                   /\ bs[i].kind = "dinner" => bs[i].start >= DinnerTime
             /\ \A i \in DOMAIN bs : bs[i].kind = "drive" =>
                   /\ bs[i].length - RestStop * bs[i].rests
                         <= ContinuousDriveLimit * (bs[i].rests + 1)
                   /\ i < Len(bs) => bs[i + 1].kind # "drive"
             /\ ~req.evening => \A i \in DOMAIN bs, j \in Sights(bs) :
                                   bs[i].kind = "dinner" => j < i
  <2>1. PICK sights : Part(bs, Kinds, sights) /\ (~req.evening => Quiet(bs))
    BY EveryDayIsAPart
  <2>2. /\ DOMAIN bs = 1 .. Len(bs) /\ Len(bs) \in Nat
        /\ Sights(bs) = {i \in 1 .. Len(bs) : bs[i].kind \in Shows}
    BY <2>1 DEF Part, Sights, Shows
  <2>3. \A i, j \in DOMAIN bs :
           bs[i].kind = bs[j].kind /\ bs[i].kind \in {"lunch", "dinner"} => i = j
    BY <2>1, <2>2 DEF Part, MealBlocks
  <2>4. \A i \in DOMAIN bs :
           /\ bs[i].kind = "lunch" => bs[i].start \in EarlyLunchStart .. LateLunchLimit
           /\ bs[i].kind = "dinner" => bs[i].start >= DinnerTime
           /\ bs[i].kind = "drive" => bs[i].length - RestStop * bs[i].rests
                                         <= ContinuousDriveLimit * (bs[i].rests + 1)
    BY <2>1, <2>2 DEF Part, InMeasure
  <2>5. \A i \in DOMAIN bs : bs[i].kind = "drive" /\ i < Len(bs) => bs[i + 1].kind # "drive"
    <3>1. \A i \in 1 .. Len(bs) : i < Len(bs) => i + 1 \in 1 .. Len(bs)
      BY <2>2
    <3>. QED
      BY <3>1, <2>1, <2>2 DEF Part
  <2>6. ~req.evening => \A i \in DOMAIN bs, j \in Sights(bs) : bs[i].kind = "dinner" => j < i
    BY <2>1, <2>2 DEF Quiet
  <2>. QED
    BY <2>3, <2>4, <2>5, <2>6
<1>3. MealsOnceInTime
  BY <1>2 DEF MealsOnceInTime
<1>4. DrivesAreRested
  BY <1>2 DEF DrivesAreRested
<1>5. QuietEvenings
  BY <1>2 DEF QuietEvenings
<1>6. CapBeforeLastDay
  <2>1. plan \in Seq(Days)
    BY DEF BearInv, IInv, DaysOnTime
  <2>. QED
    BY <2>1 DEF BearInv, CapOnTheWay, CapBeforeLastDay
<1>. QED
  BY <1>1, <1>3, <1>4, <1>5, <1>6 DEF DaysAreBearable

(* No sight is seen twice in the whole trip, meals come once a day and in  *)
(* time, two hours at the wheel are never passed without a stop, every day *)
(* before the last keeps to the cap of driving, and with the evenings off  *)
(* nothing is seen after dinner, whatever the map, the route and the wish. *)
THEOREM GroupCanBearIt == Spec => []DaysAreBearable
BY BearableDays, AlwaysBear, PTL

(***************************************************************************)
(* THE SELECTOR                                                            *)
(***************************************************************************)


\* A route of places, none twice.
Distinct(r) == \A i, j \in DOMAIN r : r[i] = r[j] => i = j

Sound(r) == r \in Seq(Pois) /\ Distinct(r) /\ Range(r) \subseteq Range(candidates)

Pins == Range(candidates) \cap wish.pinned

Affordable(r) == ~(Range(r) \subseteq wish.pinned) => DrivingTime(r) * 100 <= DriveBudget

TypeInv ==
    /\ wish \in Wishes /\ candidates \in Offers
    /\ stage \in {"window", "pins", "insert", "improve", "selected"}
    /\ lane \in Nat \ {0}
    /\ bestScore \in Int /\ totalVisit \in Nat

TourInv ==
    /\ Sound(tour)
    /\ stage = "pins" => Range(tour) \subseteq wish.pinned
    /\ stage \in {"insert", "improve", "selected"} => Pins \subseteq Range(tour)
    /\ stage \in {"insert", "improve"} => Affordable(tour)
    /\ stage = "insert" /\ ~(Range(tour) \subseteq wish.pinned)
          => (totalVisit + DrivingTime(tour)) * 10 <= TimeBudget

\* From the second direction on, the best route so far holds every pin.
BestInv ==
    /\ Sound(best) /\ Affordable(best)
    /\ lane = 1 => bestScore = -1
    /\ lane > 1 => Pins \subseteq Range(best)

SelectInv == TypeInv /\ TourInv /\ BestInv

-----------------------------------------------------------------------------
(* The wish.                                                               *)

\* What a wish holds, and that its budget is a number.
LEMMA WishType ==
    ASSUME TypeInv
    PROVE  /\ wish.destination \in Cities \cup {NoCity} /\ wish.returns \in BOOLEAN
           /\ wish.days \in Nat /\ wish.cap \in Nat /\ wish.usable \in Int
           /\ DriveBudget \in Int /\ TimeBudget \in Int
<1>1. wish \in [destination : Cities \cup {NoCity}, returns : BOOLEAN, days : Nat,
                cap : Nat, usable : Int, pinned : SUBSET Pois, score : [Pois -> Nat]]
  BY SelectorAssumption DEF TypeInv
<1>2. wish.cap * wish.days \in Int
  BY <1>1
<1>3. DriveBudget \in Int
  BY <1>2 DEF DriveBudget, PinnedHeadroom
<1>4. TimeBudget \in Int
  BY <1>1 DEF TimeBudget
<1> QED
  BY <1>1, <1>3, <1>4

\* The candidates are places, none twice.
LEMMA CandidatesType ==
    ASSUME TypeInv
    PROVE  /\ candidates \in Seq(Pois)
           /\ \A i, j \in DOMAIN candidates : candidates[i] = candidates[j] => i = j
  BY SelectorAssumption DEF TypeInv

-----------------------------------------------------------------------------
(* Sums along a route.                                                     *)

\* A sum of scores is a score: the fold of ScoreSum stays among the naturals.
LEMMA ScoreIsANumber ==
    ASSUME NEW score \in [Pois -> Nat], NEW r \in Seq(Pois)
    PROVE  ScoreSum(score, r) \in Nat
<1>. DEFINE Dom == DOMAIN r
            Eqn(f) == f = [T \in SUBSET Dom |->
                        IF T = {} THEN 0 ELSE f[T \ {Max(T)}] + score[r[Max(T)]]]
            F == CHOOSE f : Eqn(f)
            add == [e \in Nat \X Pois |-> e[1] + score[e[2]]]
<1>1. ScoreSum(score, r) = F[Dom]
  BY DEF ScoreSum, FoldLeft, MapThenFoldSet
<1>2. PICK g : g = add
  OBVIOUS
<1>3. g \in [Nat \X Pois -> Nat] /\ \A n \in Nat, p \in Pois : g[<<n, p>>] = n + score[p]
  BY <1>2
<1>4. Foldable(Nat, Pois, g, 0, r)
  BY <1>3 DEF Foldable
<1>5. Dom = 1 .. Len(r) /\ Len(r) \in Nat /\ \A i \in Dom : r[i] \in Pois
  OBVIOUS
<1>. HIDE DEF Dom
<1>6. \A T \in SUBSET Dom : T # {} => r[Max(T)] \in Pois
  <2>1. \A T \in SUBSET Dom : T # {} => Max(T) \in T
    BY <1>5, MaxIsOne
  <2>. QED
    BY <1>5, <2>1
<1>7. \E f : Eqn(f)
  <2>1. PICK f : IsLeftFold(Nat, g, 0, r, f)
    BY <1>4, LeftFoldExists
  <2>2. /\ f \in [SUBSET Dom -> Nat] /\ f[{}] = 0
        /\ \A T \in SUBSET Dom : T # {} => f[T] = g[<<f[T \ {Max(T)}], r[Max(T)]>>]
    BY <1>5, <2>1 DEF IsLeftFold
  <2>3. ASSUME NEW T \in SUBSET Dom, T # {} PROVE f[T] = f[T \ {Max(T)}] + score[r[Max(T)]]
    <3>1. f[T \ {Max(T)}] \in Nat /\ r[Max(T)] \in Pois
      BY <1>6, <2>2, <2>3
    <3>2. f[T] = g[<<f[T \ {Max(T)}], r[Max(T)]>>]
      BY <2>2, <2>3
    <3>. QED
      BY <1>3, <3>1, <3>2
  <2>4. Eqn(f)
    BY <2>2, <2>3
  <2>. QED
    BY <2>4
<1>8. Eqn(F)
  BY <1>7
<1>. HIDE DEF F
<1>9. ASSUME NEW T \in SUBSET Dom, T # {}, F[T \ {Max(T)}] \in Nat
      PROVE  F[T] = g[<<F[T \ {Max(T)}], r[Max(T)]>>]
  <2>1. F[T] = F[T \ {Max(T)}] + score[r[Max(T)]]
    BY <1>8, <1>9
  <2>. QED
    BY <1>3, <1>6, <1>9, <2>1
<1>10. F[{}] = 0
  BY <1>8
<1>11. FoldsLeft(Nat, g, 0, r, F)
  BY <1>5, <1>9, <1>10 DEF FoldsLeft
<1>12. F[1 .. Len(r)] = Folded(Nat, g, 0, r)
  BY <1>4, <1>11, LeftFoldRuns
<1>13. Folded(Nat, g, 0, r) \in Nat
  BY <1>4, FoldedType
<1>. QED
  BY <1>1, <1>5, <1>12, <1>13

\* The stops a route leads by, from home to the destination and back.
StopsOf(destination, returns, r) ==
    <<OriginCity>> \o r \o (IF destination = NoCity THEN <<>> ELSE <<destination>>)
    \o (IF returns THEN <<OriginCity>> ELSE <<>>)

\* A sum of times is a time: the fold of RouteMinutes stays among the naturals.
LEMMA MinutesAreANumber ==
    ASSUME NEW destination \in Cities \cup {NoCity}, NEW returns \in BOOLEAN, NEW r \in Seq(Pois)
    PROVE  RouteMinutes(destination, returns, r) \in Nat
<1>. DEFINE stops == StopsOf(destination, returns, r)
            steps == [i \in 1 .. Len(stops) - 1 |-> i]
            Dom == DOMAIN steps
            Eqn(f) == f = [T \in SUBSET Dom |-> IF T = {} THEN 0
                        ELSE f[T \ {Max(T)}] + Drive[stops[steps[Max(T)]]][stops[steps[Max(T)] + 1]]]
            F == CHOOSE f : Eqn(f)
<1>1. RouteMinutes(destination, returns, r) = F[Dom]
  BY DEF RouteMinutes, FoldLeft, MapThenFoldSet, StopsOf
<1>2. stops \in Seq(Places) /\ Len(stops) \in Nat /\ Len(stops) >= 1
  <2>1. PICK u : u = <<OriginCity>> \o r
    OBVIOUS
  <2>2. PICK v : v = IF destination = NoCity THEN <<>> ELSE <<destination>>
    OBVIOUS
  <2>3. PICK w : w = IF returns THEN <<OriginCity>> ELSE <<>>
    OBVIOUS
  <2>4. <<OriginCity>> \in Seq(Places) /\ r \in Seq(Places) /\ Len(<<OriginCity>>) = 1
    BY MapAssumption DEF Places
  <2>5. u \in Seq(Places) /\ Len(u) >= 1
    BY <2>1, <2>4
  <2>6. v \in Seq(Places) /\ w \in Seq(Places)
    <3>1. \A p \in Places : <<p>> \in Seq(Places)
      OBVIOUS
    <3>2. <<>> \in Seq(Places)
      OBVIOUS
    <3>3. destination # NoCity => destination \in Places
      BY DEF Places
    <3>. QED
      BY <2>2, <2>3, <2>4, <3>1, <3>2, <3>3
  <2>7. stops = (u \o v) \o w
    BY <2>1, <2>2, <2>3 DEF StopsOf
  <2>. QED
    BY <2>5, <2>6, <2>7
<1>. HIDE DEF stops
<1>3. PICK n : n = Len(stops) - 1
  OBVIOUS
<1>4. /\ n \in Nat /\ Dom = 1 .. n /\ Len(steps) = n /\ steps \in Seq(1 .. n)
      /\ \A i \in 1 .. n : steps[i] = i
  BY <1>2, <1>3
<1>5. \A i \in 1 .. n : Drive[stops[i]][stops[i + 1]] \in Nat
  <2>1. \A i \in 1 .. n : stops[i] \in Places /\ stops[i + 1] \in Places
    BY <1>2, <1>3
  <2>. QED
    BY <2>1, MapAssumption
<1>6. PICK g : g = [e \in Nat \X (1 .. n) |-> e[1] + Drive[stops[e[2]]][stops[e[2] + 1]]]
  OBVIOUS
<1>7. /\ g \in [Nat \X (1 .. n) -> Nat]
      /\ \A t \in Nat, i \in 1 .. n : g[<<t, i>>] = t + Drive[stops[i]][stops[i + 1]]
  BY <1>5, <1>6
<1>8. PICK s : s = steps
  OBVIOUS
<1>9. Foldable(Nat, 1 .. n, g, 0, s) /\ Len(s) = n /\ \A i \in 1 .. n : s[i] = i
  BY <1>4, <1>7, <1>8 DEF Foldable
<1>10. \A T \in SUBSET Dom : T # {} => Max(T) \in 1 .. n /\ steps[Max(T)] = Max(T)
  <2>1. \A T \in SUBSET (1 .. n) : T # {} => Max(T) \in T
    BY <1>4, MaxIsOne
  <2>. QED
    BY <1>4, <2>1
<1>. HIDE DEF Dom, steps
<1>11. \E f : Eqn(f)
  <2>1. PICK f : IsLeftFold(Nat, g, 0, s, f)
    BY <1>9, LeftFoldExists
  <2>2. /\ f \in [SUBSET Dom -> Nat] /\ f[{}] = 0
        /\ \A T \in SUBSET Dom : T # {} => f[T] = g[<<f[T \ {Max(T)}], s[Max(T)]>>]
    BY <1>4, <1>9, <2>1 DEF IsLeftFold
  <2>3. ASSUME NEW T \in SUBSET Dom, T # {}
        PROVE  f[T] = f[T \ {Max(T)}] + Drive[stops[steps[Max(T)]]][stops[steps[Max(T)] + 1]]
    <3>1. f[T \ {Max(T)}] \in Nat /\ Max(T) \in 1 .. n /\ s[Max(T)] = Max(T) /\ steps[Max(T)] = Max(T)
      BY <1>9, <1>10, <2>2, <2>3
    <3>2. f[T] = g[<<f[T \ {Max(T)}], s[Max(T)]>>]
      BY <2>2, <2>3
    <3>. QED
      BY <1>7, <3>1, <3>2
  <2>4. Eqn(f)
    BY <2>2, <2>3
  <2>. QED
    BY <2>4
<1>12. Eqn(F)
  BY <1>11
<1>. HIDE DEF F
<1>13. ASSUME NEW T \in SUBSET Dom, T # {}, F[T \ {Max(T)}] \in Nat
       PROVE  F[T] = g[<<F[T \ {Max(T)}], s[Max(T)]>>]
  <2>1. F[T] = F[T \ {Max(T)}] + Drive[stops[steps[Max(T)]]][stops[steps[Max(T)] + 1]]
    BY <1>12, <1>13
  <2>2. Max(T) \in 1 .. n /\ s[Max(T)] = Max(T) /\ steps[Max(T)] = Max(T)
    BY <1>9, <1>10, <1>13
  <2>. QED
    BY <1>7, <1>13, <2>1, <2>2
<1>14. F[{}] = 0
  BY <1>12
<1>15. FoldsLeft(Nat, g, 0, s, F)
  BY <1>4, <1>9, <1>13, <1>14 DEF FoldsLeft
<1>16. F[1 .. Len(s)] = Folded(Nat, g, 0, s) /\ Folded(Nat, g, 0, s) \in Nat
  BY <1>9, <1>15, LeftFoldRuns, FoldedType
<1>. QED
  BY <1>1, <1>4, <1>9, <1>16

-----------------------------------------------------------------------------
(* Routes.                                                                 *)

\* A route without repetition is no longer than the list of places.
LEMMA SoundTour ==
    ASSUME NEW r, r \in Seq(Pois), Distinct(r)
    PROVE  r \in Tours
<1>1. /\ Len(r) \in Nat /\ DOMAIN r = 1 .. Len(r)
      /\ r \in [1 .. Len(r) -> Pois]
  OBVIOUS
<1>2. IsFiniteSet(Pois)
  BY SelectorAssumption
<1>3. r \in Injection(1 .. Len(r), Pois)
  BY <1>1 DEF Distinct, Injection, IsInjective
<1>4. Cardinality(1 .. Len(r)) <= Cardinality(Pois)
  BY <1>2, <1>3, FS_Injection
<1>5. Cardinality(1 .. Len(r)) = Len(r)
  BY <1>1, FS_Interval
<1>6. Cardinality(Pois) \in Nat
  BY <1>2, FS_CardinalityType
<1>7. Len(r) \in 0 .. Cardinality(Pois)
  BY <1>1, <1>4, <1>5, <1>6
<1>8. r \in BoundedSeq(Pois, Cardinality(Pois))
  BY <1>1, <1>7 DEF BoundedSeq, SeqOf
<1> QED
  BY <1>8 DEF Tours, Distinct

\* Its driving time and its score are numbers.
LEMMA SoundNumbers ==
    ASSUME TypeInv, NEW r, r \in Seq(Pois), Distinct(r)
    PROVE  DrivingTime(r) \in Nat /\ ScoreOf(r) \in Nat
<1>1. wish.score \in [Pois -> Nat]
  BY SelectorAssumption DEF TypeInv
<1>2. ScoreOf(r) \in Nat
  BY <1>1, ScoreIsANumber DEF ScoreOf
<1>3. DrivingTime(r) \in Nat
  BY WishType, MinutesAreANumber DEF DrivingTime
<1> QED
  BY <1>2, <1>3

\* A place inserted anywhere into a route that has not got it.
LEMMA InsertedSound ==
    ASSUME NEW r, r \in Seq(Pois), Distinct(r), NEW p \in Pois, p \notin Range(r),
           NEW i \in 1 .. Len(r) + 1
    PROVE  /\ Inserted(r, i, p) \in Seq(Pois) /\ Distinct(Inserted(r, i, p))
           /\ Range(Inserted(r, i, p)) = Range(r) \cup {p}
<1> DEFINE s == Inserted(r, i, p)
<1>1. /\ Len(r) \in Nat /\ DOMAIN r = 1 .. Len(r)
      /\ \A k \in 1 .. Len(r) : r[k] \in Pois /\ r[k] # p
  BY DEF Range
<1>2. /\ DOMAIN s = 1 .. Len(r) + 1
      /\ \A k \in 1 .. Len(r) + 1 :
            s[k] = IF k < i THEN r[k] ELSE IF k = i THEN p ELSE r[k - 1]
  BY DEF Inserted
<1>3. \A k \in 1 .. Len(r) + 1 : s[k] \in Pois
  BY <1>1, <1>2
<1>4. s \in [1 .. Len(r) + 1 -> Pois]
  BY <1>3 DEF Inserted
<1>5. s \in Seq(Pois)
  BY <1>1, <1>4
<1>6. Distinct(s)
  BY <1>1, <1>2 DEF Distinct
<1>7. Range(s) \subseteq Range(r) \cup {p}
  BY <1>1, <1>2 DEF Range
<1>8. p \in Range(s)
  BY <1>1, <1>2 DEF Range
<1>9. ASSUME NEW k \in 1 .. Len(r) PROVE r[k] \in Range(s)
  <2>1. CASE k < i BY <2>1, <1>1, <1>2 DEF Range
  <2>2. CASE i <= k
    <3>1. k + 1 \in DOMAIN s /\ s[k + 1] = r[k]
      BY <2>2, <1>1, <1>2
    <3> QED
      BY <3>1 DEF Range
  <2> QED
    BY <2>1, <2>2, <1>1
<1> QED
  BY <1>1, <1>5, <1>6, <1>7, <1>8, <1>9 DEF Range

\* A part of the route turned round: the same places.
LEMMA TurnedSound ==
    ASSUME NEW r, r \in Seq(Pois), Distinct(r), NEW i \in DOMAIN r, NEW j \in DOMAIN r
    PROVE  /\ Turned(r, i, j) \in Seq(Pois) /\ Distinct(Turned(r, i, j))
           /\ Range(Turned(r, i, j)) = Range(r)
<1> DEFINE s == Turned(r, i, j)
<1>1. /\ Len(r) \in Nat /\ DOMAIN r = 1 .. Len(r)
      /\ \A k \in 1 .. Len(r) : r[k] \in Pois
  OBVIOUS
<1>2. /\ DOMAIN s = 1 .. Len(r)
      /\ \A k \in 1 .. Len(r) : s[k] = IF k \in i .. j THEN r[i + j - k] ELSE r[k]
  BY <1>1 DEF Turned
<1>3. \A k \in i .. j : i + j - k \in i .. j /\ i + j - k \in 1 .. Len(r)
  BY <1>1
<1>4. \A k \in 1 .. Len(r) : s[k] \in Pois
  BY <1>1, <1>2, <1>3
<1>5. s \in [1 .. Len(r) -> Pois]
  BY <1>1, <1>4 DEF Turned
<1>6. s \in Seq(Pois)
  BY <1>1, <1>5
<1>7. ASSUME NEW a \in 1 .. Len(r), NEW b \in 1 .. Len(r), s[a] = s[b] PROVE a = b
  <2> DEFINE flip(k) == IF k \in i .. j THEN i + j - k ELSE k
  <2>1. flip(a) \in 1 .. Len(r) /\ flip(b) \in 1 .. Len(r)
    BY <1>1, <1>3
  <2>2. s[a] = r[flip(a)] /\ s[b] = r[flip(b)]
    BY <1>2
  <2>3. flip(a) = flip(b)
    BY <2>1, <2>2, <1>7, <1>1 DEF Distinct
  <2> QED
    BY <2>3, <1>1
<1>8. Range(s) \subseteq Range(r)
  BY <1>1, <1>2, <1>3 DEF Range
<1>9. ASSUME NEW k \in 1 .. Len(r) PROVE r[k] \in Range(s)
  <2>1. CASE k \in i .. j
    <3>1. i + j - k \in DOMAIN s /\ s[i + j - k] = r[i + j - (i + j - k)]
      BY <2>1, <1>2, <1>3
    <3>2. i + j - (i + j - k) = k
      BY <1>1
    <3> QED
      BY <3>1, <3>2 DEF Range
  <2>2. CASE k \notin i .. j
    BY <2>2, <1>2 DEF Range
  <2> QED
    BY <2>1, <2>2
<1>10. Distinct(s)
  BY <1>2, <1>7 DEF Distinct
<1>11. Range(s) = Range(r)
  BY <1>1, <1>8, <1>9 DEF Range
<1> QED
  BY <1>6, <1>10, <1>11

\* One more place at the end.
LEMMA AppendedSound ==
    ASSUME NEW r, r \in Seq(Pois), Distinct(r), NEW p \in Pois, p \notin Range(r)
    PROVE  /\ Append(r, p) \in Seq(Pois) /\ Distinct(Append(r, p))
           /\ Range(Append(r, p)) = Range(r) \cup {p}
<1>1. /\ Len(r) \in Nat /\ DOMAIN r = 1 .. Len(r)
      /\ \A k \in 1 .. Len(r) : r[k] # p
  BY DEF Range
<1>2. /\ DOMAIN Append(r, p) = 1 .. Len(r) + 1
      /\ \A k \in 1 .. Len(r) : Append(r, p)[k] = r[k]
      /\ Append(r, p)[Len(r) + 1] = p
  BY <1>1
<1>3. Distinct(Append(r, p))
  BY <1>1, <1>2 DEF Distinct
<1>4. Range(Append(r, p)) = Range(r) \cup {p}
  BY <1>1, <1>2 DEF Range
<1> QED
  BY <1>3, <1>4

-----------------------------------------------------------------------------
(* The steps.                                                              *)

\* The invariant holds when a selection begins.
LEMMA SelectInitInv ==
    ASSUME SelectInit
    PROVE  SelectInv
<1>1. TypeInv
  BY DEF SelectInit, SelectStart, TypeInv
<1>2. \A r : r = <<>> => Sound(r) /\ Range(r) = {}
  BY DEF Sound, Distinct, Range
<1>3. TourInv
  BY <1>2 DEF SelectInit, SelectStart, TourInv
<1>4. BestInv
  BY <1>2 DEF SelectInit, SelectStart, BestInv, Affordable
<1> QED
  BY <1>1, <1>3, <1>4 DEF SelectInv

\* Steps that leave the route and the best one alone keep what is said of them.
LEMMA SkipWindowInv ==
    ASSUME SelectInv, SkipWindow
    PROVE  SelectInv'
<1> USE DEF SkipWindow
<1>1. TypeInv'
  BY DEF SelectInv, TypeInv
<1>2. TourInv'
  BY DEF SelectInv, TourInv, Sound, Pins
<1>3. Pins = {}
  <2>1. \A c \in DOMAIN candidates : candidates[c] \notin wish.pinned
    BY DEF Pool, InWindow
  <2> QED
    BY <2>1 DEF Pins, Range
<1>4. BestInv'
  BY <1>3 DEF SelectInv, TypeInv, BestInv, Sound, Pins, Affordable, DrivingTime, DriveBudget
<1> QED
  BY <1>1, <1>2, <1>4 DEF SelectInv

LEMMA WindowsDoneInv ==
    ASSUME SelectInv, WindowsDone
    PROVE  SelectInv'
<1> USE DEF WindowsDone
<1>1. TypeInv'
  BY DEF SelectInv, TypeInv
<1>2. lane > 1
  <2>0. (wish.days <= 2) \in BOOLEAN
    OBVIOUS
  <2>1. Directions \in Seq(SUBSET Pois) /\ Directions # <<>>
    BY <2>0, SelectorAssumption DEF Directions
  <2>2. 1 \in DOMAIN Directions
    BY <2>1
  <2> QED
    BY <2>2 DEF SelectInv, TypeInv
<1>3. TourInv'
  BY <1>2 DEF SelectInv, BestInv, TourInv, Sound, Pins, Affordable, DrivingTime, DriveBudget
<1>4. BestInv'
  BY DEF SelectInv, BestInv, Sound, Pins, Affordable, DrivingTime, DriveBudget
<1> QED
  BY <1>1, <1>3, <1>4 DEF SelectInv

LEMMA OpenWindowInv ==
    ASSUME SelectInv, OpenWindow
    PROVE  SelectInv'
<1> USE DEF OpenWindow
<1>1. TypeInv'
  BY DEF SelectInv, TypeInv
<1>2. TourInv'
  BY DEF TourInv, Sound, Distinct, Range
<1>3. BestInv'
  BY DEF SelectInv, BestInv, Sound, Pins, Affordable, DrivingTime, DriveBudget
<1> QED
  BY <1>1, <1>2, <1>3 DEF SelectInv

LEMMA TakePinInv ==
    ASSUME SelectInv, TakePin
    PROVE  SelectInv'
<1> USE DEF TakePin
<1>1. PICK c \in PinsLeft : /\ tour' = Append(tour, candidates[c])
                            /\ totalVisit' = totalVisit + VisitTime[candidates[c]]
  OBVIOUS
<1>2. /\ candidates[c] \in Pois /\ candidates[c] \in wish.pinned
      /\ candidates[c] \in Range(candidates) /\ candidates[c] \notin Range(tour)
  BY <1>1, CandidatesType DEF SelectInv, PinsLeft, Pool, Range
<1>3. VisitTime[candidates[c]] \in Nat
  BY <1>2, MapAssumption
<1>4. TypeInv'
  BY <1>1, <1>3 DEF SelectInv, TypeInv
<1>5. tour \in Seq(Pois) /\ Distinct(tour)
  BY DEF SelectInv, TourInv, Sound
<1>6. Sound(tour)' /\ Range(tour') \subseteq wish.pinned
  BY <1>1, <1>2, <1>5, AppendedSound DEF SelectInv, TourInv, Sound, Distinct
<1>7. TourInv'
  BY <1>6 DEF TourInv
<1>8. BestInv'
  BY DEF SelectInv, BestInv, Sound, Pins, Affordable, DrivingTime, DriveBudget
<1> QED
  BY <1>4, <1>7, <1>8 DEF SelectInv

LEMMA PinsTakenInv ==
    ASSUME SelectInv, PinsTaken
    PROVE  SelectInv'
<1> USE DEF PinsTaken
<1>1. TypeInv'
  BY DEF SelectInv, TypeInv
<1>2. Pins \subseteq Range(tour)
  <2>1. \A c \in DOMAIN candidates : candidates[c] \in wish.pinned => c \in Pool
    BY DEF Pool, InWindow
  <2>2. \A c \in DOMAIN candidates : candidates[c] \in wish.pinned => candidates[c] \in Range(tour)
    BY <2>1 DEF PinsLeft
  <2> QED
    BY <2>2 DEF Pins, Range
<1>3. Range(tour) \subseteq wish.pinned
  BY DEF SelectInv, TourInv
<1>4. TourInv'
  BY <1>2, <1>3 DEF SelectInv, TourInv, Sound, Pins, Affordable
<1>5. BestInv'
  BY DEF SelectInv, BestInv, Sound, Pins, Affordable, DrivingTime, DriveBudget
<1> QED
  BY <1>1, <1>4, <1>5 DEF SelectInv

LEMMA InsertInv ==
    ASSUME SelectInv, Insert
    PROVE  SelectInv'
<1> USE DEF Insert
<1>1. PICK c \in Pool, i \in Positions :
          CanGo(c, i) /\ tour' = With(c, i) /\ totalVisit' = totalVisit + VisitTime[candidates[c]]
  OBVIOUS
<1>2. /\ candidates[c] \in Pois
      /\ candidates[c] \in Range(candidates) /\ candidates[c] \notin Range(tour)
  BY <1>1, CandidatesType DEF SelectInv, Pool, CanGo, Range
<1>3. VisitTime[candidates[c]] \in Nat
  BY <1>2, MapAssumption
<1>4. TypeInv'
  BY <1>1, <1>3 DEF SelectInv, TypeInv
<1>5. tour \in Seq(Pois) /\ Distinct(tour) /\ i \in 1 .. Len(tour) + 1
  BY DEF SelectInv, TourInv, Sound, Positions
<1>6. /\ tour' \in Seq(Pois) /\ Distinct(tour')
      /\ Range(tour') = Range(tour) \cup {candidates[c]}
  BY <1>1, <1>2, <1>5, InsertedSound DEF With
<1>7. Sound(tour)' /\ Pins' \subseteq Range(tour')
  BY <1>2, <1>6 DEF SelectInv, TourInv, Sound, Distinct, Pins
<1>8. /\ DrivingTime(tour)' * 100 <= DriveBudget'
      /\ (totalVisit' + DrivingTime(tour)') * 10 <= TimeBudget'
  <2>1. DrivingTime(tour)' = DrivingTime(With(c, i))
    BY <1>1 DEF DrivingTime
  <2>2. DriveBudget' = DriveBudget /\ TimeBudget' = TimeBudget
    BY DEF DriveBudget, TimeBudget
  <2> QED
    BY <1>1, <2>1, <2>2 DEF CanGo
<1>9. TourInv'
  BY <1>7, <1>8 DEF TourInv, Affordable
<1>10. BestInv'
  BY DEF SelectInv, BestInv, Sound, Pins, Affordable, DrivingTime, DriveBudget
<1> QED
  BY <1>4, <1>9, <1>10 DEF SelectInv

\* The first direction always wins: there is no worse score than none.
LEMMA FullInv ==
    ASSUME SelectInv, Full
    PROVE  SelectInv'
<1> USE DEF Full
<1>1. ScoreOf(tour) \in Nat
  BY SoundNumbers DEF SelectInv, TourInv, Sound
<1>2. TypeInv'
  BY <1>1 DEF SelectInv, TypeInv
<1>3. TourInv'
  BY DEF SelectInv, TourInv, Sound, Pins, Affordable, DrivingTime, DriveBudget
<1>4. CASE best' = tour /\ bestScore' = ScoreOf(tour) /\ lane' = lane + 1
  <2>1. Sound(best)' /\ Affordable(best)'
    BY <1>4 DEF SelectInv, TourInv, Sound, Affordable, DrivingTime, DriveBudget
  <2>2. lane' # 1 /\ Pins' \subseteq Range(best')
    BY <1>4 DEF SelectInv, TypeInv, TourInv, Pins
  <2> QED
    BY <1>2, <1>3, <2>1, <2>2 DEF SelectInv, BestInv
<1>5. CASE ~Wins /\ UNCHANGED <<best, bestScore>> /\ lane' = lane + 1
  <2>1. lane # 1
    BY <1>1, <1>5 DEF SelectInv, BestInv, Wins
  <2> QED
    BY <1>5, <1>2, <1>3, <2>1 DEF SelectInv, TypeInv, BestInv, Sound, Pins, Affordable, DrivingTime, DriveBudget
<1>6. CASE UNCHANGED <<lane, best, bestScore>>
  BY <1>2, <1>3, <1>6 DEF SelectInv, BestInv, Sound, Pins, Affordable, DrivingTime, DriveBudget
<1> QED
  BY <1>2, <1>3, <1>4, <1>5, <1>6 DEF SelectInv

\* Untangling keeps the places and only shortens the way.
LEMMA ImproveInv ==
    ASSUME SelectInv, Improve
    PROVE  SelectInv'
<1> USE DEF Improve
<1>1. PICK i \in DOMAIN tour, j \in DOMAIN tour : Tangled(i, j) /\ tour' = Turned(tour, i, j)
  OBVIOUS
<1>2. TypeInv'
  BY DEF SelectInv, TypeInv
<1>3. tour \in Seq(Pois) /\ Distinct(tour)
  BY DEF SelectInv, TourInv, Sound
<1>4. tour' \in Seq(Pois) /\ Distinct(tour') /\ Range(tour') = Range(tour)
  BY <1>1, <1>3, TurnedSound
<1>5. /\ DrivingTime(tour) \in Nat /\ DrivingTime(Turned(tour, i, j)) \in Nat
      /\ DriveBudget \in Int
  BY <1>1, <1>3, <1>4, SoundNumbers, WishType DEF SelectInv
<1>6. DrivingTime(tour) * 100 <= DriveBudget =>
          DrivingTime(Turned(tour, i, j)) * 100 <= DriveBudget
  BY <1>1, <1>5 DEF Tangled
<1>7. DrivingTime(tour)' = DrivingTime(Turned(tour, i, j)) /\ DriveBudget' = DriveBudget
  BY <1>1 DEF DrivingTime, DriveBudget
<1>8. Affordable(tour)'
  BY <1>4, <1>6, <1>7 DEF SelectInv, TourInv, Affordable
<1>9. TourInv'
  BY <1>4, <1>8 DEF SelectInv, TourInv, Sound, Distinct, Pins
<1>10. BestInv'
  BY DEF SelectInv, BestInv, Sound, Pins, Affordable, DrivingTime, DriveBudget
<1> QED
  BY <1>2, <1>9, <1>10 DEF SelectInv

LEMMA OrientInv ==
    ASSUME SelectInv, Orient
    PROVE  SelectInv'
<1> USE DEF Orient
<1>1. TypeInv'
  BY DEF SelectInv, TypeInv
<1>2. tour \in Seq(Pois) /\ Distinct(tour)
  BY DEF SelectInv, TourInv, Sound
<1>3. tour' \in Seq(Pois) /\ Distinct(tour') /\ Range(tour') = Range(tour)
  <2>1. CASE tour' = tour
    BY <2>1, <1>2
  <2>2. CASE Len(tour) >= 2 /\ tour' = Turned(tour, 1, Len(tour))
    <3>1. 1 \in DOMAIN tour /\ Len(tour) \in DOMAIN tour
      BY <2>2, <1>2
    <3> QED
      BY <2>2, <3>1, <1>2, TurnedSound
  <2> QED
    BY <2>1, <2>2
<1>4. TourInv'
  BY <1>3 DEF SelectInv, TourInv, Sound, Distinct, Pins
<1>5. BestInv'
  BY DEF SelectInv, BestInv, Sound, Pins, Affordable, DrivingTime, DriveBudget
<1> QED
  BY <1>1, <1>4, <1>5 DEF SelectInv

\* Every step keeps the invariant.
LEMMA SelectStepInv ==
    ASSUME SelectInv, [SelectNext]_selectVars
    PROVE  SelectInv'
<1>1. CASE SelectNext
  BY <1>1, SkipWindowInv, WindowsDoneInv, OpenWindowInv, TakePinInv, PinsTakenInv,
     InsertInv, FullInv, ImproveInv, OrientInv DEF SelectNext
<1>2. CASE UNCHANGED selectVars
  <2>1. TypeInv' /\ BestInv'
    BY <1>2 DEF selectVars, SelectInv, TypeInv, BestInv, Sound, Pins, Affordable,
                DrivingTime, DriveBudget
  <2>2. TourInv'
    BY <1>2 DEF selectVars, SelectInv, TourInv, Sound, Pins, Affordable,
                DrivingTime, DriveBudget, TimeBudget
  <2> QED
    BY <2>1, <2>2 DEF SelectInv
<1> QED
  BY <1>1, <1>2

LEMMA SelectInvHolds == SelectSpec => []SelectInv
<1>1. SelectInit => SelectInv
  BY SelectInitInv
<1>2. SelectInv /\ [SelectNext]_selectVars => SelectInv'
  BY SelectStepInv
<1> QED
  BY <1>1, <1>2, PTL DEF SelectSpec

-----------------------------------------------------------------------------
(* The theorems.                                                           *)

LEMMA SelectedRoute == SelectInv => RouteSound /\ BudgetKept /\ RouteAsAsked
<1>1. SelectInv => RouteSound
  BY DEF SelectInv, TypeInv, TourInv, Sound, Distinct, Pins, RouteSound
<1>2. SelectInv => BudgetKept
  BY DEF SelectInv, TourInv, Affordable, BudgetKept
<1>. QED
  BY <1>1, <1>2 DEF RouteAsAsked

(* Whatever the map and the wish, the selector's route visits candidates   *)
(* only, none twice, and from the moment the pins are in loses none of     *)
(* them: not to a budget, not to a better direction, not to the untangling *)
(* and not to the turn at the end.                                         *)
THEOREM RouteIsSound == SelectSpec => []RouteSound
BY SelectedRoute, SelectInvHolds, PTL

(* A route with anything in it besides the pins keeps within the driving   *)
(* of the whole trip, and while it grows within its hours.                 *)
THEOREM RouteKeepsBudget == SelectSpec => []BudgetKept
BY SelectedRoute, SelectInvHolds, PTL

(* Both at once: what the run checks of the selector.                      *)
THEOREM RouteIsAsAsked == SelectSpec => []RouteAsAsked
BY SelectedRoute, SelectInvHolds, PTL

(***************************************************************************)
(* THE HANDLER                                                             *)
(***************************************************************************)


-----------------------------------------------------------------------------
(* The lists of the handler.                                               *)

\* How many of these positions there are up to i.
Rank(at, i) == Cardinality({j \in at : j <= i})

LEMMA RankCounts ==
  ASSUME NEW at, IsFiniteSet(at), at \subseteq Nat
  PROVE  \A n \in 1 .. Cardinality(at) :
            \E i \in at : Rank(at, i) = n /\ \A j \in at : Rank(at, j) = n => j = i
<1>. DEFINE c == Cardinality(at)
            rank == [i \in at |-> Rank(at, i)]
<1>1. c \in Nat
  BY FS_CardinalityType
<1>2. ASSUME NEW i \in at PROVE Rank(at, i) \in 1 .. c
  <2>1. {j \in at : j <= i} \in SUBSET at
    OBVIOUS
  <2>2. /\ IsFiniteSet({j \in at : j <= i})
        /\ Cardinality({j \in at : j <= i}) \in Nat
        /\ Cardinality({j \in at : j <= i}) <= c
    BY <2>1, FS_Subset, FS_CardinalityType
  <2>3. i \in {j \in at : j <= i}
    OBVIOUS
  <2>4. Cardinality({j \in at : j <= i}) # 0
    BY <2>2, <2>3, FS_EmptySet
  <2>. QED
    BY <1>1, <2>2, <2>4 DEF Rank
<1>3. ASSUME NEW i \in at, NEW k \in at, i < k PROVE Rank(at, i) # Rank(at, k)
  <2>1. {j \in at : j <= k} \in SUBSET at
    OBVIOUS
  <2>2. IsFiniteSet({j \in at : j <= k})
    BY <2>1, FS_Subset
  <2>3. {j \in at : j <= i} \in SUBSET {j \in at : j <= k}
    <3>1. i \in Nat /\ k \in Nat /\ \A j \in at : j \in Nat
      OBVIOUS
    <3>2. \A j \in at : j <= i => j <= k
      BY <1>3, <3>1
    <3>. QED
      BY <3>2
  <2>4. k \in {j \in at : j <= k} /\ k \notin {j \in at : j <= i}
    BY <1>3
  <2>5. {j \in at : j <= i} # {j \in at : j <= k}
    BY <2>4
  <2>. QED
    BY <2>2, <2>3, <2>5, FS_Subset DEF Rank
<1>4. \A i, k \in at : Rank(at, i) = Rank(at, k) => i = k
  <2>1. SUFFICES ASSUME NEW i \in at, NEW k \in at, Rank(at, i) = Rank(at, k) PROVE i = k
    OBVIOUS
  <2>2. i \in Nat /\ k \in Nat
    OBVIOUS
  <2>3. ~(i < k) /\ ~(k < i)
    BY <1>3, <2>1
  <2>. QED
    BY <2>2, <2>3
<1>5. rank \in Injection(at, 1 .. c)
  BY <1>2, <1>4 DEF Injection, IsInjective
<1>6. IsFiniteSet(1 .. c) /\ Cardinality(1 .. c) = c
  BY <1>1, FS_Interval
<1>7. rank \in Surjection(at, 1 .. c)
  BY <1>5, <1>6, FS_Injection
<1>8. \A n \in 1 .. c : \E i \in at : rank[i] = n
  BY <1>7 DEF Surjection
<1>. QED
  BY <1>4, <1>8

\* What Where leaves of a list: its places that are in S, none of them twice.
LEMMA WhereChooses ==
  ASSUME NEW P, NEW list \in Seq(P), NEW S
  PROVE  /\ Where(list, S) \in Seq(P)
         /\ Range(Where(list, S)) = Range(list) \cap S
         /\ Distinct(list) => Distinct(Where(list, S))
<1>. DEFINE at == {i \in DOMAIN list : list[i] \in S}
            c == Cardinality(at)
            nth(n) == CHOOSE i \in at : Rank(at, i) = n
<1>1. DOMAIN list = 1 .. Len(list) /\ Len(list) \in Nat /\ \A i \in DOMAIN list : list[i] \in P
  OBVIOUS
<1>2. IsFiniteSet(at) /\ at \subseteq Nat
  <2>1. IsFiniteSet(1 .. Len(list))
    BY <1>1, FS_Interval
  <2>2. at \in SUBSET (1 .. Len(list))
    BY <1>1
  <2>. QED
    BY <2>1, <2>2, FS_Subset
<1>3. c \in Nat
  BY <1>2, FS_CardinalityType
<1>4. \A n \in 1 .. c : \E i \in at : Rank(at, i) = n /\ \A j \in at : Rank(at, j) = n => j = i
  BY <1>2, RankCounts
<1>5. \A i \in at : Rank(at, i) \in 1 .. c
  <2>. SUFFICES ASSUME NEW i \in at PROVE Rank(at, i) \in 1 .. c
    OBVIOUS
  <2>1. {j \in at : j <= i} \in SUBSET at /\ i \in {j \in at : j <= i}
    BY <1>2
  <2>2. /\ IsFiniteSet({j \in at : j <= i})
        /\ Cardinality({j \in at : j <= i}) \in Nat
        /\ Cardinality({j \in at : j <= i}) <= c
    BY <1>2, <2>1, FS_Subset, FS_CardinalityType
  <2>3. Cardinality({j \in at : j <= i}) # 0
    BY <2>1, <2>2, FS_EmptySet
  <2>. QED
    BY <1>3, <2>2, <2>3 DEF Rank
<1>6. \A n \in 1 .. c : nth(n) \in at /\ Rank(at, nth(n)) = n
  BY <1>4
<1>7. \A i \in at : nth(Rank(at, i)) = i
  BY <1>4, <1>5
<1>8. Where(list, S) = [n \in 1 .. c |-> list[nth(n)]]
  BY DEF Where, Rank
<1>. HIDE DEF nth
<1>9. PICK w : w = [n \in 1 .. c |-> list[nth(n)]]
  OBVIOUS
<1>10. DOMAIN w = 1 .. c /\ \A n \in 1 .. c : w[n] = list[nth(n)]
  BY <1>9
<1>11. \A n \in 1 .. c : w[n] \in P /\ w[n] \in S /\ nth(n) \in DOMAIN list
  BY <1>1, <1>6, <1>10
<1>12. w \in [1 .. c -> P]
  BY <1>9, <1>10, <1>11
<1>13. w \in Seq(P)
  <2>1. PICK m : m = c
    OBVIOUS
  <2>2. m \in Nat /\ w \in [1 .. m -> P]
    BY <1>3, <1>12, <2>1
  <2>. QED
    BY <2>2
<1>14. Range(w) = Range(list) \cap S
  <2>1. Range(w) \subseteq Range(list) \cap S
    BY <1>10, <1>11 DEF Range
  <2>2. ASSUME NEW p \in Range(list), p \in S PROVE p \in Range(w)
    <3>1. PICK i \in DOMAIN list : list[i] = p
      BY DEF Range
    <3>2. i \in at
      BY <2>2, <3>1
    <3>3. Rank(at, i) \in 1 .. c /\ w[Rank(at, i)] = p
      BY <3>1, <3>2, <1>5, <1>7, <1>10
    <3>. QED
      BY <3>3, <1>10 DEF Range
  <2>. QED
    BY <2>1, <2>2
<1>15. ASSUME Distinct(list) PROVE Distinct(w)
  <2>1. SUFFICES ASSUME NEW m \in 1 .. c, NEW n \in 1 .. c, w[m] = w[n] PROVE m = n
    BY <1>10 DEF Distinct
  <2>2. nth(m) = nth(n)
    BY <2>1, <1>10, <1>11, <1>15 DEF Distinct
  <2>. QED
    BY <2>2, <1>6
<1>. QED
  BY <1>8, <1>9, <1>13, <1>14, <1>15

\* The candidates are of the list, and those of it that are eligible or asked for.
LEMMA CandidatesAreOffered ==
  ASSUME NEW q
  PROVE  /\ Candidates(q) \in Offers
         /\ Range(AllPois(q)) \subseteq Pois
         /\ Range(Candidates(q)) =
               {p \in Range(AllPois(q)) : Eligible(q, p) \/ p \in Pinned(q)}
<1>. DEFINE S == {p \in Pois : Eligible(q, p) \/ p \in Pinned(q)}
<1>1. Listing \in Seq(Pois) /\ Distinct(Listing)
  BY ListAssumption DEF Distinct
<1>2. AllPois(q) \in Seq(Pois) /\ Distinct(AllPois(q))
  BY <1>1, WhereChooses DEF AllPois
<1>3. Candidates(q) = Where(AllPois(q), S)
  BY DEF Candidates
<1>4. PICK all : all = AllPois(q)
  OBVIOUS
<1>5. /\ Where(all, S) \in Seq(Pois) /\ Distinct(Where(all, S))
      /\ Range(Where(all, S)) = Range(all) \cap S
  BY <1>2, <1>4, WhereChooses
<1>6. Range(all) \subseteq Pois
  BY <1>2, <1>4 DEF Range
<1>7. Candidates(q) \in Tours
  BY <1>3, <1>4, <1>5, SoundTour
<1>. QED
  BY <1>3, <1>4, <1>5, <1>6, <1>7, HandlerAssumption

LEMMA NightPoisAreCandidates ==
  ASSUME NEW q
  PROVE  Range(NightPois(q)) \subseteq Range(Candidates(q)) \ q.excluded
BY ListAssumption, WhereChooses DEF NightPois

-----------------------------------------------------------------------------
(* A run of the scheduler: what it visits is of the route or a stroll, and *)
(* the places it could not place are those of the route it does not visit. *)

OfTheWish ==
    /\ visited \subseteq Range(route) \cup Range(req.nightPois)
    /\ phase = "done" => seen = {}

LEMMA ReversedRoute ==
  ASSUME NEW r \in Seq(Pois), Distinct(r)
  PROVE  Reverse(r) \in Tours /\ Range(Reverse(r)) = Range(r)
<1>. DEFINE s == Reverse(r)
<1>1. Len(r) \in Nat /\ DOMAIN r = 1 .. Len(r) /\ \A k \in 1 .. Len(r) : r[k] \in Pois
  OBVIOUS
<1>2. s = [i \in 1 .. Len(r) |-> r[(Len(r) - i) + 1]]
  BY DEF Reverse
<1>3. \A i \in 1 .. Len(r) : (Len(r) - i) + 1 \in 1 .. Len(r)
  BY <1>1
<1>4. DOMAIN s = 1 .. Len(r) /\ \A i \in 1 .. Len(r) : s[i] = r[(Len(r) - i) + 1]
  BY <1>2
<1>. HIDE DEF s
<1>5. s \in [1 .. Len(r) -> Pois]
  BY <1>1, <1>2, <1>3
<1>6. s \in Seq(Pois)
  BY <1>1, <1>5
<1>7. ASSUME NEW i \in 1 .. Len(r), NEW j \in 1 .. Len(r), s[i] = s[j] PROVE i = j
  <2>1. (Len(r) - i) + 1 = (Len(r) - j) + 1
    BY <1>1, <1>3, <1>4, <1>7 DEF Distinct
  <2>. QED
    BY <1>1, <2>1
<1>8. Distinct(s)
  BY <1>4, <1>7 DEF Distinct
<1>9. Range(s) \subseteq Range(r)
  BY <1>1, <1>3, <1>4 DEF Range
<1>10. ASSUME NEW k \in 1 .. Len(r) PROVE r[k] \in Range(s)
  <2>1. (Len(r) - k) + 1 \in 1 .. Len(r) /\ (Len(r) - ((Len(r) - k) + 1)) + 1 = k
    BY <1>1
  <2>. QED
    BY <1>4, <2>1 DEF Range
<1>11. Range(s) = Range(r)
  BY <1>1, <1>9, <1>10 DEF Range
<1>. QED
  BY <1>6, <1>8, <1>11, SoundTour DEF s

\* The scheduler begins as the specification of it does.
LEMMA ScheduleBegins ==
  ASSUME NEW r \in Routes, req \in Requests, Schedule(r)
  PROVE  BearInv' /\ OfTheWish'
<1>1. Init'
  BY DEF Schedule, Init
<1>2. Init' => BearInv'
  BY BearInit, PTL
<1>3. OfTheWish'
  BY DEF Schedule, OfTheWish
<1>. QED
  BY <1>1, <1>2, <1>3

LEMMA StrollsAreOffered ==
  ASSUME NEW stay, NEW from, NEW p \in Strolls(stay, from), req \in Requests
  PROVE  p \in Range(req.nightPois)
<1>1. req.nightPois \in Seq(Pois)
  BY Fields
<1>2. PICK night : night = req.nightPois
  OBVIOUS
<1>3. PICK choices : choices = StrollChoices(stay, from)
  OBVIOUS
<1>4. DOMAIN night = 1 .. Len(night) /\ Len(night) \in Nat
  BY <1>1, <1>2
<1>5. choices # {} /\ p = night[Min(choices)]
  BY <1>2, <1>3 DEF Strolls
<1>6. choices \in SUBSET Nat /\ choices \subseteq DOMAIN night
  BY <1>2, <1>3, <1>4 DEF StrollChoices
<1>7. Min(choices) \in DOMAIN night
  BY <1>5, <1>6, MinOfNats
<1>. QED
  BY <1>2, <1>5, <1>7 DEF Range

LEMMA OfTheWishStep ==
  ASSUME TypeOK, OfTheWish, [Next]_vars
  PROVE  OfTheWish'
<1>. USE DEF OfTheWish
<1>0. req \in Requests /\ pending \subseteq DOMAIN route
  BY DEF TypeOK
<1>1. CASE VisitNext
  <2>1. PICK i \in FeasibleNow : phase = "visits" /\ Visit(i)
    BY <1>1 DEF VisitNext
  <2>2. i \in DOMAIN route
    BY <1>0 DEF FeasibleNow
  <2>3. /\ visited' = visited \cup {route[i]} /\ phase' = phase
        /\ route' = route /\ req' = req
    BY <2>1 DEF Visit, input
  <2>4. route[i] \in Range(route)
    BY <2>2 DEF Range
  <2>. QED
    BY <2>1, <2>3, <2>4 DEF Range
<1>2. CASE EndVisits
  BY <1>2 DEF EndVisits, input
<1>3. CASE Transfer
  BY <1>3 DEF Transfer, input
<1>4. CASE Night
  <2>1. PICK strolls : /\ strolls = {} \/ strolls = Strolls(city, StrollFrom)
                       /\ visited' = visited \cup strolls
    BY <1>4, Zenon DEF Night
  <2>2. strolls \subseteq Range(req.nightPois)
    BY <1>0, <2>1, StrollsAreOffered
  <2>3. route' = route /\ req' = req /\ seen' = {}
    BY <1>4 DEF Night, input
  <2>. QED
    BY <2>1, <2>2, <2>3
<1>5. CASE UNCHANGED vars
  BY <1>5 DEF vars, input
<1>. QED
  BY <1>1, <1>2, <1>3, <1>4, <1>5 DEF Next

LEMMA VisitedInDays ==
  ASSUME NEW days \in Seq(Days), NEW p
  PROVE  p \in VisitedIn(days) <=> \E d \in 1 .. Len(days) : p \in Seen(days[d].blocks)
<1>1. DOMAIN days = 1 .. Len(days)
  OBVIOUS
<1>2. ASSUME NEW d \in DOMAIN days, NEW i \in DOMAIN days[d].blocks
      PROVE  <<d, i>>[1] = d /\ <<d, i>>[2] = i
  OBVIOUS
<1>3. ASSUME p \in VisitedIn(days) PROVE \E d \in DOMAIN days : p \in Seen(days[d].blocks)
  <2>1. PICK d \in DOMAIN days : \E i \in DOMAIN days[d].blocks :
              /\ days[d].blocks[i].kind \in {"visit", "stroll"}
              /\ p = days[d].blocks[i].what
    BY <1>2, <1>3 DEF VisitedIn
  <2>. QED
    BY <2>1 DEF Seen, Sights
<1>4. ASSUME NEW d \in DOMAIN days, p \in Seen(days[d].blocks) PROVE p \in VisitedIn(days)
  <2>1. PICK i \in DOMAIN days[d].blocks : /\ days[d].blocks[i].kind \in {"visit", "stroll"}
                                           /\ p = days[d].blocks[i].what
    BY <1>4 DEF Seen, Sights
  <2>2. <<d, i>> \in UNION {{e} \X DOMAIN days[e].blocks : e \in DOMAIN days}
    OBVIOUS
  <2>. QED
    BY <1>2, <2>1, <2>2 DEF VisitedIn
<1>. QED
  BY <1>1, <1>3, <1>4

\* An outcome of the scheduler, for the route of the selector or its reverse.
Settled(o) ==
    /\ VisitedIn(o.plan) \subseteq Range(tour) \cup Range(req.nightPois)
    /\ o.unscheduled = Range(tour) \ VisitedIn(o.plan)

LEMMA OutcomeIsSettled ==
  ASSUME BearInv, OfTheWish, phase = "done", Range(route) = Range(tour)
  PROVE  Settled(Outcome)
<1>1. plan \in Seq(Days) /\ route \in Routes /\ pending \subseteq DOMAIN route
  BY DEF BearInv, IInv, DaysOnTime, TypeOK
<1>2. VisitedIn(plan) = visited
  <2>1. seen = {}
    BY DEF OfTheWish
  <2>2. \A p : p \in visited <=> \E d \in 1 .. Len(plan) : p \in Seen(plan[d].blocks)
    BY <2>1 DEF BearInv, SightsApart
  <2>. QED
    BY <1>1, <2>2, VisitedInDays
<1>3. Unscheduled = Range(route) \ visited
  <2>1. \A i \in DOMAIN route : i \in pending <=> route[i] \notin visited
    BY DEF BearInv, IInv, NothingLost
  <2>. QED
    BY <1>1, <2>1 DEF Unscheduled, Range
<1>4. Outcome.plan = plan /\ Outcome.unscheduled = Unscheduled
  BY DEF Outcome
<1>. QED
  BY <1>2, <1>3, <1>4 DEF Settled, OfTheWish

-----------------------------------------------------------------------------
(* The inductive invariant of the handler: the parts are asked for this    *)
(* query, the selector keeps its own invariant all along and the scheduler *)
(* while it runs, on the places the selector chose; what is kept of a run  *)
(* is settled, and the answer says it.                                     *)

Asked ==
    /\ wish \in Wishes /\ req \in Requests
    /\ wish = SelectionRequest(query) /\ candidates = Candidates(query)
    /\ req = ScheduleRequest(query)

Scheduling ==
    /\ step \in {"schedule", "retry"} =>
          BearInv /\ OfTheWish /\ Range(route) = Range(tour)
    /\ step \in {"schedule", "retry", "cost", "answered"} => stage = "selected"

Answered ==
    step = "answered" =>
        /\ answer.days = kept.plan
        /\ UNION {a.about : a \in answer.advice} = kept.unscheduled \cap Pinned(query)

PlanInv ==
    /\ step \in {"asked", "select", "schedule", "retry", "cost", "answered", "refused"}
    /\ Asked /\ SelectInv /\ Scheduling /\ Answered
    /\ step \in {"retry", "cost", "answered"} => Settled(kept)

LEMMA PlanBegins == PlanInit => PlanInv
<1>. SUFFICES ASSUME PlanInit PROVE PlanInv
  OBVIOUS
<1>1. Asked /\ step = "asked"
  BY HandlerAssumption DEF PlanInit, Asked
<1>2. SelectInit
  <2>1. wish \in Wishes /\ candidates \in Offers
    BY <1>1, CandidatesAreOffered DEF Asked
  <2>. QED
    BY <2>1 DEF PlanInit, SelectInit
<1>3. SelectInv
  BY <1>2, SelectInitInv
<1>. QED
  BY <1>1, <1>3 DEF PlanInv, Scheduling, Answered

\* What a step of the handler leaves alone.
LEMMA AskedStays ==
  ASSUME Asked, UNCHANGED <<query, wish, candidates, req>>
  PROVE  Asked'
BY DEF Asked

LEMMA SelectInvStays ==
  ASSUME SelectInv, UNCHANGED selectVars
  PROVE  SelectInv'
BY SelectStepInv

LEMMA SettledStays ==
  ASSUME NEW o, Settled(o), UNCHANGED <<tour, req>>
  PROVE  Settled(o)'
BY DEF Settled

LEMMA SelectKeeps ==
  ASSUME SelectNext
  PROVE  UNCHANGED <<wish, candidates>>
BY DEF SelectNext, SkipWindow, WindowsDone, OpenWindow, TakePin, PinsTaken, Insert, Full,
       Improve, Orient

LEMMA ScheduleKeeps ==
  ASSUME Next
  PROVE  UNCHANGED input
BY DEF Next, VisitNext, Visit, EndVisits, Transfer, Night, input

LEMMA BeforeSchedule ==
  ASSUME PlanInv, Refuse \/ StartSelection \/ Select
  PROVE  PlanInv'
<1>1. /\ step' \in {"refused", "select"} /\ step \in {"asked", "select"}
      /\ UNCHANGED <<query, wish, candidates, req>>
      /\ [SelectNext]_selectVars
  <2>1. CASE Refuse \/ StartSelection
    BY <2>1 DEF Refuse, StartSelection, selectVars, vars, input
  <2>2. CASE Select
    BY <2>2, SelectKeeps DEF Select, vars, input
  <2>. QED
    BY <2>1, <2>2
<1>2. Asked' /\ SelectInv'
  BY <1>1, AskedStays, SelectStepInv DEF PlanInv
<1>. QED
  BY <1>1, <1>2 DEF PlanInv, Scheduling, Answered

LEMMA ScheduleRouteStep ==
  ASSUME PlanInv, ScheduleRoute
  PROVE  PlanInv'
<1>1. /\ stage = "selected" /\ Schedule(tour) /\ step' = "schedule"
      /\ UNCHANGED <<query, selectVars, kept, answer>>
  BY DEF ScheduleRoute
<1>2. UNCHANGED <<wish, candidates, stage, tour>>
  BY <1>1 DEF selectVars
<1>3. route' = tour /\ req' = req
  BY <1>1 DEF Schedule
<1>4. Asked' /\ SelectInv'
  BY <1>1, <1>2, <1>3, AskedStays, SelectInvStays DEF PlanInv
<1>5. tour \in Routes
  BY SoundTour, HandlerAssumption DEF PlanInv, SelectInv, TourInv, Sound
<1>6. req \in Requests
  BY DEF PlanInv, Asked
<1>7. BearInv' /\ OfTheWish'
  BY <1>1, <1>5, <1>6, ScheduleBegins
<1>8. Scheduling'
  BY <1>1, <1>2, <1>3, <1>7 DEF Scheduling, Range
<1>. QED
  BY <1>1, <1>4, <1>8 DEF PlanInv, Answered

LEMMA ScheduleDaysStep ==
  ASSUME PlanInv, ScheduleDays
  PROVE  PlanInv'
<1>1. /\ step \in {"schedule", "retry"} /\ Next
      /\ UNCHANGED <<query, step, selectVars, kept, answer>>
  BY DEF ScheduleDays
<1>2. UNCHANGED <<wish, candidates, stage, tour>> /\ UNCHANGED <<req, route>>
  BY <1>1, ScheduleKeeps DEF selectVars, input
<1>3. Asked' /\ SelectInv'
  BY <1>1, <1>2, AskedStays, SelectInvStays DEF PlanInv
<1>4. BearInv /\ OfTheWish /\ TypeOK
  BY <1>1 DEF PlanInv, Scheduling, BearInv, IInv
<1>5. BearInv'
  BY <1>1, <1>4, BearVisit, BearEndVisits, BearTransfer, BearNight DEF Next
<1>6. OfTheWish'
  BY <1>1, <1>4, OfTheWishStep
<1>7. Scheduling'
  BY <1>1, <1>2, <1>5, <1>6 DEF PlanInv, Scheduling, Range
<1>8. step' = "retry" => Settled(kept)'
  BY <1>1, <1>2, SettledStays DEF PlanInv
<1>9. step' = step /\ kept' = kept
  BY <1>1
<1>. QED
  BY <1>1, <1>3, <1>7, <1>8, <1>9 DEF PlanInv, Answered, Settled

LEMMA TryReversedStep ==
  ASSUME PlanInv, TryReversed
  PROVE  PlanInv'
<1>1. /\ step = "schedule" /\ phase = "done" /\ kept' = Outcome
      /\ Schedule(Reverse(route)) /\ step' = "retry"
      /\ UNCHANGED <<query, selectVars, answer>>
  BY DEF TryReversed
<1>2. UNCHANGED <<wish, candidates, stage, tour>>
  BY <1>1 DEF selectVars
<1>3. route' = Reverse(route) /\ req' = req
  BY <1>1 DEF Schedule
<1>4. Asked' /\ SelectInv'
  BY <1>1, <1>2, <1>3, AskedStays, SelectInvStays DEF PlanInv
<1>5. BearInv /\ OfTheWish /\ Range(route) = Range(tour) /\ stage = "selected"
  BY <1>1 DEF PlanInv, Scheduling
<1>6. route \in Seq(Pois) /\ Distinct(route)
  <2>1. route \in Routes
    BY <1>5 DEF BearInv, IInv, TypeOK
  <2>. QED
    BY <2>1, RouteAssumption DEF Distinct
<1>7. Reverse(route) \in Routes /\ Range(Reverse(route)) = Range(route)
  BY <1>6, ReversedRoute, HandlerAssumption
<1>8. req \in Requests
  BY DEF PlanInv, Asked
<1>9. BearInv' /\ OfTheWish'
  BY <1>1, <1>7, <1>8, ScheduleBegins
<1>10. Scheduling'
  BY <1>1, <1>2, <1>3, <1>5, <1>7, <1>9 DEF Scheduling, Range
<1>11. Settled(Outcome)
  BY <1>1, <1>5, OutcomeIsSettled
<1>12. Settled(kept)'
  BY <1>1, <1>2, <1>3, <1>11 DEF Settled
<1>. QED
  BY <1>1, <1>4, <1>10, <1>12 DEF PlanInv, Answered

LEMMA KeepBetterStep ==
  ASSUME PlanInv, KeepBetter
  PROVE  PlanInv'
<1>1. /\ phase = "done" /\ step \in {"schedule", "retry"} /\ step' = "cost"
      /\ UNCHANGED <<query, selectVars, answer, vars>>
      /\ kept' = Outcome \/ (step = "retry" /\ kept' = kept)
  BY DEF KeepBetter, Better
<1>2. UNCHANGED <<wish, candidates, stage, tour>> /\ req' = req
  BY <1>1 DEF selectVars, vars, input
<1>3. Asked' /\ SelectInv'
  BY <1>1, <1>2, AskedStays, SelectInvStays DEF PlanInv
<1>4. BearInv /\ OfTheWish /\ Range(route) = Range(tour) /\ stage = "selected"
  BY <1>1 DEF PlanInv, Scheduling
<1>5. Settled(Outcome)
  BY <1>1, <1>4, OutcomeIsSettled
<1>6. step = "retry" => Settled(kept)
  BY DEF PlanInv
<1>7. Settled(kept)'
  BY <1>1, <1>2, <1>5, <1>6 DEF Settled
<1>. QED
  BY <1>1, <1>2, <1>3, <1>4, <1>7 DEF PlanInv, Scheduling, Answered

\* Of all that is said of a plan only one warning names places.
LEMMA AdviceNames ==
  ASSUME NEW days, NEW cost, NEW q, NEW peak, NEW missed
  PROVE  UNION {a.about : a \in AdviceFor(days, cost, q, peak, missed)} = missed
<1>1. \A code, level, about : Advice(code, level, about).about = about
  BY DEF Advice
<1>2. \A condition, x, a : a \in If(condition, x) <=> condition /\ a = x
  BY DEF If
<1>3. \A a \in DrivingAdvice(days) : a.about = {}
  BY <1>1, <1>2 DEF DrivingAdvice
<1>4. \A a \in FitnessAdvice(days, q) : a.about = {}
  <2>1. \A condition, code, level : \A a \in If(condition, Advice(code, level, {})) : a.about = {}
    BY <1>1, <1>2
  <2>. QED
    BY <2>1, Zenon DEF FitnessAdvice
<1>5. \A a \in BudgetAdvice(cost, q) : a.about = {}
  BY <1>1, <1>2 DEF BudgetAdvice
<1>6. \A a \in SeasonAdvice(days, q, peak) : a.about = {}
  BY <1>1, <1>2 DEF SeasonAdvice
<1>7. \A a \in If(OverCap(days, q), Advice("driving.overCap", "warning", {})) : a.about = {}
  BY <1>1, <1>2
<1>8. \A a \in If(missed # {}, Advice("plan.pinnedUnscheduled", "critical", missed)) :
         a.about = missed
  BY <1>1, <1>2
<1>9. missed # {} => Advice("plan.pinnedUnscheduled", "critical", missed)
                        \in AdviceFor(days, cost, q, peak, missed)
  BY <1>2 DEF AdviceFor
<1>10. \A a \in AdviceFor(days, cost, q, peak, missed) : a.about = {} \/ a.about = missed
  BY <1>3, <1>4, <1>5, <1>6, <1>7, <1>8 DEF AdviceFor
<1>. QED
  BY <1>1, <1>9, <1>10

LEMMA AnswerStep ==
  ASSUME PlanInv, Answer
  PROVE  PlanInv'
<1>1. /\ step = "cost" /\ step' = "answered"
      /\ UNCHANGED <<query, selectVars, kept, vars>>
  BY DEF Answer
<1>2. UNCHANGED <<wish, candidates, stage, tour>> /\ req' = req
  BY <1>1 DEF selectVars, vars, input
<1>3. Asked' /\ SelectInv'
  BY <1>1, <1>2, AskedStays, SelectInvStays DEF PlanInv
<1>4. \E cost, peak :
         /\ answer'.days = kept.plan
         /\ answer'.advice = AdviceFor(kept.plan, cost, query, peak,
                                       kept.unscheduled \cap Pinned(query))
  BY DEF Answer
<1>5. Answered'
  <2>1. PICK missed : missed = kept.unscheduled \cap Pinned(query)
    OBVIOUS
  <2>2. UNION {a.about : a \in answer'.advice} = missed
    BY <1>4, <2>1, AdviceNames
  <2>3. kept' = kept /\ query' = query /\ answer'.days = kept.plan
    BY <1>1, <1>4
  <2>. QED
    BY <2>1, <2>2, <2>3 DEF Answered, Pinned
<1>6. Settled(kept)'
  BY <1>1, <1>2 DEF PlanInv, Settled
<1>7. stage = "selected"
  BY <1>1 DEF PlanInv, Scheduling
<1>. QED
  BY <1>1, <1>2, <1>3, <1>5, <1>6, <1>7 DEF PlanInv, Scheduling

LEMMA PlanStutters ==
  ASSUME PlanInv, UNCHANGED planVars
  PROVE  PlanInv'
<1>1. UNCHANGED <<query, step, kept, answer>> /\ UNCHANGED selectVars /\ UNCHANGED vars
  BY DEF planVars
<1>2. UNCHANGED <<wish, candidates, stage, tour>> /\ UNCHANGED <<req, route>>
  BY <1>1 DEF selectVars, vars, input
<1>3. Asked' /\ SelectInv'
  BY <1>1, <1>2, AskedStays, SelectInvStays DEF PlanInv
<1>4. Scheduling'
  <2>1. SUFFICES ASSUME step \in {"schedule", "retry"} PROVE BearInv' /\ OfTheWish' /\ Range(route)' = Range(tour)'
    BY <1>1, <1>2 DEF PlanInv, Scheduling
  <2>2. BearInv /\ OfTheWish /\ TypeOK /\ Range(route) = Range(tour)
    BY <2>1 DEF PlanInv, Scheduling, BearInv, IInv
  <2>. QED
    BY <1>1, <1>2, <2>2, BearStutter, OfTheWishStep DEF Range
<1>. QED
  BY <1>1, <1>2, <1>3, <1>4 DEF PlanInv, Answered, Settled

LEMMA PlanStep ==
  ASSUME PlanInv, [PlanNext]_planVars
  PROVE  PlanInv'
BY BeforeSchedule, ScheduleRouteStep, ScheduleDaysStep, TryReversedStep, KeepBetterStep,
   AnswerStep, PlanStutters DEF PlanNext

LEMMA VisitsArePlaces ==
  ASSUME PlanInv, step = "answered"
  PROVE  VisitedIn(answer.days) \subseteq Pois
<1>1. VisitedIn(answer.days) \subseteq Range(tour) \cup Range(req.nightPois)
  BY DEF PlanInv, Settled, Answered
<1>2. tour \in Seq(Pois)
  BY DEF PlanInv, SelectInv, TourInv, Sound
<1>3. req.nightPois \in Seq(Pois)
  BY Fields DEF PlanInv, Asked
<1>4. PICK night : night = req.nightPois
  OBVIOUS
<1>5. Range(tour) \subseteq Pois /\ Range(night) \subseteq Pois
  BY <1>2, <1>3, <1>4 DEF Range
<1>. QED
  BY <1>1, <1>4, <1>5

\* An answered plan answers the wishes.
LEMMA AnswersTheWish ==
  ASSUME PlanInv, step = "answered"
  PROVE  WishesAnswered
<1>. DEFINE visits == VisitedIn(answer.days)
            named  == UNION {a.about : a \in answer.advice}
<1>1. /\ wish = SelectionRequest(query) /\ candidates = Candidates(query)
      /\ req = ScheduleRequest(query)
  BY DEF PlanInv, Asked
<1>2. wish.pinned = Pinned(query) /\ req.nightPois = NightPois(query)
  BY <1>1 DEF SelectionRequest, ScheduleRequest
<1>3. /\ visits \subseteq Range(tour) \cup Range(req.nightPois)
      /\ kept.unscheduled = Range(tour) \ visits
      /\ named = kept.unscheduled \cap Pinned(query)
  BY DEF PlanInv, Settled, Answered
<1>4. Range(tour) \subseteq Range(candidates) /\ Pins \subseteq Range(tour)
  BY DEF PlanInv, SelectInv, TourInv, Sound, Scheduling
<1>5. Range(candidates) = {p \in Range(AllPois(query)) : Eligible(query, p) \/ p \in Pinned(query)}
  BY <1>1, CandidatesAreOffered
<1>6. Range(req.nightPois) \subseteq Range(candidates) \ query.excluded
  BY <1>1, <1>2, NightPoisAreCandidates
<1>. HIDE DEF visits, named
<1>7. ASSUME NEW p \in Pinned(query) \cap Range(AllPois(query))
      PROVE  p \in visits <=> p \notin named
  <2>1. p \in Range(tour)
    BY <1>2, <1>4, <1>5 DEF Pins
  <2>. QED
    BY <1>3, <2>1
<1>8. visits \subseteq Range(candidates)
  BY <1>3, <1>4, <1>6
<1>9. visits \cap query.excluded \subseteq Pinned(query)
  BY <1>3, <1>4, <1>5, <1>6 DEF Eligible, NotExcluded
<1>. QED
  BY <1>7, <1>8, <1>9 DEF WishesAnswered, visits, named

-----------------------------------------------------------------------------
(* The optimizer asks the planner again, with one lever applied.           *)

\* What is not among the fields of a patch stays as it was.
LEMMA ApplyKeeps ==
  ASSUME NEW q, NEW patch, NEW f \in DOMAIN q
  PROVE  Apply(q, patch)[f] = IF f \in DOMAIN patch THEN patch[f] ELSE q[f]
BY DEF Apply

LEMMA PatchesMove ==
  ASSUME NEW q, NEW patch \in Patches(q)
  PROVE  /\ "pinned" \notin DOMAIN patch /\ "customs" \notin DOMAIN patch
         /\ "excluded" \in DOMAIN patch => q.excluded \subseteq patch.excluded
BY DEF Patches

\* A lever is one of those the planner may be asked with.
LeverIds == {"style", "camp", "dropPois", "radius", "days", "fuel", "vehicles"}
LeverRecords(q) == [id : LeverIds, patch : Patches(q)]

LEMMA LeversAreOfTheTrip ==
  ASSUME NEW q, q.days \in Nat, NEW made, VisitedIn(made.days) \subseteq Pois
  PROVE  LeversOf(q, made) \in Seq(LeverRecords(q))
<1>. DEFINE L == LeverRecords(q)
<1>1. <<>> \in Seq(L) /\ \A l \in L : <<l>> \in Seq(L)
  OBVIOUS
<1>2. q.style \in DOMAIN CheaperStyle => [style |-> CheaperStyle[q.style]] \in Patches(q)
  BY DEF CheaperStyle, Patches
<1>3. [excluded |-> q.excluded \cup DearVisits(made)] \in Patches(q)
  BY DEF DearVisits, Patches
<1>4. q.days > 1 => [days |-> q.days - 1] \in Patches(q)
  BY DEF Patches
<1>5. /\ [lodging |-> "Camp"] \in Patches(q) /\ [radius |-> SmallerRadius(q.radius)] \in Patches(q)
      /\ [fuelShare |-> 100] \in Patches(q) /\ [vehicleCount |-> q.vehicleCount - 1] \in Patches(q)
  BY DEF Patches
<1>6. \A id \in LeverIds, patch \in Patches(q) : Lever(id, patch) \in L
  BY DEF Lever, LeverRecords, L
<1>ids. /\ "style" \in LeverIds /\ "camp" \in LeverIds /\ "dropPois" \in LeverIds
       /\ "radius" \in LeverIds /\ "days" \in LeverIds /\ "fuel" \in LeverIds
       /\ "vehicles" \in LeverIds
  BY DEF LeverIds
<1>. HIDE DEF L
<1>7. \A s, t \in Seq(L) : s \o t \in Seq(L)
  OBVIOUS
<1>8. Offer(q.style \in DOMAIN CheaperStyle,
           Lever("style", [style |-> CheaperStyle[q.style]])) \in Seq(L)
  <2>1. PICK l : l = Lever("style", [style |-> CheaperStyle[q.style]])
    OBVIOUS
  <2>2. q.style \in DOMAIN CheaperStyle => l \in L
    BY <1>2, <1>6, <1>ids, <2>1, Zenon
  <2>. QED
    BY <1>1, <2>1, <2>2 DEF Offer
<1>9. Offer(q.lodging # "Camp" /\ q.days > 1,
           Lever("camp", [lodging |-> "Camp"])) \in Seq(L)
  <2>1. PICK l : l = Lever("camp", [lodging |-> "Camp"])
    OBVIOUS
  <2>2. q.lodging # "Camp" /\ q.days > 1 => l \in L
    BY <1>5, <1>6, <1>ids, <2>1, Zenon
  <2>. QED
    BY <1>1, <2>1, <2>2 DEF Offer
<1>10. Offer(DearVisits(made) # {},
           Lever("dropPois", [excluded |-> q.excluded \cup DearVisits(made)])) \in Seq(L)
  <2>1. PICK l : l = Lever("dropPois", [excluded |-> q.excluded \cup DearVisits(made)])
    OBVIOUS
  <2>2. DearVisits(made) # {} => l \in L
    BY <1>3, <1>6, <1>ids, <2>1, Zenon
  <2>. QED
    BY <1>1, <2>1, <2>2 DEF Offer
<1>11. Offer(q.radius > 100,
           Lever("radius", [radius |-> SmallerRadius(q.radius)])) \in Seq(L)
  <2>1. PICK l : l = Lever("radius", [radius |-> SmallerRadius(q.radius)])
    OBVIOUS
  <2>2. q.radius > 100 => l \in L
    BY <1>5, <1>6, <1>ids, <2>1, Zenon
  <2>. QED
    BY <1>1, <2>1, <2>2 DEF Offer
<1>12. Offer(q.days > 1,
           Lever("days", [days |-> q.days - 1])) \in Seq(L)
  <2>1. PICK l : l = Lever("days", [days |-> q.days - 1])
    OBVIOUS
  <2>2. q.days > 1 => l \in L
    BY <1>4, <1>6, <1>ids, <2>1, Zenon
  <2>. QED
    BY <1>1, <2>1, <2>2 DEF Offer
<1>13. Offer(q.fuelShare < 100,
           Lever("fuel", [fuelShare |-> 100])) \in Seq(L)
  <2>1. PICK l : l = Lever("fuel", [fuelShare |-> 100])
    OBVIOUS
  <2>2. q.fuelShare < 100 => l \in L
    BY <1>5, <1>6, <1>ids, <2>1, Zenon
  <2>. QED
    BY <1>1, <2>1, <2>2 DEF Offer
<1>14. Offer(q.vehicleCount > 1,
           Lever("vehicles", [vehicleCount |-> q.vehicleCount - 1])) \in Seq(L)
  <2>1. PICK l : l = Lever("vehicles", [vehicleCount |-> q.vehicleCount - 1])
    OBVIOUS
  <2>2. q.vehicleCount > 1 => l \in L
    BY <1>5, <1>6, <1>ids, <2>1, Zenon
  <2>. QED
    BY <1>1, <2>1, <2>2 DEF Offer
<1>15. LeversOf(q, made) \in Seq(L)
  BY <1>7, <1>8, <1>9, <1>10, <1>11, <1>12, <1>13, <1>14 DEF LeversOf
<1>. QED
  BY <1>15 DEF L

LEMMA FirstPatch ==
  ASSUME NEW q, NEW list \in Seq(LeverRecords(q)), list # <<>>
  PROVE  Head(list).patch \in Patches(q)
<1>1. PICK L : L = LeverRecords(q)
  OBVIOUS
<1>2. list \in Seq(L)
  BY <1>1
<1>3. Head(list) \in L
  BY <1>2
<1>. QED
  BY <1>1, <1>3 DEF LeverRecords

HuntInv ==
    /\ hunt # "none" => trip \in BudgetQueries /\ cached \in Skies
    /\ hunt = "baseline" => query = trip
    /\ hunt \in {"choose", "try"} => levers \in Seq(LeverRecords(trip))
    /\ hunt = "try" => levers # <<>>
          /\ \E sky \in Skies : query = Under(Apply(trip, Head(levers).patch), sky)

OptimizerInv == PlanInv /\ HuntInv

LEMMA OptimizerBegins == OptimizerInit => OptimizerInv
BY PlanBegins, LeverAssumption DEF OptimizerInit, OptimizerInv, HuntInv

\* A trip with a lever is one the planner may be asked for.
LEMMA RestartStep ==
  ASSUME NEW q, SelectionRequest(q) \in Wishes, ScheduleRequest(q) \in Requests, Restart(q)
  PROVE  PlanInv'
<1>1. Asked' /\ step' = "asked"
  BY DEF Restart, Asked
<1>2. SelectInit'
  <2>1. Candidates(q) \in Offers
    BY CandidatesAreOffered
  <2>. QED
    BY <2>1 DEF Restart, SelectInit, SelectStart
<1>3. SelectInit' => SelectInv'
  BY SelectInitInv, PTL
<1>. QED
  BY <1>1, <1>2, <1>3 DEF PlanInv, Scheduling, Answered

LEMMA HuntStep ==
  ASSUME OptimizerInv, [OptimizerNext]_optimizerVars
  PROVE  OptimizerInv'
<1>. USE DEF OptimizerInv
<1>1. CASE Plan
  <2>1. PlanInv'
    BY <1>1, PlanStep DEF Plan
  <2>2. UNCHANGED huntVars /\ query' = query
    BY <1>1 DEF Plan, PlanNext, Refuse, StartSelection, Select, ScheduleRoute, ScheduleDays,
                TryReversed, KeepBetter, Answer
  <2>. QED
    BY <2>1, <2>2 DEF HuntInv, huntVars
<1>2. CASE NoBaseline
  BY <1>2, PlanStep DEF NoBaseline, HuntInv
<1>3. CASE TakeBaseline
  <2>1. PlanInv' /\ hunt' = "choose" /\ trip' = trip /\ query' = query /\ cached' = cached
    BY <1>3, PlanStep DEF TakeBaseline, planVars
  <2>2. hunt = "baseline" /\ step = "answered" /\ levers' = LeversOf(trip, answer)
    BY <1>3 DEF TakeBaseline
  <2>3. trip \in BudgetQueries
    BY <2>2 DEF HuntInv
  <2>4. trip.days \in Nat
    <3>1. wish = SelectionRequest(trip) /\ wish \in Wishes
      BY <2>2 DEF PlanInv, Asked, HuntInv
    <3>. QED
      BY <3>1, SelectorAssumption DEF SelectionRequest
  <2>5. VisitedIn(answer.days) \subseteq Pois
    BY <2>2, VisitsArePlaces
  <2>. QED
    BY <2>1, <2>2, <2>3, <2>4, <2>5, LeversAreOfTheTrip DEF HuntInv
<1>4. CASE TryLever
  <2>1. PICK q, patch : patch = Head(levers).patch /\ q = Apply(trip, patch)
    OBVIOUS
  <2>2. /\ levers # <<>>
        /\ hunt = "choose" /\ hunt' = "try" /\ trip' = trip /\ levers' = levers
    BY <1>4 DEF TryLever
  <2>3. PICK sky \in Answers(q) : /\ Restart(Under(q, sky))
                                 /\ cached' = IF q.days = trip.days THEN sky ELSE cached
    BY <1>4, <2>1 DEF TryLever
  <2>4. trip \in BudgetQueries /\ levers \in Seq(LeverRecords(trip)) /\ cached \in Skies
    BY <2>2 DEF HuntInv
  <2>5. sky \in Skies /\ cached' \in Skies
    BY <2>3, <2>4 DEF Answers
  <2>6. patch \in Patches(trip)
    BY <2>1, <2>2, <2>4, FirstPatch
  <2>7. Under(q, sky) \in Levered(trip)
    BY <2>1, <2>5, <2>6 DEF Levered
  <2>8. /\ SelectionRequest(Under(q, sky)) \in Wishes
        /\ ScheduleRequest(Under(q, sky)) \in Requests
    BY <2>4, <2>7, LeverAssumption
  <2>9. PlanInv' /\ query' = Under(q, sky)
    BY <2>3, <2>8, RestartStep DEF Restart
  <2>. QED
    BY <2>1, <2>2, <2>4, <2>5, <2>9 DEF HuntInv
<1>5. CASE Weigh
  <2>1. /\ PlanInv' /\ hunt = "try" /\ hunt' = "choose" /\ trip' = trip /\ cached' = cached
        /\ levers' = Tail(levers)
    BY <1>5, PlanStep DEF Weigh
  <2>2. PICK L : L = LeverRecords(trip)
    OBVIOUS
  <2>3. levers \in Seq(L) /\ levers # <<>>
    BY <2>1, <2>2 DEF HuntInv
  <2>4. Tail(levers) \in Seq(L)
    BY <2>3
  <2>. QED
    BY <2>1, <2>2, <2>4 DEF HuntInv
<1>6. CASE OfferLevers
  BY <1>6, PlanStep DEF OfferLevers, HuntInv
<1>7. CASE UNCHANGED optimizerVars
  BY <1>7, PlanStep DEF optimizerVars, huntVars, planVars, HuntInv
<1>. QED
  BY <1>1, <1>2, <1>3, <1>4, <1>5, <1>6, <1>7 DEF OptimizerNext

(* The planner keeps what it promises however often the optimizer asks it, *)
(* and the optimizer asks it only for the trip of the user with one lever. *)
THEOREM OptimizerInvHolds == OptimizerSpec => []OptimizerInv
<1>. QED
  BY OptimizerBegins, HuntStep, PTL DEF OptimizerSpec

-----------------------------------------------------------------------------
(* The theorems.                                                           *)

(* The route the handler gets is sound and affordable for every query that *)
(* passes the validator, from whatever the catalogue and the user's own    *)
(* stops come to.                                                          *)
THEOREM RouteOfTheHandler == OptimizerSpec => []RouteAsAsked
<1>1. OptimizerInv => RouteAsAsked
  BY SelectedRoute DEF OptimizerInv, PlanInv
<1>. QED
  BY <1>1, OptimizerInvHolds, PTL

(* What the scheduler promises of its days, for any route.                 *)
LawfulDays ==
    /\ BlocksFollowEachOther /\ VisitsInsideHours /\ CapOnSightseeing
    /\ NothingLost /\ EndsWherePromised /\ DaysAreBearable

(* The days of both runs of the scheduler, on the route of the selector    *)
(* and on its reverse, keep all that the scheduler promises on its own:    *)
(* what the handler hands over is always what the scheduler expects.       *)
THEOREM DaysOfTheHandler == OptimizerSpec => [](step \in {"schedule", "retry"} => LawfulDays)
<1>1. OptimizerInv => (step \in {"schedule", "retry"} => LawfulDays)
  <2>. SUFFICES ASSUME OptimizerInv, step \in {"schedule", "retry"} PROVE LawfulDays
    OBVIOUS
  <2>1. BearInv /\ IInv
    BY DEF OptimizerInv, PlanInv, Scheduling, BearInv
  <2>2. NothingLost /\ EndsWherePromised
    BY <2>1 DEF IInv, AtTheEnd, Promised, EndsWherePromised
  <2>. QED
    BY <2>1, <2>2, LivedDays, OpenDoors, KeptCap, BearableDays DEF LawfulDays
<1>. QED
  BY <1>1, OptimizerInvHolds, PTL

(* What the user asked for is answered, for every query, map and catalogue,*)
(* and again under every lever of the optimizer: a pinned place or custom  *)
(* stop is visited or named in a warning and never both, whichever way     *)
(* round the loop was driven; nothing is visited that the rules forbid; and*)
(* what was taken out stays out unless pinned, the strolls included.       *)
THEOREM WishesAreAnswered == OptimizerSpec => []WishesAnswered
<1>1. OptimizerInv => WishesAnswered
  BY AnswersTheWish DEF OptimizerInv, WishesAnswered
<1>. QED
  BY <1>1, OptimizerInvHolds, PTL

(* What the user himself took out is visited under no lever, the one that  *)
(* takes out more included, unless he pinned it as well.                   *)
THEOREM ExcludedAlwaysStayOut ==
    OptimizerSpec => [](hunt = "try" /\ step = "answered" => ExcludedStayOut)
<1>1. OptimizerInv => (hunt = "try" /\ step = "answered" => ExcludedStayOut)
  <2>. SUFFICES ASSUME OptimizerInv, hunt = "try", step = "answered" PROVE ExcludedStayOut
    OBVIOUS
  <2>1. PICK q, patch : patch = Head(levers).patch /\ q = Apply(trip, patch)
    OBVIOUS
  <2>2. /\ trip \in BudgetQueries /\ \E sky \in Skies : query = Under(q, sky)
        /\ levers \in Seq(LeverRecords(trip)) /\ levers # <<>>
    BY <2>1 DEF OptimizerInv, HuntInv
  <2>3. patch \in Patches(trip)
    BY <2>1, <2>2, FirstPatch
  <2>4. {"excluded", "pinned", "customs"} \subseteq DOMAIN trip
    BY <2>2, LeverAssumption
  <2>5. q.pinned = trip.pinned /\ q.customs = trip.customs /\ trip.excluded \subseteq q.excluded
    BY <2>1, <2>3, <2>4, ApplyKeeps, PatchesMove
  <2>6. /\ query.pinned = q.pinned /\ query.customs = q.customs
        /\ query.excluded = q.excluded
    <3>1. {"excluded", "pinned", "customs"} \subseteq DOMAIN q
      BY <2>1, <2>4 DEF Apply
    <3>. QED
      BY <2>2, <3>1 DEF Under
  <2>7. VisitedIn(answer.days) \cap query.excluded \subseteq Pinned(query)
    BY AnswersTheWish DEF OptimizerInv, WishesAnswered
  <2>. QED
    BY <2>5, <2>6, <2>7 DEF ExcludedStayOut, Pinned
<1>. QED
  BY <1>1, OptimizerInvHolds, PTL
=============================================================================
