------------------------------ MODULE TripCost ------------------------------
(***************************************************************************)
(* What a trip costs and on which block of which day each amount is shown  *)
(* (LeaderTrip.Domain: Pricing/CostCalculator.cs with its components, and  *)
(* Planning/CostAttribution.cs). The engine gives one amount for the whole *)
(* trip and item; the attribution puts it on the blocks that stand for it. *)
(* Shares and rates are percents, weights of a traveller and the index of  *)
(* a city tenths; amounts are whole, in a unit below which nothing that a  *)
(* division drops matters. A kilometre is a minute at the wheel.           *)
(***************************************************************************)
EXTENDS PlaceRules, SequencesExt

CONSTANTS
    Prices,             \* the price book
    CityCost,           \* [Cities -> [index, climate]]
    MountainShare       \* of the kilometres, as the scheduler counts them

Styles     == {"Budget", "Balanced", "Comfort", "Luxury"}
Lodgings   == {"Hotel", "EcoLodge", "Villa", "Camp", "Friends"}
MealPrices == [breakfast : Nat, lunch : Nat, dinner : Nat]
PriceBook  == [subsidized : Nat, free : Nat, tollPerKm : Nat, freewayShare : 0 .. 100,
               night : [Styles -> Nat], meals : [Styles -> MealPrices],
               snackRate : Nat, miscRate : [Styles -> Nat], bufferRate : [Styles -> Nat]]

ASSUME PricesAssumption ==
    /\ Prices \in PriceBook
    /\ CityCost \in [Cities -> [index : Nat, climate : STRING]]
    /\ MountainShare \in 0 .. 100
    /\ {Vehicle.consumption, Vehicle.tollFactor, Vehicle.depreciation} \subseteq Nat

SumOf(s) == FoldLeft(LAMBDA t, x : t + x, 0, s)

Kilometres(block) == block.length - 15 * block.rests

-----------------------------------------------------------------------------
(* CostCalculator: the lines of the bill.                                  *)

TicketWeight(age)  == CASE age < 5 -> 0 [] age \in 5 .. 12 -> 5 [] age >= 65 -> 7 [] OTHER -> 10
MealWeight(age)    == CASE age < 6 -> 4 [] age \in 6 .. 12 -> 7 [] OTHER -> 10
LodgingWeight(age) == CASE age < 3 -> 0 [] age \in 3 .. 10 -> 5 [] OTHER -> 10

TicketPayers == SumOf([i \in DOMAIN Group |-> TicketWeight(Group[i].age)])
Eaters       == SumOf([i \in DOMAIN Group |-> MealWeight(Group[i].age)])
PayingGuests == SumOf([i \in DOMAIN Group |-> LodgingWeight(Group[i].age)])

\* Three percent more for each passenger of a car beyond the second, a fifth at most.
LoadFactor(q) ==
    Least(120, 100 + (3 * Most(0, Len(Group) - 2 * q.vehicleCount)) \div q.vehicleCount)

EffectivePrice(q) ==
    (q.fuelShare * Prices.subsidized + (100 - q.fuelShare) * Prices.free) \div 100

FuelCost(km, q) ==
    LET units == (km * Vehicle.consumption * LoadFactor(q)) \div 100
    IN  (((units * (100 + (15 * MountainShare) \div 100)) \div 100) * EffectivePrice(q) * q.vehicleCount)
            \div 100

TollCost(km, q) ==
    (km * Prices.freewayShare * Prices.tollPerKm * Vehicle.tollFactor * q.vehicleCount) \div 100

DepreciationCost(km, q) == km * Vehicle.depreciation * q.vehicleCount

\* Nights away; the last day has none.
NightCities(days, home) ==
    SelectSeq([d \in 1 .. Len(days) - 1 |-> days[d].base], LAMBDA c : c # home)

KindFactor(kind) ==
    CASE kind = "EcoLodge" -> 75 [] kind = "Villa" -> 110 [] kind = "Camp" -> 10
      [] kind = "Friends" -> 0 [] OTHER -> 100

SeasonFactor(month, climate) ==
    CASE month \in {3, 4} -> 145
      [] month \in {7, 8} /\ climate \in {"caspian", "mountain"} -> 130
      [] month \in {12, 1, 2} /\ climate = "gulf" -> 125
      [] OTHER -> 100

NightCost(q, c) ==
    LET rate == (PayingGuests * Prices.night[q.style] * CityCost[c].index) \div 100
    IN  (((rate * SeasonFactor(q.month, CityCost[c].climate)) \div 100) * KindFactor(q.lodging)) \div 100

LodgingCost(nights, q) == SumOf([n \in DOMAIN nights |-> NightCost(q, nights[n])])

\* Breakfast and dinner a night, lunch a day unless it is brought along, at the
\* mean index of the cities slept in.
MealsCost(nights, q) ==
    LET price == Prices.meals[q.style]
        once  == Len(nights) * (price.breakfast + price.dinner)
                   + (IF q.picnic THEN 0 ELSE q.days * price.lunch)
        index == SumOf([n \in DOMAIN nights |-> CityCost[nights[n]].index])
    IN  IF nights = <<>> THEN (once * Eaters) \div 10
        ELSE (once * Eaters * index) \div (100 * Len(nights))

SnacksCost(meals) == (meals * Prices.snackRate) \div 100

VisitedIn(days) ==
    {days[s[1]].blocks[s[2]].what : s \in
        {x \in UNION {{d} \X DOMAIN days[d].blocks : d \in DOMAIN days} :
            days[x[1]].blocks[x[2]].kind \in {"visit", "stroll"}}}

TicketOf(p) == Catalogue[p].ticket * TicketPayers

TicketsCost(days) == (FoldSet(LAMBDA p, t : TicketOf(p) + t, 0, VisitedIn(days))) \div 10

Bill(days, q) ==
    LET nights == NightCities(days, OriginCity)
        km     == SumOf([d \in DOMAIN days |-> days[d].driving])
        meals  == MealsCost(nights, q)
    IN  [fuel |-> FuelCost(km, q), toll |-> TollCost(km, q), lodging |-> LodgingCost(nights, q),
         meals |-> meals, snacks |-> SnacksCost(meals), tickets |-> TicketsCost(days),
         depreciation |-> DepreciationCost(km, q)]

Subtotal(bill) ==
    bill.fuel + bill.toll + bill.lodging + bill.meals + bill.snacks + bill.tickets + bill.depreciation

\* Calculate: what comes on top, and how far it may be off.
CostBreakdown(bill, q) ==
    LET sum   == Subtotal(bill)
        misc  == (sum * Prices.miscRate[q.style]) \div 100
        total == sum + misc + ((sum + misc) * Prices.bufferRate[q.style]) \div 100
    IN  [total |-> total, perPerson |-> total \div Len(Group),
         optimistic |-> (total * 17) \div 20, pessimistic |-> (total * 5) \div 4]

-----------------------------------------------------------------------------
(* CostAttribution: from the bill to the days.                             *)

\* The blocks of these kinds, <<day, block>>, in the order of the plan.
BlocksOf(days, kinds) ==
    FlattenSeq([d \in DOMAIN days |->
        SelectSeq([b \in DOMAIN days[d].blocks |-> <<d, b>>],
                  LAMBDA s : days[d].blocks[s[2]].kind \in kinds)])

\* Math.Round, halves away from zero, of amount * weight / total.
Rounded(amount, weight, total) == (2 * amount * weight + total) \div (2 * total)

\* Mutant: the last block gets its rounded share like every other.
SharesRounded(amount, weights) ==
    [i \in DOMAIN weights |-> Rounded(amount, weights[i], SumOf(weights))]

\* Each block its share, the last one what is left of the amount.
Shares(amount, weights) ==
    [i \in DOMAIN weights |->
        IF i < Len(weights) THEN Rounded(amount, weights[i], SumOf(weights))
        ELSE amount - SumOf([k \in 1 .. i - 1 |-> Rounded(amount, weights[k], SumOf(weights))])]

\* Spread, and AttributeTickets: nothing without an amount or a block for it.
Spread(amount, slots, weights) ==
    LET fair == IF SumOf(weights) = 0 THEN [i \in DOMAIN weights |-> 1] ELSE weights
    IN  IF amount = 0 THEN [slots |-> <<>>, shares |-> <<>>]
        ELSE [slots |-> slots, shares |-> Shares(amount, fair)]

Meals == {"breakfast", "lunch", "dinner"}
Rests == {"rest", "check-in"}

Evenly(slots) == [i \in DOMAIN slots |-> 1]

\* The five spreads of Attribute.
Spreads(days, bill) ==
    LET at(s)    == days[s[1]].blocks[s[2]]
        drives   == BlocksOf(days, {"drive"})
        meals    == BlocksOf(days, Meals)
        nights   == BlocksOf(days, {"lodging"})
        rests    == IF BlocksOf(days, Rests) = <<>> THEN meals ELSE BlocksOf(days, Rests)
        ticketed == SelectSeq(BlocksOf(days, {"visit", "stroll"}),
                              LAMBDA s : TicketOf(at(s).what) > 0)
    IN  <<Spread(bill.fuel + bill.toll + bill.depreciation, drives,
                 [i \in DOMAIN drives |-> Kilometres(at(drives[i]))]),
          Spread(bill.meals, meals, Evenly(meals)),
          Spread(bill.lodging, nights, Evenly(nights)),
          Spread(bill.snacks, rests, Evenly(rests)),
          Spread(bill.tickets, ticketed, [i \in DOMAIN ticketed |-> TicketOf(at(ticketed[i]).what)])>>

\* What the visits show of it.
TicketsShown(days, bill) == Spreads(days, bill)[5]

\* Money.FromToman: there is no negative amount.
FromToman(amount) == IF amount < 0 THEN 0 ELSE amount

\* Rebuild: what each day shows.
DayCosts(days, bill) ==
    LET spreads == Spreads(days, bill)
        on(x, d) == SumOf([i \in DOMAIN x.slots |-> IF x.slots[i][1] = d THEN x.shares[i] ELSE 0])
    IN  [d \in DOMAIN days |-> FromToman(SumOf([k \in DOMAIN spreads |-> on(spreads[k], d)]))]
=============================================================================
