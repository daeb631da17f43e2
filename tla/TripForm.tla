------------------------------ MODULE TripForm ------------------------------
(***************************************************************************)
(* The form of a trip: its fields, the schema they must satisfy, and what  *)
(* each step of the wizard offers (web/src/features/wizard/tripSchema.ts,  *)
(* the components of web/src/features/wizard/steps). The fields that are   *)
(* picked from a closed list and that nothing else reads are one field,    *)
(* style; a null is None or NoHour, shares are percents and budgets        *)
(* millions.                                                               *)
(***************************************************************************)
EXTENDS Integers, Sequences, FiniteSets, TLC

CONSTANTS
    Cities, Places,     \* of the reference data
    Styles,             \* the choices of the closed lists: style, lodging, pace, lunch...
    Ages, Hours, Counts, \* what a user may type into a field of numbers
    MaxTravelers,       \* bound on the people that are added
    Fraction,           \* a number that is not whole, which a field of numbers takes
    Undefined

NoCity == ""
NoHour == -1
None   == "null"
Modes  == {"Mixed", "Stay", "Corridor"}

ASSUME FormAssumption == /\ Cities # {} /\ NoCity \notin Cities /\ None \notin Cities
                         /\ Fraction \notin Int
                         /\ (Ages \cup Hours \cup Counts) \ {Fraction} \subseteq Int

--------------------------------------------------------------------------
(* tripSchema.ts *)

DefaultTrip(date) ==
    [originCityId |-> CHOOSE c \in Cities : TRUE, destinationCityId |-> None,
     destinationMode |-> "Mixed", startDate |-> date, days |-> 3, radiusKm |-> 300,
     budgetToman |-> 50, travelers |-> <<[age |-> 35, isDriver |-> TRUE], [age |-> 33, isDriver |-> FALSE]>>,
     vehicleId |-> "sedan", vehicleCount |-> 1, subsidizedFuelShare |-> 60,
     maxDrivingHoursPerDay |-> 6, dayStartHour |-> 8, dayEndHour |-> 21, style |-> CHOOSE s \in Styles : TRUE,
     interests |-> {}, roundTrip |-> TRUE, firstDayStartHour |-> NoHour,
     pinnedPoiIds |-> {}, excludedPoiIds |-> {}, dayAssignments |-> <<>>, customStops |-> {}]

Wrong(field, ok) == IF ok THEN {} ELSE {field}

\* The fields that are at fault by themselves. Every bound of the schema is
\* here, although most controls offer only what lies within theirs.
FieldFaults(f) ==
    UNION {Wrong("originCityId", f.originCityId # NoCity),
           Wrong("days", f.days \in 1 .. 30),
           Wrong("radiusKm", f.radiusKm \in 20 .. 1500),
           Wrong("vehicleCount", f.vehicleCount \in 1 .. 10),
           Wrong("travelers", /\ Len(f.travelers) \in 1 .. 30
                              /\ \A i \in DOMAIN f.travelers : f.travelers[i].age \in 0 .. 120),
           Wrong("budgetToman", f.budgetToman >= 0),
           Wrong("subsidizedFuelShare", f.subsidizedFuelShare \in 0 .. 100),
           Wrong("maxDrivingHoursPerDay", f.maxDrivingHoursPerDay \in 1 .. 12),
           Wrong("dayStartHour", f.dayStartHour \in 0 .. 12),
           Wrong("dayEndHour", f.dayEndHour \in 12 .. 24),
           Wrong("firstDayStartHour", f.firstDayStartHour = NoHour \/ f.firstDayStartHour \in 0 .. 20)}

\* The three refinements of the whole form, each told of one field.
Refinements(f) ==
    UNION {Wrong("destinationCityId", f.destinationCityId # f.originCityId),
           Wrong("dayEndHour", f.dayEndHour > f.dayStartHour + 4),
           Wrong("travelers", \E i \in DOMAIN f.travelers :
                                  f.travelers[i].isDriver /\ f.travelers[i].age >= 18)}

\* A number that has to be whole and is not ends the parsing of the form.
HasFraction(f) ==
    \/ Fraction \in {f.days, f.vehicleCount, f.dayStartHour, f.dayEndHour}
    \/ \E i \in DOMAIN f.travelers : f.travelers[i].age = Fraction

\* The fields the schema finds fault with: the refinements are not asked of a
\* form whose parsing ended.
Faults(f) == FieldFaults(f) \cup IF HasFraction(f) THEN {} ELSE Refinements(f)

Fields == DOMAIN DefaultTrip(Undefined)
Later  == [destinationCityId |-> None, destinationMode |-> "Mixed",
           firstDayStartHour |-> NoHour, customStops |-> {}]
\* A value with the fields of a trip, the later ones perhaps not.
IsReadable(value) ==
    /\ value = [field \in DOMAIN value |-> value[field]]
    /\ DOMAIN value \cup DOMAIN Later = Fields

\* What is read from outside: a trip of an older version lacks the fields
\* that came later, and whatever the schema refuses is no trip at all.
ParseTripForm(value) ==
    LET withDefaults == [x \in DOMAIN value \cup DOMAIN Later |->
                            IF x \in DOMAIN value THEN value[x] ELSE Later[x]]
    IN  IF value = Undefined THEN Undefined
        ELSE IF Faults(withDefaults) = {} THEN withDefaults ELSE Undefined

--------------------------------------------------------------------------
(* The steps: which fields "next" validates (WizardPage.tsx), and which    *)
(* fields the component of the step lets the user change.                  *)

\* Mutant: the end of the day is not among the fields of its step.
StepsWithoutDayEnd == <<{"originCityId", "destinationCityId", "days", "budgetToman"}, {"travelers"},
                        {"vehicleId", "vehicleCount", "dayStartHour"}, {"style"}, {}>>
STEPS == <<{"originCityId", "destinationCityId", "destinationMode", "startDate", "days", "radiusKm", "budgetToman"},
           {"travelers"},
           {"vehicleId", "vehicleCount", "maxDrivingHoursPerDay", "dayStartHour", "dayEndHour"},
           {"style", "interests", "roundTrip", "firstDayStartHour"},
           {"pinnedPoiIds", "excludedPoiIds"}>>

HasDestination(f) == f.destinationCityId # None
CorridorTrip(f) == HasDestination(f) /\ f.destinationMode = "Corridor"

\* Every change a step offers, as the form after it; a number that is typed
\* need not be one the field's limits allow nor a whole one, and an emptied
\* field keeps its number (NumberField.tsx).
Put(f, field, values) == {[f EXCEPT ![field] = v] : v \in values}
Toggle(set, x) == IF x \in set THEN set \ {x} ELSE set \cup {x}

OriginChanges(f) ==
    UNION {Put(f, "originCityId", Cities \cup {NoCity}),
           Put(f, "destinationCityId", (Cities \ {f.originCityId}) \cup {None}),
           IF HasDestination(f) THEN Put(f, "destinationMode", Modes) ELSE {},
           Put(f, "days", Counts),
           Put(f, "radiusKm", {20, 1200}),
           Put(f, "budgetToman", {-1, 0})}

TravelerChanges(f) ==
    LET t == f.travelers
        Set(field, Values(_)) ==
            UNION {{[f EXCEPT !.travelers[i][field] = v] : v \in Values(i)} : i \in DOMAIN t}
    IN  UNION {Set("age", LAMBDA i : Ages),
               Set("isDriver", LAMBDA i : {~t[i].isDriver}),
               IF Len(t) < MaxTravelers
                   THEN {[f EXCEPT !.travelers = Append(@, [age |-> 30, isDriver |-> FALSE])]} ELSE {},
               IF Len(t) > 1
                   THEN {[f EXCEPT !.travelers = SubSeq(@, 1, i - 1) \o SubSeq(@, i + 1, Len(@))] :
                             i \in DOMAIN t} ELSE {}}

VehicleChanges(f) ==
    UNION {Put(f, "vehicleId", {"sedan", "van"}),
           Put(f, "vehicleCount", Counts),
           Put(f, "subsidizedFuelShare", {0, 100}),
           Put(f, "maxDrivingHoursPerDay", {1, 12}),
           Put(f, "dayStartHour", Hours),
           Put(f, "dayEndHour", Hours)}

FIRST_DAY_HOURS == 6 .. 14
StyleChanges(f) ==
    UNION {Put(f, "style", Styles),
           Put(f, "interests", {Toggle(f.interests, "nature")}),
           IF CorridorTrip(f) THEN {} ELSE Put(f, "roundTrip", {~f.roundTrip}),
           Put(f, "firstDayStartHour", (FIRST_DAY_HOURS \cap Hours) \cup {NoHour})}

\* To pin and to leave out are opposites: choosing one takes the other back.
Pin(f, p) == [f EXCEPT !.pinnedPoiIds = Toggle(@, p), !.excludedPoiIds = @ \ {p}]
Exclude(f, p) == [f EXCEPT !.excludedPoiIds = Toggle(@, p), !.pinnedPoiIds = @ \ {p}]
PlaceChanges(f) == {Pin(f, p) : p \in Places} \cup {Exclude(f, p) : p \in Places}
=============================================================================
