--------------------------- MODULE TripPagesProofs --------------------------
(***************************************************************************)
(* Proofs about the wizard and the page of the plan: the draft follows the *)
(* form, no fault is left behind, and what the user takes out of a plan    *)
(* stays away until it is taken back. The calendar is not looked into: the *)
(* dates are whatever it returns.                                          *)
(***************************************************************************)
EXTENDS TripPages, TLAPS

--------------------------------------------------------------------------
(* The inductive invariant, in the parts the three theorems rest on.       *)

\* What a trip may be anywhere among the pages: all its fields are there,
\* the share of cheap fuel, which no step validates, is one, and its stops
\* are no places and none that is still to come.
ToCome(next) == {StopIds[i] : i \in next .. Len(StopIds)}
HasFields(f) == f = [x \in Fields |-> f[x]]
IsTrip(f) == /\ HasFields(f)
             /\ f.subsidizedFuelShare \in 0 .. 100
             /\ f.customStops \cap Places = {}
Sound(f, next) == IsTrip(f) /\ f.customStops \cap ToCome(next) = {}
Saved(value, next) == IsReadable(value) /\ StopsOf(value) \cap (Places \cup ToCome(next)) = {}

SoundTrips ==
    /\ nextStop \in Nat \ {0}
    /\ Sound(form, nextStop)
    /\ building # Undefined => Sound(building, nextStop)
    /\ generated.made => Sound(generated.input, nextStop)
    /\ rebuilding # Undefined => Sound(rebuilding.input, nextStop)
    /\ toast # Undefined => Sound(toast.input, nextStop)
    /\ stored # Undefined => Saved(stored, nextStop)

\* The timer carries the form of now, or the storage has it.
DraftFollows ==
    /\ draft.due => draft.values = form
    /\ changed /\ ~draft.due /\ ~refuses => stored = form

\* The calendar is open on the first step only, so that a date cannot bring
\* a fault to a step that was left. The refinements may have a fault there
\* that the schema does not tell as long as a number is not whole.
NothingLeft ==
    \A step \in 1 .. activeStep - 1 :
        /\ FieldFaults(form) \cap ShownBy[step] = {}
        /\ Refinements(form) \cap ShownBy[step] # {} => step \in unasked \/ (late /\ step = 1)

StepsInOrder ==
    /\ activeStep \in 1 .. 5
    /\ picker # Undefined => activeStep = 1
    /\ NothingLeft

\* No place that is gone is among those a plan of the input may choose from,
\* but for the pinned ones.
Out(input, gone, next) == gone \cap Open(input) = {} /\ gone \cap ToCome(next) = {}

RemovedIsOut ==
    /\ generated.made => /\ Planned(generated) \subseteq Candidates(generated.input)
                         /\ Out(generated.input, removed, nextStop)
    /\ rebuilding # Undefined => Out(rebuilding.input, rebuilding.keeps, nextStop)
    /\ toast # Undefined => Out(toast.input, toast.removed, nextStop)

\* The panel shows savings of the plan it was asked about.
LeversAreOfAPlan ==
    /\ levers = [state |-> levers.state, of |-> levers.of, patches |-> levers.patches]
    /\ \A patch \in levers.patches : patch \in Patches(levers.of)

\* The toast and the dialog are of the page of the plan, never both; while
\* the undo is within reach, a rebuild under way and the plan alike differ
\* from its input by one stop at most.
OneStopLess(t) == {t.input} \cup {Without(t.input, p) : p \in Places \cup t.input.customStops}
UndoIsNear ==
    /\ dialog # Undefined => generated.made /\ toast = Undefined /\ nextStop <= Len(StopIds)
    /\ toast # Undefined =>
          /\ PlanShown
          /\ rebuilding # Undefined => rebuilding.input \in OneStopLess(toast)
          /\ ~shadow => generated.input \in OneStopLess(toast)

IInv == SoundTrips /\ DraftFollows /\ StepsInOrder /\ RemovedIsOut /\ LeversAreOfAPlan /\ UndoIsNear

--------------------------------------------------------------------------
(* The form and what changes it.                                           *)

LEMMA FieldsAre ==
    Fields = {"originCityId", "destinationCityId", "destinationMode", "startDate", "days", "radiusKm",
              "budgetToman", "travelers", "vehicleId", "vehicleCount", "subsidizedFuelShare",
              "maxDrivingHoursPerDay", "dayStartHour", "dayEndHour", "style", "interests", "roundTrip",
              "firstDayStartHour", "pinnedPoiIds", "excludedPoiIds", "dayAssignments", "customStops"}
BY DEF Fields, DefaultTrip

\* Which fields are at fault, one line for each rule of the schema.
LEMMA FieldFaultsAre ==
    ASSUME NEW f, NEW field
    PROVE  field \in FieldFaults(f) <=>
        \/ field = "originCityId" /\ f.originCityId = NoCity
        \/ field = "days" /\ f.days \notin 1 .. 30
        \/ field = "radiusKm" /\ f.radiusKm \notin 20 .. 1500
        \/ field = "vehicleCount" /\ f.vehicleCount \notin 1 .. 10
        \/ field = "travelers" /\ ~(/\ Len(f.travelers) \in 1 .. 30
                                    /\ \A i \in DOMAIN f.travelers : f.travelers[i].age \in 0 .. 120)
        \/ field = "budgetToman" /\ ~(f.budgetToman >= 0)
        \/ field = "subsidizedFuelShare" /\ f.subsidizedFuelShare \notin 0 .. 100
        \/ field = "maxDrivingHoursPerDay" /\ f.maxDrivingHoursPerDay \notin 1 .. 12
        \/ field = "dayStartHour" /\ f.dayStartHour \notin 0 .. 12
        \/ field = "dayEndHour" /\ f.dayEndHour \notin 12 .. 24
        \/ field = "firstDayStartHour" /\ ~(f.firstDayStartHour = NoHour \/ f.firstDayStartHour \in 0 .. 20)
BY DEF FieldFaults, Wrong

LEMMA RefinementsAre ==
    ASSUME NEW f, NEW field
    PROVE  field \in Refinements(f) <=>
        \/ field = "destinationCityId" /\ f.destinationCityId = f.originCityId
        \/ field = "dayEndHour" /\ ~(f.dayEndHour > f.dayStartHour + 4)
        \/ field = "travelers" /\ ~(\E i \in DOMAIN f.travelers :
                                        f.travelers[i].isDriver /\ f.travelers[i].age >= 18)
BY DEF Refinements, Wrong

\* The faults a step can show depend on the fields of that step alone.
SameFaults(f, g, step) ==
    /\ FieldFaults(f) \cap ShownBy[step] = FieldFaults(g) \cap ShownBy[step]
    /\ Refinements(f) \cap ShownBy[step] \subseteq Refinements(g) \cap ShownBy[step]

LEMMA FaultsOfAStep ==
    ASSUME NEW f, NEW g, NEW step \in 1 .. 5, \A x \in ShownBy[step] : f[x] = g[x]
    PROVE  SameFaults(f, g, step)
<1> SUFFICES ASSUME NEW field \in ShownBy[step]
             PROVE  /\ field \in FieldFaults(f) <=> field \in FieldFaults(g)
                    /\ field \in Refinements(f) => field \in Refinements(g)
    BY DEF SameFaults
<1>0. f[field] = g[field]
    OBVIOUS
<1>1. field \in FieldFaults(f) <=> field \in FieldFaults(g)
    BY <1>0, FieldFaultsAre
<1>2. ASSUME field \in Refinements(f) PROVE field \in Refinements(g)
    <2>1. CASE step = 1
        <3>1. field = "destinationCityId" /\ f.originCityId = g.originCityId
            BY <1>2, <2>1, RefinementsAre DEF ShownBy
        <3> QED BY <1>0, <1>2, <3>1, RefinementsAre
    <2>2. CASE step = 3
        <3>1. field = "dayEndHour" /\ f.dayStartHour = g.dayStartHour
            BY <1>2, <2>2, RefinementsAre DEF ShownBy
        <3> QED BY <1>0, <1>2, <3>1, RefinementsAre
    <2>3. CASE step = 2
        <3>1. field = "travelers"
            BY <2>3 DEF ShownBy
        <3> QED BY <1>0, <1>2, <3>1, RefinementsAre
    <2>4. CASE step \notin {1, 2, 3}
        <3>1. field \in {"firstDayStartHour"}
            BY <2>4 DEF ShownBy
        <3> QED BY <1>2, <3>1, RefinementsAre
    <2> QED BY <2>1, <2>2, <2>3, <2>4
<1> QED BY <1>1, <1>2

\* The fields "next" asks about are all the step can show, but for the share.
LEMMA NextAsksAboutTheRest ==
    ASSUME NEW f, NEW step \in 1 .. 4, Faults(f) \cap STEPS[step] = {}, f.subsidizedFuelShare \in 0 .. 100
    PROVE  /\ FieldFaults(f) \cap ShownBy[step] = {}
           /\ Refinements(f) \cap ShownBy[step] # {} => HasFraction(f)
<1> SUFFICES ASSUME NEW field \in ShownBy[step]
             PROVE  /\ field \notin FieldFaults(f)
                    /\ field \in Refinements(f) => HasFraction(f)
    OBVIOUS
<1>1. CASE field = "subsidizedFuelShare"
    BY <1>1, FieldFaultsAre, RefinementsAre
<1>2. CASE field # "subsidizedFuelShare"
    <2>1. field \in STEPS[step]
        <3>1. CASE step = 1
            BY <1>2, <3>1 DEF ShownBy, STEPS
        <3>2. CASE step = 2
            BY <1>2, <3>2 DEF ShownBy, STEPS
        <3>3. CASE step = 3
            BY <1>2, <3>3 DEF ShownBy, STEPS
        <3>4. CASE step = 4
            BY <1>2, <3>4 DEF ShownBy, STEPS
        <3> QED BY <3>1, <3>2, <3>3, <3>4
    <2> QED BY <2>1 DEF Faults
<1> QED BY <1>1, <1>2

\* A change of some fields leaves the others as they were.
Only(f, g, touched) == HasFields(g) /\ \A x \in Fields \ touched : g[x] = f[x]

LEMMA PutTouchesOne ==
    ASSUME NEW f, HasFields(f), NEW field \in Fields, NEW values, NEW g \in Put(f, field, values)
    PROVE  Only(f, g, {field})
BY DEF HasFields, Put, Only

LEMMA OriginTouches ==
    ASSUME NEW f, HasFields(f), NEW g \in OriginChanges(f)
    PROVE  Only(f, g, {"originCityId", "destinationCityId", "destinationMode", "days", "radiusKm", "budgetToman"})
<1>1. PICK field, values : /\ field \in {"originCityId", "destinationCityId", "destinationMode", "days", "radiusKm", "budgetToman"}
                           /\ g \in Put(f, field, values)
    BY DEF OriginChanges
<1>2. field \in Fields
    BY <1>1, FieldsAre
<1> QED BY <1>1, <1>2, PutTouchesOne DEF Only

LEMMA TravelersTouch ==
    ASSUME NEW f, HasFields(f), NEW g \in TravelerChanges(f)
    PROVE  Only(f, g, {"travelers"})
<1>1. \E t : g = [f EXCEPT !.travelers = t]
    BY DEF TravelerChanges, HasFields
<1>2. "travelers" \in Fields
    BY FieldsAre
<1> QED BY <1>1, <1>2 DEF Only, HasFields

LEMMA VehicleTouches ==
    ASSUME NEW f, HasFields(f), NEW g \in VehicleChanges(f)
    PROVE  /\ Only(f, g, {"vehicleId", "vehicleCount", "subsidizedFuelShare", "maxDrivingHoursPerDay",
                          "dayStartHour", "dayEndHour"})
           /\ f.subsidizedFuelShare \in 0 .. 100 => g.subsidizedFuelShare \in 0 .. 100
<1>1. CASE g \in Put(f, "subsidizedFuelShare", {0, 100})
    <2>1. Only(f, g, {"subsidizedFuelShare"})
        BY <1>1, FieldsAre, PutTouchesOne
    <2>2. g.subsidizedFuelShare \in {0, 100}
        BY <1>1, FieldsAre DEF Put, HasFields
    <2> QED BY <2>1, <2>2 DEF Only
<1>2. CASE g \notin Put(f, "subsidizedFuelShare", {0, 100})
    <2>1. PICK field, values : /\ field \in {"vehicleId", "vehicleCount", "maxDrivingHoursPerDay", "dayStartHour", "dayEndHour"}
                           /\ g \in Put(f, field, values)
        BY <1>2 DEF VehicleChanges
    <2>2. field \in Fields /\ "subsidizedFuelShare" \in Fields
        BY <2>1, FieldsAre
    <2>3. Only(f, g, {field})
        BY <2>1, <2>2, PutTouchesOne
    <2> QED BY <2>1, <2>2, <2>3 DEF Only
<1> QED BY <1>1, <1>2

LEMMA StyleTouches ==
    ASSUME NEW f, HasFields(f), NEW g \in StyleChanges(f)
    PROVE  Only(f, g, {"style", "interests", "roundTrip", "firstDayStartHour"})
<1>1. PICK field, values : /\ field \in {"style", "interests", "roundTrip", "firstDayStartHour"}
                           /\ g \in Put(f, field, values)
    BY DEF StyleChanges
<1>2. field \in Fields
    BY <1>1, FieldsAre
<1> QED BY <1>1, <1>2, PutTouchesOne DEF Only

LEMMA PlacesTouch ==
    ASSUME NEW f, HasFields(f), NEW g \in PlaceChanges(f)
    PROVE  Only(f, g, {"pinnedPoiIds", "excludedPoiIds"})
<1>1. \E a, b : \/ g = [f EXCEPT !.pinnedPoiIds = a, !.excludedPoiIds = b]
                \/ g = [f EXCEPT !.excludedPoiIds = b, !.pinnedPoiIds = a]
    BY DEF PlaceChanges, Pin, Exclude
<1> QED BY <1>1, FieldsAre DEF Only, HasFields

\* A trip stays one when neither its share nor its stops are touched.
LEMMA StaysATrip ==
    ASSUME NEW f, NEW g, NEW next, NEW touched, Sound(f, next), Only(f, g, touched),
           "subsidizedFuelShare" \notin touched, "customStops" \notin touched
    PROVE  Sound(g, next) /\ g.customStops = f.customStops
<1>1. g.subsidizedFuelShare = f.subsidizedFuelShare /\ g.customStops = f.customStops
    BY FieldsAre DEF Only
<1> QED BY <1>1 DEF Sound, IsTrip, Only

\* The fields of the steps are apart: what a step offers leaves alone what
\* the steps before it can show.
LEMMA OtherStepsKeep ==
    ASSUME NEW f, NEW g, NEW touched,
           Only(f, g, touched), NEW step \in 1 .. 5, touched \cap ShownBy[step] = {}
    PROVE  SameFaults(g, f, step)
<1>1. ShownBy[step] \subseteq Fields
    BY FieldsAre DEF ShownBy
<1>2. \A x \in ShownBy[step] : g[x] = f[x]
    BY <1>1 DEF Only
<1> QED BY <1>2, FaultsOfAStep

LEMMA ToComeAreNames == ASSUME NEW next \in Nat \ {0} PROVE ToCome(next) \subseteq Names
BY PagesAssumption DEF ToCome, Names

LEMMA TripsAreSaved == ASSUME NEW f, NEW next, Sound(f, next) PROVE Saved(f, next)
<1>1. DOMAIN f = Fields /\ f = [x \in DOMAIN f |-> f[x]]
    BY DEF Sound, IsTrip, HasFields
<1>2. DOMAIN Later \subseteq Fields /\ "customStops" \in Fields
    BY FieldsAre DEF Later
<1>3. IsReadable(f) /\ StopsOf(f) = f.customStops
    BY <1>1, <1>2 DEF IsReadable, StopsOf
<1> QED BY <1>3 DEF Saved, Sound, IsTrip

\* What comes from a file or from an earlier sitting is a trip, or nothing.
LEMMA ReadTripsAreSound ==
    ASSUME NEW value, NEW next, value # Undefined, Saved(value, next),
           NEW trip, trip = ParseTripForm(value), trip # Undefined
    PROVE  Sound(trip, next)
<1>1. /\ trip = [x \in DOMAIN value \cup DOMAIN Later |-> IF x \in DOMAIN value THEN value[x] ELSE Later[x]]
      /\ Faults(trip) = {}
    BY DEF ParseTripForm
<1>2. DOMAIN Later = {"destinationCityId", "destinationMode", "firstDayStartHour", "customStops"}
    BY DEF Later
<1>3. trip = [x \in Fields |-> IF x \in DOMAIN value THEN value[x] ELSE Later[x]]
    BY <1>1 DEF Saved, IsReadable
<1>4. HasFields(trip)
    BY <1>3 DEF HasFields
<1>5. trip.subsidizedFuelShare \in 0 .. 100
    <2>1. "subsidizedFuelShare" \notin Faults(trip)
        BY <1>1
    <2> QED BY <2>1, FieldFaultsAre DEF Faults
<1>6. trip.customStops = StopsOf(value)
    <2>1. "customStops" \in Fields /\ Later.customStops = {}
        BY FieldsAre DEF Later
    <2> QED BY <2>1, <1>3 DEF StopsOf
<1> QED BY <1>4, <1>5, <1>6 DEF Sound, IsTrip, Saved

LEMMA FilesAreSound ==
    ASSUME NEW next \in Nat \ {0}, NEW file \in Files, NEW trip, trip = ParseTripForm(file), trip # Undefined
    PROVE  Sound(trip, next)
<1>1. file # Undefined
    BY DEF ParseTripForm
<1>2. IsReadable(file) /\ StopsOf(file) \cap (Places \cup Names) = {}
    BY <1>1, PagesAssumption
<1>3. Saved(file, next)
    BY <1>2, ToComeAreNames DEF Saved
<1> QED BY <1>1, <1>3, ReadTripsAreSound

LEMMA DefaultIsSound == ASSUME NEW date, NEW next PROVE Sound(DefaultTrip(date), next)
<1>1. DOMAIN DefaultTrip(date) = Fields
    BY DEF Fields, DefaultTrip
<1>2. HasFields(DefaultTrip(date))
    BY <1>1 DEF HasFields, DefaultTrip
<1> QED BY <1>2 DEF Sound, IsTrip, DefaultTrip

LEMMA InitialIsSound ==
    ASSUME NEW next, stored # Undefined => Saved(stored, next),
           NEW handed, handed # Undefined => Sound(handed, next)
    PROVE  Sound(Initial(handed), next)
<1>1. CASE handed # Undefined
    BY <1>1 DEF Initial
<1>2. CASE handed = Undefined
    <2>1. PICK saved : saved = ParseTripForm(stored)
        OBVIOUS
    <2>2. CASE saved # Undefined
        <3>1. stored # Undefined
            BY <2>1, <2>2 DEF ParseTripForm
        <3>2. Sound(saved, next)
            BY <2>1, <2>2, <3>1, ReadTripsAreSound
        <3> QED BY <1>2, <2>1, <2>2, <3>2 DEF Initial
    <2>3. CASE saved = Undefined
        <3>1. Initial(handed) = DefaultTrip(today)
            BY <1>2, <2>1, <2>3 DEF Initial
        <3> QED BY <3>1, DefaultIsSound
    <2> QED BY <2>2, <2>3
<1> QED BY <1>1, <1>2

--------------------------------------------------------------------------
(* The steps of the wizard.                                                *)

WizardInv == SoundTrips /\ DraftFollows /\ StepsInOrder

LEMMA Edits ==
    ASSUME WizardInv, NEW changes, Edit(changes), UNCHANGED planVars,
           \A f \in changes : /\ Sound(f, nextStop)
                              /\ \A step \in 1 .. activeStep - 1 :
                                     SameFaults(f, form, step)
    PROVE  WizardInv'
<1>1. PICK f \in changes : Change(f)
    BY DEF Edit
<1>2. form' = f /\ draft' = [due |-> TRUE, values |-> f]
    BY <1>1 DEF Change, Watch
<1>3. UNCHANGED <<activeStep, picker, building, stored, refuses, late, unasked, planVars>>
    BY DEF Edit
<1>4. SoundTrips'
    BY <1>2, <1>3 DEF WizardInv, SoundTrips, planVars
<1>5. DraftFollows'
    BY <1>2 DEF DraftFollows
<1>6. StepsInOrder'
    BY <1>2, <1>3 DEF WizardInv, StepsInOrder, NothingLeft, SameFaults
<1> QED BY <1>4, <1>5, <1>6 DEF WizardInv

LEMMA EditStep ==
    ASSUME WizardInv, UNCHANGED planVars,
           EditOrigin \/ EditTravelers \/ EditVehicle \/ EditStyle \/ EditPlaces
    PROVE  WizardInv'
<1> USE DEF WizardInv
<1>0. Sound(form, nextStop) /\ HasFields(form)
    BY DEF SoundTrips, Sound, IsTrip
<1>1. CASE EditOrigin
    <2>1. \A f \in OriginChanges(form) : Sound(f, nextStop)
        BY <1>0, OriginTouches, StaysATrip
    <2> QED BY <1>1, <2>1, Edits DEF EditOrigin
<1>2. CASE EditTravelers
    <2>1. \A f \in TravelerChanges(form) :
              Sound(f, nextStop) /\ \A step \in 1 .. 1 : SameFaults(f, form, step)
        <3> TAKE f \in TravelerChanges(form)
        <3>1. Only(form, f, {"travelers"})
            BY <1>0, TravelersTouch
        <3>2. \A step \in 1 .. 1 : {"travelers"} \cap ShownBy[step] = {}
            BY DEF ShownBy
        <3> QED BY <1>0, <3>1, <3>2, StaysATrip, OtherStepsKeep
    <2> QED BY <1>2, <2>1, Edits DEF EditTravelers
<1>3. CASE EditVehicle
    <2> DEFINE T == {"vehicleId", "vehicleCount", "subsidizedFuelShare", "maxDrivingHoursPerDay",
                     "dayStartHour", "dayEndHour"}
    <2>1. \A f \in VehicleChanges(form) :
              Sound(f, nextStop) /\ \A step \in 1 .. 2 : SameFaults(f, form, step)
        <3> TAKE f \in VehicleChanges(form)
        <3>1. Only(form, f, T) /\ f.subsidizedFuelShare \in 0 .. 100
            BY <1>0, VehicleTouches DEF Sound, IsTrip
        <3>2. f.customStops = form.customStops
            BY <3>1, FieldsAre DEF Only
        <3>3. Sound(f, nextStop)
            BY <1>0, <3>1, <3>2 DEF Sound, IsTrip, Only
        <3>4. \A step \in 1 .. 2 : T \cap ShownBy[step] = {}
            BY DEF ShownBy
        <3> QED BY <3>1, <3>3, <3>4, OtherStepsKeep
    <2> QED BY <1>3, <2>1, Edits DEF EditVehicle
<1>4. CASE EditStyle
    <2> DEFINE T == {"style", "interests", "roundTrip", "firstDayStartHour"}
    <2>1. \A f \in StyleChanges(form) :
              Sound(f, nextStop) /\ \A step \in 1 .. 3 : SameFaults(f, form, step)
        <3> TAKE f \in StyleChanges(form)
        <3>1. Only(form, f, T)
            BY <1>0, StyleTouches
        <3>2. \A step \in 1 .. 3 : T \cap ShownBy[step] = {}
            BY DEF ShownBy
        <3> QED BY <1>0, <3>1, <3>2, StaysATrip, OtherStepsKeep
    <2> QED BY <1>4, <2>1, Edits DEF EditStyle
<1>5. CASE EditPlaces
    <2> DEFINE T == {"pinnedPoiIds", "excludedPoiIds"}
    <2>1. \A f \in PlaceChanges(form) :
              Sound(f, nextStop) /\ \A step \in 1 .. 4 : SameFaults(f, form, step)
        <3> TAKE f \in PlaceChanges(form)
        <3>1. Only(form, f, T)
            BY <1>0, PlacesTouch
        <3>2. \A step \in 1 .. 4 : T \cap ShownBy[step] = {}
            BY DEF ShownBy
        <3> QED BY <1>0, <3>1, <3>2, StaysATrip, OtherStepsKeep
    <2> QED BY <1>5, <2>1, Edits DEF EditPlaces
<1> QED BY <1>1, <1>2, <1>3, <1>4, <1>5

\* The timer, the position, the calendar, the steps, a file, the submission.
LEMMA DraftStep ==
    ASSUME WizardInv, UNCHANGED planVars, StoreDraft
    PROVE  WizardInv'
<1>1. UNCHANGED <<form, activeStep, picker, building, refuses, late, unasked, planVars>>
    BY DEF StoreDraft
<1>2. draft.values = form /\ stored' = (IF refuses THEN stored ELSE form) /\ draft' = NoDraft
    BY DEF StoreDraft, WizardInv, DraftFollows
<1>3. Saved(form, nextStop)
    BY TripsAreSaved DEF WizardInv, SoundTrips
<1>4. SoundTrips'
    BY <1>1, <1>2, <1>3 DEF WizardInv, SoundTrips, planVars
<1>5. DraftFollows'
    BY <1>1, <1>2 DEF DraftFollows, NoDraft
<1>6. StepsInOrder'
    BY <1>1 DEF WizardInv, StepsInOrder, NothingLeft
<1> QED BY <1>4, <1>5, <1>6 DEF WizardInv

LEMMA PositionStep ==
    ASSUME WizardInv, UNCHANGED planVars, PositionFound
    PROVE  WizardInv'
<1>1. PICK city \in Cities : Change([form EXCEPT !.originCityId = city])
    BY DEF PositionFound
<1>2. PICK f : f = [form EXCEPT !.originCityId = city]
    OBVIOUS
<1>3. form' = f /\ draft' = [due |-> TRUE, values |-> f]
    BY <1>1, <1>2 DEF Change, Watch
<1>4. UNCHANGED <<activeStep, picker, building, stored, refuses, unasked, planVars>> /\ late' = (late \/ activeStep # 1)
    BY DEF PositionFound
<1>5. Only(form, f, {"originCityId"})
    BY <1>2, FieldsAre DEF WizardInv, SoundTrips, Sound, IsTrip, HasFields, Only
<1>6. Sound(f, nextStop)
    BY <1>5, StaysATrip DEF WizardInv, SoundTrips
<1>7. SoundTrips'
    BY <1>3, <1>4, <1>6 DEF WizardInv, SoundTrips, planVars
<1>8. DraftFollows'
    BY <1>3 DEF DraftFollows
<1>9. StepsInOrder'
    <2>1. activeStep \in 1 .. 5
        BY DEF WizardInv, StepsInOrder
    <2>2. ASSUME NEW step \in 1 .. activeStep - 1
          PROVE  /\ FieldFaults(f) \cap ShownBy[step] = {}
                 /\ Refinements(f) \cap ShownBy[step] # {} => step \in unasked \/ (late' /\ step = 1)
        <3>0. /\ FieldFaults(form) \cap ShownBy[step] = {}
              /\ Refinements(form) \cap ShownBy[step] # {} => step \in unasked \/ (late /\ step = 1)
            BY DEF WizardInv, StepsInOrder, NothingLeft
        <3>1. CASE step = 1
            <4>1. activeStep # 1
                BY <2>1
            <4>2. late'
                BY <4>1, <1>4, Zenon
            <4>3. FieldFaults(f) \subseteq FieldFaults(form)
                <5>1. f.originCityId # NoCity
                    BY <1>2, FormAssumption, FieldsAre DEF WizardInv, SoundTrips, Sound, IsTrip, HasFields
                <5>2. \A x \in Fields \ {"originCityId"} : f[x] = form[x]
                    BY <1>5 DEF Only
                <5>3. \A x \in FieldFaults(f) : x \in FieldFaults(form)
                    BY <5>1, <5>2, FieldFaultsAre, FieldsAre
                <5> QED BY <5>3
            <4> QED BY <3>0, <3>1, <4>2, <4>3
        <3>2. CASE step # 1
            <4>1. step \in 1 .. 5
                BY <2>1
            <4>2. step \in 2 .. 4
                BY <2>1, <3>2
            <4>3. {"originCityId"} \cap ShownBy[step] = {}
                BY <4>2 DEF ShownBy
            <4>4. SameFaults(f, form, step)
                BY <1>5, <4>1, <4>3, OtherStepsKeep
            <4> QED BY <3>0, <3>2, <4>4 DEF SameFaults
        <3> QED BY <3>1, <3>2
    <2> QED BY <1>3, <1>4, <2>2 DEF WizardInv, StepsInOrder, NothingLeft
<1> QED BY <1>7, <1>8, <1>9 DEF WizardInv

\* A date is picked on the first step, and none of its faults is of a date.
LEMMA DateStep ==
    ASSUME WizardInv, UNCHANGED planVars, PickDay
    PROVE  WizardInv'
<1>1. PICK date : Change([form EXCEPT !.startDate = date])
    BY DEF PickDay
<1>2. PICK f : f = [form EXCEPT !.startDate = date]
    OBVIOUS
<1>3. form' = f /\ draft' = [due |-> TRUE, values |-> f]
    BY <1>1, <1>2 DEF Change, Watch
<1>4. UNCHANGED <<activeStep, building, stored, refuses, late, unasked, planVars>> /\ activeStep = 1
    BY DEF PickDay, WizardInv, StepsInOrder
<1>5. Only(form, f, {"startDate"})
    BY <1>2, FieldsAre DEF WizardInv, SoundTrips, Sound, IsTrip, HasFields, Only
<1>6. Sound(f, nextStop)
    BY <1>5, StaysATrip DEF WizardInv, SoundTrips
<1>7. SoundTrips'
    BY <1>3, <1>4, <1>6 DEF WizardInv, SoundTrips, planVars
<1>8. DraftFollows'
    BY <1>3 DEF DraftFollows
<1>9. StepsInOrder'
    BY <1>4 DEF WizardInv, StepsInOrder, NothingLeft
<1> QED BY <1>7, <1>8, <1>9 DEF WizardInv

\* Whatever leaves form, draft and storage alone.
LEMMA QuietStep ==
    ASSUME WizardInv, UNCHANGED <<planVars, form, draft, building, stored, refuses, changed>>,
           StepsInOrder'
    PROVE  WizardInv'
<1>1. SoundTrips'
    BY DEF WizardInv, SoundTrips, planVars
<1>2. DraftFollows'
    BY DEF WizardInv, DraftFollows
<1> QED BY <1>1, <1>2 DEF WizardInv

LEMMA CalendarStep ==
    ASSUME WizardInv, UNCHANGED planVars,
           LocateMe \/ PositionRefused \/ OpenCalendar \/ TurnMonth \/ CloseCalendar
             \/ ReferenceSettles \/ RetryReference
    PROVE  WizardInv'
<1>1. UNCHANGED <<planVars, form, activeStep, draft, building, stored, refuses, changed, late, unasked>>
    BY DEF LocateMe, PositionRefused, OpenCalendar, TurnMonth, CloseCalendar, ReferenceSettles,
           RetryReference, onScreen
<1>2. picker' # Undefined => activeStep = 1
    BY DEF LocateMe, PositionRefused, OpenCalendar, TurnMonth, CloseCalendar, ReferenceSettles,
           RetryReference, onScreen, WizardInv, StepsInOrder
<1>3. StepsInOrder'
    BY <1>1, <1>2 DEF WizardInv, StepsInOrder, NothingLeft
<1> QED BY <1>1, <1>3, QuietStep

LEMMA WalkStep ==
    ASSUME WizardInv, UNCHANGED planVars, NextStep \/ Previous \/ StepLabel
    PROVE  WizardInv'
<1> USE DEF WizardInv
<1>1. UNCHANGED <<planVars, form, draft, picker, building, stored, refuses, changed, late>> /\ picker = Undefined
    BY DEF NextStep, Previous, StepLabel, GoTo, Ready
<1>2. activeStep \in 1 .. 5
    BY DEF StepsInOrder
<1>3. CASE NextStep
    <2>1. activeStep \in 1 .. 4 /\ activeStep' = activeStep + 1 /\ Faults(form) \cap STEPS[activeStep] = {}
        BY <1>2, <1>3 DEF NextStep, GoTo, TriggerStep, STEPS
    <2>2. /\ FieldFaults(form) \cap ShownBy[activeStep] = {}
          /\ Refinements(form) \cap ShownBy[activeStep] # {} => HasFraction(form)
        BY <2>1, NextAsksAboutTheRest DEF SoundTrips, Sound, IsTrip
    <2>3. 1 .. activeStep' - 1 = (1 .. activeStep - 1) \cup {activeStep}
        BY <2>1
    <2>4. NothingLeft'
        <3> SUFFICES ASSUME NEW step \in (1 .. activeStep - 1) \cup {activeStep}
                     PROVE  /\ FieldFaults(form) \cap ShownBy[step] = {}
                            /\ Refinements(form) \cap ShownBy[step] # {} => step \in unasked' \/ (late /\ step = 1)
            BY <1>1, <2>3 DEF NothingLeft
        <3>1. unasked' = IF HasFraction(form) THEN unasked \cup {activeStep} ELSE unasked \ {activeStep}
            BY <1>3 DEF NextStep
        <3>2. CASE step = activeStep
            BY <2>2, <3>1, <3>2
        <3>3. CASE step # activeStep
            BY <3>1, <3>3 DEF StepsInOrder, NothingLeft
        <3> QED BY <3>2, <3>3
    <2>5. StepsInOrder'
        BY <1>1, <2>1, <2>4 DEF StepsInOrder
    <2> QED BY <1>1, <2>5, QuietStep
<1>4. CASE Previous \/ StepLabel
    <2>1. activeStep' \in 1 .. activeStep
        BY <1>2, <1>4 DEF Previous, StepLabel, GoTo
    <2>2. ASSUME NEW step \in 1 .. activeStep' - 1 PROVE step \in 1 .. activeStep - 1
        <3>1. PICK a, b : a = activeStep /\ b = activeStep'
            OBVIOUS
        <3>2. a \in Int /\ b \in Int /\ b <= a
            BY <1>2, <2>1, <3>1
        <3>3. step \in 1 .. b - 1
            BY <3>1
        <3>4. step \in 1 .. a - 1
            BY <3>2, <3>3
        <3> QED BY <3>1, <3>4
    <2>3. NothingLeft'
        <3>1. unasked' = unasked
            BY <1>4 DEF Previous, StepLabel
        <3> QED BY <1>1, <2>2, <3>1 DEF StepsInOrder, NothingLeft
    <2>4. StepsInOrder'
        BY <1>1, <1>2, <2>1, <2>3 DEF StepsInOrder
    <2> QED BY <1>1, <2>4, QuietStep
<1> QED BY <1>3, <1>4

LEMMA SubmitStep ==
    ASSUME WizardInv, UNCHANGED planVars, Submit
    PROVE  WizardInv'
<1>1. UNCHANGED <<form, activeStep, draft, picker, refuses, changed, late, unasked, planVars>>
    BY DEF Submit, onScreen
<1>2. stored' = form /\ building' = form
    BY DEF Submit
<1>3. Saved(form, nextStop)
    BY TripsAreSaved DEF WizardInv, SoundTrips
<1>4. SoundTrips'
    BY <1>1, <1>2, <1>3 DEF WizardInv, SoundTrips, planVars
<1>5. DraftFollows'
    BY <1>1, <1>2 DEF WizardInv, DraftFollows
<1>6. StepsInOrder'
    BY <1>1 DEF WizardInv, StepsInOrder, NothingLeft
<1> QED BY <1>4, <1>5, <1>6 DEF WizardInv

LEMMA ImportStep ==
    ASSUME WizardInv, UNCHANGED planVars, ImportFile
    PROVE  WizardInv'
<1>1. UNCHANGED <<picker, building, stored, refuses, late, unasked, planVars>> /\ picker = Undefined
    BY DEF ImportFile, Ready
<1>2. PICK file \in Files : IF ParseTripForm(file) = Undefined THEN UNCHANGED <<form, activeStep, draft, changed>>
                            ELSE Change(ParseTripForm(file)) /\ activeStep' = 1
    BY DEF ImportFile
<1>3. CASE ParseTripForm(file) = Undefined
    <2>1. UNCHANGED <<form, activeStep, draft, changed>>
        BY <1>2, <1>3
    <2>2. StepsInOrder'
        BY <1>1, <2>1 DEF WizardInv, StepsInOrder, NothingLeft
    <2> QED BY <1>1, <2>1, <2>2, QuietStep
<1>4. CASE ParseTripForm(file) # Undefined
    <2>1. PICK f : f = ParseTripForm(file)
        OBVIOUS
    <2>2. nextStop \in Nat \ {0}
        BY DEF WizardInv, SoundTrips
    <2>3. Sound(f, nextStop)
        BY <1>4, <2>1, <2>2, FilesAreSound
    <2>4. form' = f /\ draft' = [due |-> TRUE, values |-> f] /\ activeStep' = 1
        BY <1>2, <1>4, <2>1 DEF Change, Watch
    <2>5. SoundTrips'
        BY <1>1, <2>3, <2>4 DEF WizardInv, SoundTrips, planVars
    <2>6. DraftFollows'
        BY <2>4 DEF DraftFollows
    <2>7. StepsInOrder'
        BY <1>1, <2>4 DEF StepsInOrder, NothingLeft
    <2> QED BY <2>5, <2>6, <2>7 DEF WizardInv
<1> QED BY <1>3, <1>4

LEMMA WizardSteps ==
    ASSUME IInv, WizardNext, UNCHANGED planVars
    PROVE  IInv'
<1>1. WizardInv
    BY DEF IInv, WizardInv
<1>2. WizardInv'
    BY <1>1, EditStep, DraftStep, PositionStep, DateStep, CalendarStep, WalkStep, SubmitStep, ImportStep
       DEF WizardNext, SubmitLast, QuickBuild
<1>3. RemovedIsOut'
    BY DEF IInv, RemovedIsOut, planVars, Planned
<1>4. LeversAreOfAPlan'
    BY DEF IInv, LeversAreOfAPlan, planVars
<1>5. UndoIsNear'
    BY DEF IInv, UndoIsNear, planVars, PlanShown, WizardShown
<1> QED BY <1>2, <1>3, <1>4, <1>5 DEF IInv, WizardInv

--------------------------------------------------------------------------
(* The trips that the page of a plan makes of one another.                 *)

LEMMA NamesRunOut ==
    ASSUME NEW next \in Nat \ {0}
    PROVE  /\ ToCome(next) \cap Places = {}
           /\ ToCome(next + 1) \subseteq ToCome(next)
           /\ next <= Len(StopIds) => /\ StopIds[next] \in ToCome(next)
                                      /\ StopIds[next] \notin ToCome(next + 1)
                                      /\ StopIds[next] \notin Places
<1>1. ToCome(next) \cap Places = {}
    BY ToComeAreNames, PagesAssumption
<1>2. ToCome(next + 1) \subseteq ToCome(next)
    BY DEF ToCome
<1>3. ASSUME next <= Len(StopIds)
      PROVE  StopIds[next] \in ToCome(next) /\ StopIds[next] \notin ToCome(next + 1)
    <2>1. next \in DOMAIN StopIds /\ StopIds \in Seq(Names)
        BY <1>3, PagesAssumption
    <2>2. StopIds[next] \in ToCome(next)
        BY <1>3, <2>1 DEF ToCome
    <2>3. ASSUME NEW i \in next + 1 .. Len(StopIds), StopIds[i] = StopIds[next] PROVE FALSE
        <3>1. i \in DOMAIN StopIds /\ i # next
            BY <2>1, <2>3
        <3> QED BY <2>1, <2>3, <3>1, PagesAssumption
    <2> QED BY <2>2, <2>3 DEF ToCome
<1> QED BY <1>1, <1>2, <1>3

LEMMA OpenKept ==
    ASSUME NEW f, NEW g, NEW touched, Only(f, g, touched),
           "excludedPoiIds" \notin touched, "customStops" \notin touched
    PROVE  Open(g) = Open(f)
BY FieldsAre DEF Only, Open

LEMMA PlansAreOfTheirInput ==
    ASSUME NEW input, NEW plan \in Plans(input)
    PROVE  plan.made = TRUE /\ plan.input = input /\ Planned(plan) \subseteq Candidates(input)
<1>1. PICK chosen, day : chosen \subseteq Candidates(input) /\ DOMAIN day = chosen
                           /\ plan = [made |-> TRUE, input |-> input, day |-> day]
    BY DEF Plans
<1> QED BY <1>1 DEF Planned

\* One stop less is a trip, and that stop is no longer among its choices.
LEMMA OneLess ==
    ASSUME NEW f, NEW next \in Nat \ {0}, Sound(f, next),
           NEW p \in Places \cup f.customStops, NEW g, g = Without(f, p)
    PROVE  Sound(g, next) /\ p \notin Open(g) /\ Open(g) \subseteq Open(f) /\ p \notin ToCome(next)
<1>1. HasFields(f) /\ f.customStops \cap Places = {} /\ f.customStops \cap ToCome(next) = {}
    BY DEF Sound, IsTrip
<1>2. {"subsidizedFuelShare", "customStops", "excludedPoiIds"} \subseteq Fields
    BY FieldsAre
<1>3. CASE p \in f.customStops
    <2>1. g = [f EXCEPT !.customStops = @ \ {p}]
        BY <1>3 DEF Without
    <2>2. /\ HasFields(g) /\ g.subsidizedFuelShare = f.subsidizedFuelShare
          /\ g.excludedPoiIds = f.excludedPoiIds /\ g.customStops = f.customStops \ {p}
        BY <2>1, <1>1, <1>2 DEF HasFields
    <2>3. Sound(g, next)
        BY <2>2 DEF Sound, IsTrip
    <2> QED BY <1>1, <1>3, <2>2, <2>3 DEF Open
<1>4. CASE p \notin f.customStops
    <2>1. g = [f EXCEPT !.excludedPoiIds = @ \cup {p}]
        BY <1>4 DEF Without
    <2>2. /\ HasFields(g) /\ g.subsidizedFuelShare = f.subsidizedFuelShare
          /\ g.excludedPoiIds = f.excludedPoiIds \cup {p} /\ g.customStops = f.customStops
        BY <2>1, <1>1, <1>2 DEF HasFields
    <2>3. Sound(g, next)
        BY <2>2 DEF Sound, IsTrip
    <2>4. p \in Places
        BY <1>4
    <2> QED BY <1>4, <2>2, <2>3, <2>4, NamesRunOut DEF Open
<1> QED BY <1>3, <1>4

\* A saving carries everything that was left out when it was computed.
LEMMA SavingsCarry ==
    ASSUME NEW g, NEW patch \in Patches(g), patch.excludedPoiIds # Undefined
    PROVE  g.input.excludedPoiIds \subseteq patch.excludedPoiIds
<1>1. CASE \E s \in Styles : patch = [NoChange EXCEPT !.style = s]
    BY <1>1 DEF NoChange
<1>2. CASE patch = [NoChange EXCEPT !.days = g.input.days - 1]
    BY <1>2 DEF NoChange
<1>3. CASE \E p \in Planned(g) \cap Places :
               patch = [NoChange EXCEPT !.excludedPoiIds = g.input.excludedPoiIds \cup {p}]
    BY <1>3 DEF NoChange
<1> QED BY <1>1, <1>2, <1>3 DEF Patches

LEMMA AppliedIsSound ==
    ASSUME NEW f, NEW next, Sound(f, next), NEW patch, NEW g, g = ApplyLever(f, patch)
    PROVE  /\ Sound(g, next) /\ g.customStops = f.customStops
           /\ g.excludedPoiIds = IF patch.excludedPoiIds # Undefined THEN patch.excludedPoiIds
                                 ELSE f.excludedPoiIds
<1>1. PICK a, b, c : /\ g = [f EXCEPT !.style = a, !.days = b, !.excludedPoiIds = c]
                     /\ c = IF patch.excludedPoiIds # Undefined THEN patch.excludedPoiIds ELSE f.excludedPoiIds
    BY DEF ApplyLever
<1>2. HasFields(f)
    BY DEF Sound, IsTrip
<1>3. Only(f, g, {"style", "days", "excludedPoiIds"}) /\ g.excludedPoiIds = c
    BY <1>1, <1>2, FieldsAre DEF Only, HasFields
<1> QED BY <1>1, <1>3, StaysATrip

--------------------------------------------------------------------------
(* The steps of the pages.                                                 *)

LEMMA Remounted ==
    ASSUME WizardInv, NEW handed, handed # Undefined => Sound(handed, nextStop), Remount(handed)
    PROVE  Sound(form', nextStop) /\ DraftFollows' /\ StepsInOrder'
<1>1. PICK f : f = Initial(handed)
    OBVIOUS
<1>2. Sound(f, nextStop)
    BY <1>1, InitialIsSound DEF WizardInv, SoundTrips
<1>3. form' = f /\ activeStep' = 1 /\ draft' = NoDraft /\ picker' = Undefined /\ changed' = FALSE
    BY <1>1 DEF Remount
<1>4. DraftFollows'
    BY <1>3 DEF DraftFollows, NoDraft
<1>5. StepsInOrder'
    BY <1>3 DEF StepsInOrder, NothingLeft
<1> QED BY <1>2, <1>3, <1>4, <1>5

LEMMA WizardUntouched ==
    ASSUME WizardInv, UNCHANGED wizardVars
    PROVE  DraftFollows' /\ StepsInOrder' /\ UNCHANGED <<form, building, stored>>
BY DEF WizardInv, wizardVars, onScreen, DraftFollows, StepsInOrder, NothingLeft

\* What the dialog, the panel and the questions do: no trip is touched, and
\* neither is the toast, unless it goes.
LEMMA TripsUntouched ==
    ASSUME IInv, UNCHANGED <<wizardVars, generated, editing, rebuilding, nextStop, removed, shadow>>,
           toast' = toast \/ toast' = Undefined, LeversAreOfAPlan',
           dialog' # Undefined => generated.made /\ toast' = Undefined /\ nextStop <= Len(StopIds)
    PROVE  IInv'
<1>1. WizardInv /\ DraftFollows' /\ StepsInOrder' /\ UNCHANGED <<form, building, stored>>
    BY WizardUntouched DEF IInv, WizardInv
<1>2. SoundTrips'
    BY <1>1 DEF IInv, SoundTrips
<1>3. RemovedIsOut'
    BY DEF IInv, RemovedIsOut, Planned
<1>4. UndoIsNear'
    BY DEF IInv, UndoIsNear, PlanShown, WizardShown
<1> QED BY <1>1, <1>2, <1>3, <1>4 DEF IInv

LEMMA LeversUntouched == ASSUME IInv, UNCHANGED levers PROVE LeversAreOfAPlan'
BY DEF IInv, LeversAreOfAPlan

LEMMA NoLeversOfAPlan == ASSUME levers' = NoLevers PROVE LeversAreOfAPlan'
<1>1. levers'.patches = {} /\ levers' = [state |-> levers'.state, of |-> levers'.of, patches |-> levers'.patches]
    BY DEF NoLevers
<1> QED BY <1>1 DEF LeversAreOfAPlan

LEMMA PanelStep ==
    ASSUME IInv, ToastEnds \/ ComputeLevers \/ LeversSettle \/ AskNew \/ StayHere
    PROVE  IInv'
<1>1. CASE ToastEnds \/ AskNew \/ StayHere
    <2>1. /\ UNCHANGED <<wizardVars, generated, editing, rebuilding, nextStop, removed, shadow, levers, dialog>>
          /\ toast' = toast \/ toast' = Undefined
        BY <1>1 DEF ToastEnds, AskNew, StayHere, ClickAway
    <2>2. dialog' # Undefined => generated.made /\ toast' = Undefined /\ nextStop <= Len(StopIds)
        BY <2>1 DEF IInv, UndoIsNear
    <2> QED BY <2>1, <2>2, LeversUntouched, TripsUntouched
<1>2. CASE ComputeLevers
    <2>1. /\ UNCHANGED <<wizardVars, generated, editing, rebuilding, nextStop, removed, shadow, dialog>>
          /\ toast' = Undefined
          /\ levers' = [state |-> "pending", of |-> generated, patches |-> {}]
        BY <1>2 DEF ComputeLevers, ClickAway
    <2>2. dialog' # Undefined => generated.made /\ toast' = Undefined /\ nextStop <= Len(StopIds)
        BY <2>1 DEF IInv, UndoIsNear
    <2>3. LeversAreOfAPlan'
        BY <2>1 DEF LeversAreOfAPlan
    <2> QED BY <2>1, <2>2, <2>3, TripsUntouched
<1>3. CASE LeversSettle
    <2>1. UNCHANGED <<wizardVars, generated, editing, rebuilding, nextStop, removed, shadow, dialog, toast>>
        BY <1>3 DEF LeversSettle
    <2>2. dialog' # Undefined => generated.made /\ toast' = Undefined /\ nextStop <= Len(StopIds)
        BY <2>1 DEF IInv, UndoIsNear
    <2>3. PICK found : /\ found \in {Patches(levers.of), {}}
                       /\ levers' = IF found = {} THEN NoLevers
                                    ELSE [levers EXCEPT !.state = "data", !.patches = found]
        BY <1>3 DEF LeversSettle
    <2>4. CASE found = {}
        BY <2>1, <2>2, <2>3, <2>4, NoLeversOfAPlan, TripsUntouched
    <2>5. CASE found # {}
        <3>1. found = Patches(levers.of) /\ levers' = [levers EXCEPT !.state = "data", !.patches = found]
            BY <2>3, <2>5
        <3>2. levers = [state |-> levers.state, of |-> levers.of, patches |-> levers.patches]
            BY DEF IInv, LeversAreOfAPlan
        <3>3. levers' = [state |-> "data", of |-> levers.of, patches |-> Patches(levers.of)]
            BY <3>1, <3>2
        <3>4. LeversAreOfAPlan'
            <4>1. levers'.of = levers.of /\ levers'.patches = Patches(levers.of)
                BY <3>3
            <4>2. levers' = [state |-> levers'.state, of |-> levers'.of, patches |-> levers'.patches]
                BY <3>3
            <4> QED BY <4>1, <4>2 DEF LeversAreOfAPlan
        <3> QED BY <2>1, <2>2, <3>4, TripsUntouched
    <2> QED BY <2>4, <2>5
<1> QED BY <1>1, <1>2, <1>3

LEMMA DialogStep ==
    ASSUME IInv, OpenDialog \/ RunSearch \/ SearchEnds \/ PlaceFound \/ TapMap \/ TypeName \/ CloseDialog
    PROVE  IInv'
<1>1. CASE OpenDialog
    <2>1. /\ UNCHANGED <<wizardVars, generated, editing, rebuilding, nextStop, removed, shadow, levers>>
          /\ toast' = Undefined
        BY <1>1 DEF OpenDialog, ClickAway
    <2>2. generated.made /\ nextStop <= Len(StopIds)
        BY <1>1 DEF OpenDialog, OnPage, PlanShown, WizardShown
    <2> QED BY <2>1, <2>2, LeversUntouched, TripsUntouched
<1>2. CASE RunSearch \/ SearchEnds \/ PlaceFound \/ TapMap \/ TypeName \/ CloseDialog
    <2>1. /\ UNCHANGED <<wizardVars, generated, editing, rebuilding, nextStop, removed, shadow, levers, toast>>
          /\ dialog # Undefined
        BY <1>2 DEF RunSearch, SearchEnds, PlaceFound, TapMap, TypeName, CloseDialog, InDialog
    <2>2. generated.made /\ toast' = Undefined /\ nextStop <= Len(StopIds)
        BY <2>1 DEF IInv, UndoIsNear
    <2> QED BY <2>1, <2>2, LeversUntouched, TripsUntouched
<1> QED BY <1>1, <1>2

\* A rebuild that is started, with a trip that is sound and from whose
\* choices everything that is gone is out.
LEMMA RebuildStarts ==
    ASSUME IInv, UNCHANGED <<wizardVars, generated, editing, levers, nextStop, removed, dialog>>,
           NEW input, NEW keeps, RebuildWith(input, keeps),
           Sound(input, nextStop), Out(input, keeps, nextStop),
           toast' # Undefined => Sound(toast'.input, nextStop) /\ Out(toast'.input, toast'.removed, nextStop),
           UndoIsNear'
    PROVE  IInv'
<1>1. WizardInv /\ DraftFollows' /\ StepsInOrder' /\ UNCHANGED <<form, building, stored>>
    BY WizardUntouched DEF IInv, WizardInv
<1>2. rebuilding'.input = input /\ rebuilding'.keeps = keeps
    BY DEF RebuildWith
<1>3. SoundTrips'
    BY <1>1, <1>2 DEF IInv, SoundTrips
<1>4. RemovedIsOut'
    BY <1>2 DEF IInv, RemovedIsOut, Planned
<1>5. LeversAreOfAPlan'
    BY LeversUntouched
<1> QED BY <1>1, <1>3, <1>4, <1>5 DEF IInv

\* Without a toast there is nothing to be near.
LEMMA NothingToUndo ==
    ASSUME IInv, UNCHANGED <<generated, nextStop, dialog>>, toast' = Undefined
    PROVE  UndoIsNear'
BY DEF IInv, UndoIsNear

LEMMA OnThePage ==
    ASSUME IInv, PlanShown
    PROVE  /\ generated.made /\ Sound(generated.input, nextStop) /\ nextStop \in Nat \ {0}
           /\ Planned(generated) \subseteq Candidates(generated.input)
           /\ Out(generated.input, removed, nextStop)
BY DEF IInv, SoundTrips, RemovedIsOut, PlanShown, WizardShown

LEMMA MoveStep == ASSUME IInv, OnMove PROVE IInv'
<1>1. PlanShown /\ UNCHANGED <<wizardVars, generated, editing, levers, nextStop, removed, dialog>> /\ toast' = Undefined
    BY DEF OnMove, OnPage, ClickAway
<1>2. PICK days : RebuildWith([generated.input EXCEPT !.dayAssignments = days], removed)
    BY DEF OnMove
<1>3. PICK f, g : f = generated.input /\ g = [generated.input EXCEPT !.dayAssignments = days]
    OBVIOUS
<1>4. Sound(f, nextStop) /\ Out(f, removed, nextStop)
    BY <1>1, <1>3, OnThePage
<1>5. Only(f, g, {"dayAssignments"})
    BY <1>3, <1>4, FieldsAre DEF Only, Sound, IsTrip, HasFields
<1>6. Sound(g, nextStop) /\ Open(g) = Open(f)
    BY <1>4, <1>5, StaysATrip, OpenKept
<1>7. Out(g, removed, nextStop)
    BY <1>4, <1>6 DEF Out
<1>8. UndoIsNear'
    BY <1>1, NothingToUndo
<1>9. RebuildWith(g, removed)
    BY <1>2, <1>3
<1> QED BY <1>1, <1>6, <1>7, <1>8, <1>9, RebuildStarts

LEMMA RemoveStep == ASSUME IInv, OnRemove PROVE IInv'
<1>1. /\ PlanShown /\ UNCHANGED <<wizardVars, generated, editing, levers, nextStop, removed, dialog>>
      /\ dialog = Undefined
    BY DEF OnRemove, OnPage
<1>2. toast' = [input |-> generated.input, removed |-> removed]
    BY DEF OnRemove
<1>3. PICK p \in Planned(generated) : RebuildWith(Without(generated.input, p), removed \cup {p})
    BY DEF OnRemove
<1>4. PICK f, g : f = generated.input /\ g = Without(generated.input, p)
    OBVIOUS
<1>5. /\ Sound(f, nextStop) /\ Out(f, removed, nextStop) /\ nextStop \in Nat \ {0}
      /\ p \in Places \cup f.customStops
    BY <1>1, <1>3, <1>4, OnThePage DEF Candidates, Open
<1>6. Sound(g, nextStop) /\ p \notin Open(g) /\ Open(g) \subseteq Open(f) /\ p \notin ToCome(nextStop)
    BY <1>4, <1>5, OneLess
<1>7. Out(g, removed \cup {p}, nextStop)
    BY <1>5, <1>6 DEF Out
<1>8. toast'.input = f /\ toast'.removed = removed
    BY <1>2, <1>4
<1>9. UndoIsNear'
    <2>1. rebuilding'.input = g /\ generated'.input = f
        BY <1>1, <1>3, <1>4 DEF RebuildWith
    <2>3. g \in OneStopLess(toast)' /\ f \in OneStopLess(toast)'
        BY <1>4, <1>5, <1>8 DEF OneStopLess
    <2>4. PlanShown'
        BY <1>1 DEF PlanShown, WizardShown
    <2> QED BY <1>1, <2>1, <2>3, <2>4 DEF UndoIsNear
<1>10. RebuildWith(g, removed \cup {p})
    BY <1>3, <1>4
<1> QED BY <1>1, <1>5, <1>6, <1>7, <1>8, <1>9, <1>10, RebuildStarts

LEMMA UndoStep == ASSUME IInv, Undo PROVE IInv'
<1>1. /\ UNCHANGED <<wizardVars, generated, editing, levers, nextStop, removed, dialog>>
      /\ toast # Undefined /\ toast' = Undefined /\ RebuildWith(toast.input, toast.removed)
    BY DEF Undo
<1>2. Sound(toast.input, nextStop) /\ Out(toast.input, toast.removed, nextStop)
    BY <1>1 DEF IInv, SoundTrips, RemovedIsOut
<1>3. UndoIsNear'
    BY <1>1, NothingToUndo
<1>4. PICK input, keeps : input = toast.input /\ keeps = toast.removed
    OBVIOUS
<1> QED BY <1>1, <1>2, <1>3, <1>4, RebuildStarts

LEMMA ApplyStep == ASSUME IInv, OnApply PROVE IInv'
<1>1. PlanShown /\ UNCHANGED <<wizardVars, generated, editing, levers, nextStop, removed, dialog>> /\ toast' = Undefined
    BY DEF OnApply, OnPage, ClickAway
<1>2. PICK patch \in levers.patches :
          RebuildWith(ApplyLever(generated.input, patch),
                      IF levers.of.input # generated.input /\ patch.excludedPoiIds # Undefined
                      THEN removed \cap patch.excludedPoiIds ELSE removed)
    BY DEF OnApply
<1>3. PICK f, g, keeps : /\ f = generated.input /\ g = ApplyLever(generated.input, patch)
                         /\ keeps = IF levers.of.input # generated.input /\ patch.excludedPoiIds # Undefined
                                    THEN removed \cap patch.excludedPoiIds ELSE removed
    OBVIOUS
<1>4. Sound(f, nextStop) /\ Out(f, removed, nextStop)
    BY <1>1, <1>3, OnThePage
<1>5. /\ Sound(g, nextStop) /\ g.customStops = f.customStops
      /\ g.excludedPoiIds = IF patch.excludedPoiIds # Undefined THEN patch.excludedPoiIds
                            ELSE f.excludedPoiIds
    BY <1>3, <1>4, AppliedIsSound
<1>6. Out(g, keeps, nextStop)
    <2>1. CASE patch.excludedPoiIds = Undefined
        <3>1. Open(g) = Open(f) /\ keeps = removed
            BY <1>3, <1>5, <2>1 DEF Open
        <3> QED BY <1>4, <3>1 DEF Out
    <2>2. CASE patch.excludedPoiIds # Undefined /\ levers.of.input # generated.input
        <3>1. keeps = removed \cap patch.excludedPoiIds /\ g.excludedPoiIds = patch.excludedPoiIds
            BY <1>3, <1>5, <2>2
        <3> QED BY <1>4, <1>5, <3>1 DEF Out, Open
    <2>3. CASE patch.excludedPoiIds # Undefined /\ levers.of.input = generated.input
        <3>1. keeps = removed /\ g.excludedPoiIds = patch.excludedPoiIds
            BY <1>3, <1>5, <2>3
        <3>2. patch \in Patches(levers.of)
            BY <1>2 DEF IInv, LeversAreOfAPlan
        <3>3. PICK of : of = levers.of
            OBVIOUS
        <3>4. of.input.excludedPoiIds \subseteq patch.excludedPoiIds
            BY <2>3, <3>2, <3>3, SavingsCarry
        <3>5. f.excludedPoiIds \subseteq g.excludedPoiIds
            BY <1>3, <2>3, <3>1, <3>3, <3>4
        <3>6. Open(g) \subseteq Open(f)
            BY <1>5, <3>5 DEF Open
        <3> QED BY <1>4, <3>1, <3>6 DEF Out
    <2> QED BY <2>1, <2>2, <2>3
<1>7. UndoIsNear'
    BY <1>1, NothingToUndo
<1>8. RebuildWith(g, keeps)
    BY <1>2, <1>3
<1> QED BY <1>1, <1>5, <1>6, <1>7, <1>8, RebuildStarts

LEMMA AddStep == ASSUME IInv, OnAdd PROVE IInv'
<1>1. /\ UNCHANGED <<wizardVars, generated, editing, levers, removed, shadow, toast>>
      /\ dialog # Undefined /\ dialog' = Undefined /\ nextStop' = nextStop + 1
      /\ RebuildWith([generated.input EXCEPT !.customStops = @ \cup {StopIds[nextStop]}], removed)
    BY DEF OnAdd
<1>2. generated.made /\ toast = Undefined /\ nextStop <= Len(StopIds) /\ nextStop \in Nat \ {0}
    BY <1>1 DEF IInv, UndoIsNear, SoundTrips
<1>3. PICK next, f, stop, g : /\ next = nextStop /\ f = generated.input /\ stop = StopIds[nextStop]
                              /\ g = [generated.input EXCEPT !.customStops = @ \cup {StopIds[nextStop]}]
    OBVIOUS
<1>4. /\ Sound(f, next) /\ Planned(generated) \subseteq Candidates(f) /\ Out(f, removed, next)
    BY <1>2, <1>3 DEF IInv, SoundTrips, RemovedIsOut
<1>5. /\ ToCome(next) \cap Places = {} /\ ToCome(next + 1) \subseteq ToCome(next)
      /\ stop \in ToCome(next) /\ stop \notin ToCome(next + 1) /\ stop \notin Places
    BY <1>2, <1>3, NamesRunOut
<1>6. /\ HasFields(g) /\ g.subsidizedFuelShare = f.subsidizedFuelShare
      /\ g.excludedPoiIds = f.excludedPoiIds /\ g.customStops = f.customStops \cup {stop}
    BY <1>3, <1>4, FieldsAre DEF Sound, IsTrip, HasFields
<1>7. Sound(g, next + 1)
    BY <1>4, <1>5, <1>6 DEF Sound, IsTrip
<1>8. Out(g, removed, next + 1)
    BY <1>4, <1>5, <1>6 DEF Out, Open
<1>9. \A h : Sound(h, next) => Sound(h, next + 1)
    BY <1>5 DEF Sound
<1>10. \A h : Saved(h, next) => Saved(h, next + 1)
    BY <1>5 DEF Saved
<1>11. WizardInv /\ DraftFollows' /\ StepsInOrder' /\ UNCHANGED <<form, building, stored>>
    BY <1>1, WizardUntouched DEF IInv, WizardInv
<1>12. rebuilding'.input = g /\ rebuilding'.keeps = removed /\ nextStop' = next + 1 /\ toast' = Undefined
    BY <1>1, <1>2, <1>3 DEF RebuildWith
<1>13. SoundTrips'
    <2>1. nextStop' \in Nat \ {0}
        BY <1>2, <1>3, <1>12
    <2> QED BY <1>1, <1>3, <1>7, <1>9, <1>10, <1>11, <1>12, <2>1 DEF IInv, SoundTrips
<1>14. RemovedIsOut'
    <2>1. Out(f, removed, next + 1)
        BY <1>4, <1>5 DEF Out
    <2> QED BY <1>1, <1>3, <1>4, <1>8, <1>12, <2>1 DEF RemovedIsOut, Planned
<1>15. LeversAreOfAPlan'
    BY <1>1, LeversUntouched
<1>16. UndoIsNear'
    BY <1>1, <1>12 DEF UndoIsNear
<1> QED BY <1>11, <1>13, <1>14, <1>15, <1>16 DEF IInv

LEMMA RebuiltStep == ASSUME IInv, Rebuilt PROVE IInv'
<1>1. /\ rebuilding # Undefined /\ rebuilding' = Undefined /\ editing' = FALSE
      /\ removed' = rebuilding.keeps /\ shadow' = FALSE /\ Remount(rebuilding.input)
      /\ UNCHANGED <<building, stored, nextStop, toast, dialog, levers, refuses>>
    BY DEF Rebuilt, Accept, around
<1>2. PICK f, keeps : f = rebuilding.input /\ keeps = rebuilding.keeps
    OBVIOUS
<1>3. Sound(f, nextStop) /\ Out(f, keeps, nextStop)
    BY <1>1, <1>2 DEF IInv, SoundTrips, RemovedIsOut
<1>4. PICK plan \in Plans(f) : generated' = plan
    BY <1>2 DEF Rebuilt, Accept
<1>5. plan.made = TRUE /\ plan.input = f /\ Planned(plan) \subseteq Candidates(f)
    BY <1>4, PlansAreOfTheirInput
<1>6. Sound(form', nextStop) /\ DraftFollows' /\ StepsInOrder'
    BY <1>1, <1>2, <1>3, Remounted DEF IInv, WizardInv
<1>7. SoundTrips'
    BY <1>1, <1>3, <1>4, <1>5, <1>6 DEF IInv, SoundTrips
<1>8. RemovedIsOut'
    BY <1>1, <1>2, <1>3, <1>4, <1>5 DEF IInv, RemovedIsOut, Planned
<1>9. UndoIsNear'
    <2>1. toast # Undefined => f \in OneStopLess(toast)
        BY <1>1, <1>2 DEF IInv, UndoIsNear
    <2>2. PlanShown'
        BY <1>1, <1>4, <1>5 DEF PlanShown, WizardShown
    <2> QED BY <1>1, <1>4, <1>5, <2>1, <2>2 DEF IInv, UndoIsNear
<1> QED BY <1>1, <1>6, <1>7, <1>8, <1>9, LeversUntouched DEF IInv

LEMMA WizardBuiltStep == ASSUME IInv, WizardBuilt PROVE IInv'
<1>1. /\ building # Undefined /\ building' = Undefined /\ editing' = FALSE
      /\ removed' = {} /\ shadow' = PlanShown /\ Remount(building)
      /\ UNCHANGED <<stored, nextStop, toast, dialog, levers, refuses, rebuilding>>
    BY DEF WizardBuilt, Accept, around
<1>2. PICK f : f = building
    OBVIOUS
<1>3. Sound(f, nextStop)
    BY <1>1, <1>2 DEF IInv, SoundTrips
<1>4. PICK plan \in Plans(f) : generated' = plan
    BY <1>2 DEF WizardBuilt, Accept
<1>5. plan.made = TRUE /\ plan.input = f /\ Planned(plan) \subseteq Candidates(f)
    BY <1>4, PlansAreOfTheirInput
<1>6. Sound(form', nextStop) /\ DraftFollows' /\ StepsInOrder'
    BY <1>1, <1>2, <1>3, Remounted DEF IInv, WizardInv
<1>7. SoundTrips'
    BY <1>1, <1>3, <1>4, <1>5, <1>6 DEF IInv, SoundTrips
<1>8. RemovedIsOut'
    BY <1>1, <1>4, <1>5 DEF IInv, RemovedIsOut, Planned, Out
<1>9. UndoIsNear'
    <2>1. toast # Undefined => shadow'
        BY <1>1 DEF IInv, UndoIsNear
    <2>2. PlanShown'
        BY <1>1, <1>4, <1>5 DEF PlanShown, WizardShown
    <2>3. dialog' # Undefined => generated'.made /\ toast' = Undefined /\ nextStop' <= Len(StopIds)
        BY <1>1, <1>4, <1>5 DEF IInv, UndoIsNear
    <2>4. toast' # Undefined /\ rebuilding' # Undefined => rebuilding'.input \in OneStopLess(toast')
        BY <1>1 DEF IInv, UndoIsNear
    <2> QED BY <1>1, <2>1, <2>2, <2>3, <2>4 DEF UndoIsNear
<1> QED BY <1>1, <1>6, <1>7, <1>8, <1>9, LeversUntouched DEF IInv

\* An answer that failed or that nobody waits for.
LEMMA FailedStep == ASSUME IInv, WizardFailed \/ RebuildFailed \/ CancelRebuild PROVE IInv'
<1>1. CASE WizardFailed
    <2>1. /\ UNCHANGED <<form, activeStep, draft, picker, changed, late, unasked, stored, refuses, planVars>>
          /\ building' = Undefined
        BY <1>1 DEF WizardFailed, onScreen, around
    <2>2. SoundTrips'
        BY <2>1 DEF IInv, SoundTrips, planVars
    <2>3. DraftFollows' /\ StepsInOrder'
        BY <2>1 DEF IInv, DraftFollows, StepsInOrder, NothingLeft
    <2>4. RemovedIsOut'
        BY <2>1 DEF IInv, RemovedIsOut, planVars, Planned
    <2>5. LeversAreOfAPlan'
        BY <2>1, LeversUntouched DEF planVars
    <2>6. UndoIsNear'
        BY <2>1 DEF IInv, UndoIsNear, planVars, PlanShown, WizardShown
    <2> QED BY <2>2, <2>3, <2>4, <2>5, <2>6 DEF IInv
<1>2. CASE RebuildFailed \/ CancelRebuild
    <2>1. /\ UNCHANGED <<wizardVars, generated, editing, dialog, levers, nextStop, removed, shadow>>
          /\ rebuilding' = Undefined /\ (toast' = toast \/ toast' = Undefined)
        BY <1>2 DEF RebuildFailed, CancelRebuild, ClickAway
    <2>2. WizardInv /\ DraftFollows' /\ StepsInOrder' /\ UNCHANGED <<form, building, stored>>
        BY <2>1, WizardUntouched DEF IInv, WizardInv
    <2>3. SoundTrips'
        BY <2>1, <2>2 DEF IInv, SoundTrips
    <2>4. RemovedIsOut'
        BY <2>1 DEF IInv, RemovedIsOut, Planned
    <2>5. UndoIsNear'
        BY <2>1 DEF IInv, UndoIsNear, PlanShown, WizardShown
    <2> QED BY <2>1, <2>2, <2>3, <2>4, <2>5, LeversUntouched DEF IInv
<1> QED BY <1>1, <1>2

\* From one page to the other.
LEMMA ToWizardStep == ASSUME IInv, OnEdit \/ BackButton PROVE IInv'
<1>1. PlanShown /\ ToWizard
    BY DEF OnEdit, BackButton, OnPage
<1>2. /\ Remount(generated.input) /\ toast' = Undefined /\ dialog' = Undefined /\ levers' = NoLevers
      /\ UNCHANGED <<stored, building, generated, rebuilding, nextStop, removed>>
    BY <1>1 DEF ToWizard, Unmount, around
<1>3. PICK f : f = generated.input
    OBVIOUS
<1>4. Sound(f, nextStop)
    BY <1>1, <1>3, OnThePage
<1>5. Sound(form', nextStop) /\ DraftFollows' /\ StepsInOrder'
    BY <1>2, <1>3, <1>4, Remounted DEF IInv, WizardInv
<1>6. SoundTrips'
    BY <1>2, <1>5 DEF IInv, SoundTrips
<1>7. RemovedIsOut'
    BY <1>2 DEF IInv, RemovedIsOut, Planned
<1>8. UndoIsNear'
    BY <1>2 DEF UndoIsNear
<1> QED BY <1>2, <1>5, <1>6, <1>7, <1>8, NoLeversOfAPlan DEF IInv

LEMMA CancelEditStep == ASSUME IInv, CancelEdit PROVE IInv'
<1>1. /\ generated.made /\ editing /\ editing' = FALSE /\ Remount(generated.input)
      /\ UNCHANGED <<stored, building, generated, rebuilding, nextStop, removed, toast, dialog, levers>>
    BY DEF CancelEdit, around
<1>2. PICK f : f = generated.input
    OBVIOUS
<1>3. Sound(f, nextStop)
    BY <1>1, <1>2 DEF IInv, SoundTrips
<1>4. Sound(form', nextStop) /\ DraftFollows' /\ StepsInOrder'
    BY <1>1, <1>2, <1>3, Remounted DEF IInv, WizardInv
<1>5. SoundTrips'
    BY <1>1, <1>4 DEF IInv, SoundTrips
<1>6. RemovedIsOut'
    BY <1>1 DEF IInv, RemovedIsOut, Planned
<1>7. toast = Undefined
    BY <1>1 DEF IInv, UndoIsNear, PlanShown, WizardShown
<1>8. UndoIsNear'
    BY <1>1, <1>7, NothingToUndo
<1> QED BY <1>1, <1>4, <1>5, <1>6, <1>8, LeversUntouched DEF IInv

LEMMA OtherTripStep == ASSUME IInv, OnNew \/ OnLoadTrip PROVE IInv'
<1>1. /\ generated' = NoPlan /\ toast' = Undefined /\ dialog' = Undefined /\ levers' = NoLevers
      /\ removed' = {} /\ UNCHANGED <<stored, building, rebuilding, nextStop>>
    BY DEF OnNew, OnLoadTrip, Unmount, around
<1>2. PICK trip : Remount(trip) /\ Sound(trip, nextStop)
    <2>1. CASE OnNew
        BY <2>1, DefaultIsSound DEF OnNew
    <2>2. CASE OnLoadTrip
        <3>1. PICK file \in Files : ParseTripForm(file) # Undefined /\ Remount(ParseTripForm(file))
            BY <2>2 DEF OnLoadTrip
        <3>2. PICK trip : trip = ParseTripForm(file)
            OBVIOUS
        <3>3. nextStop \in Nat \ {0}
            BY DEF IInv, SoundTrips
        <3> QED BY <3>1, <3>2, <3>3, FilesAreSound
    <2> QED BY <2>1, <2>2
<1>3. Sound(form', nextStop) /\ DraftFollows' /\ StepsInOrder'
    BY <1>2, Remounted DEF IInv, WizardInv
<1>4. ~generated'.made
    BY <1>1 DEF NoPlan
<1>5. SoundTrips'
    BY <1>1, <1>3, <1>4 DEF IInv, SoundTrips
<1>6. RemovedIsOut'
    BY <1>1, <1>4 DEF IInv, RemovedIsOut
<1>7. UndoIsNear'
    BY <1>1 DEF UndoIsNear
<1> QED BY <1>1, <1>3, <1>5, <1>6, <1>7, NoLeversOfAPlan DEF IInv

--------------------------------------------------------------------------
(* The theorems.                                                           *)

LEMMA InitInv == Init => IInv
<1> SUFFICES ASSUME Init PROVE IInv
    OBVIOUS
<1>1. /\ stored \in Drafts /\ building = Undefined /\ form = Initial(Undefined) /\ activeStep = 1
      /\ draft = NoDraft /\ picker = Undefined /\ changed = FALSE
      /\ generated = NoPlan /\ rebuilding = Undefined /\ toast = Undefined /\ dialog = Undefined
      /\ levers = NoLevers /\ nextStop = 1
    BY DEF Init, WizardInit, Mounted
<1>2. stored # Undefined => Saved(stored, 1)
    <2>1. stored # Undefined => IsReadable(stored) /\ StopsOf(stored) \cap (Places \cup Names) = {}
        BY <1>1, PagesAssumption
    <2> QED BY <2>1, ToComeAreNames DEF Saved
<1>3. PICK f : f = Initial(Undefined)
    OBVIOUS
<1>4. Sound(f, 1)
    <2>1. PICK handed : handed = Undefined
        OBVIOUS
    <2> QED BY <1>2, <1>3, <2>1, InitialIsSound
<1>5. SoundTrips
    BY <1>1, <1>2, <1>3, <1>4 DEF SoundTrips, NoPlan
<1>6. DraftFollows
    BY <1>1 DEF DraftFollows, NoDraft
<1>7. StepsInOrder
    BY <1>1 DEF StepsInOrder, NothingLeft
<1>8. RemovedIsOut
    BY <1>1 DEF RemovedIsOut, NoPlan
<1>9. LeversAreOfAPlan
    BY <1>1 DEF LeversAreOfAPlan, NoLevers
<1>10. UndoIsNear
    BY <1>1 DEF UndoIsNear
<1> QED BY <1>5, <1>6, <1>7, <1>8, <1>9, <1>10 DEF IInv

LEMMA NextInv == IInv /\ [Next]_vars => IInv'
<1> SUFFICES ASSUME IInv, [Next]_vars PROVE IInv'
    OBVIOUS
<1>1. CASE WizardShown /\ WizardNext /\ UNCHANGED planVars
    BY <1>1, WizardSteps
<1>2. CASE WizardBuilt \/ WizardFailed \/ Rebuilt \/ RebuildFailed \/ CancelRebuild
    BY <1>2, WizardBuiltStep, RebuiltStep, FailedStep
<1>3. CASE OnMove \/ OnRemove \/ Undo \/ ToastEnds
    BY <1>3, MoveStep, RemoveStep, UndoStep, PanelStep
<1>4. CASE ComputeLevers \/ LeversSettle \/ OnApply
    BY <1>4, PanelStep, ApplyStep
<1>5. CASE \/ OpenDialog \/ RunSearch \/ SearchEnds \/ PlaceFound \/ TapMap \/ TypeName \/ CloseDialog
           \/ OnAdd
    BY <1>5, DialogStep, AddStep
<1>6. CASE OnEdit \/ BackButton \/ CancelEdit \/ AskNew \/ StayHere \/ OnNew \/ OnLoadTrip
    BY <1>6, ToWizardStep, CancelEditStep, PanelStep, OtherTripStep
<1>7. CASE UNCHANGED vars
    <2>1. UNCHANGED <<wizardVars, generated, editing, rebuilding, toast, dialog, levers, nextStop, removed, shadow>>
        BY <1>7 DEF vars, planVars
    <2>2. dialog' # Undefined => generated.made /\ toast' = Undefined /\ nextStop <= Len(StopIds)
        BY <2>1 DEF IInv, UndoIsNear
    <2> QED BY <2>1, <2>2, LeversUntouched, TripsUntouched
<1> QED BY <1>1, <1>2, <1>3, <1>4, <1>5, <1>6, <1>7 DEF Next

LEMMA AlwaysInv == Spec => []IInv
<1>1. Init => IInv
    BY InitInv
<1>2. IInv /\ [Next]_vars => IInv'
    BY NextInv
<1> QED BY <1>1, <1>2, PTL DEF Spec

\* No change of the form escapes the draft, whichever step, calendar,
\* position or file it came from, and no later timer brings back an older one.
THEOREM DraftIsKept == Spec => []DraftIsTheForm
<1>1. IInv => DraftIsTheForm
    BY DEF IInv, DraftFollows, DraftIsTheForm
<1> QED BY <1>1, AlwaysInv, PTL

\* No step that was left forward hides a field that is at fault by itself,
\* nor one at fault with another, but for what a late position brings to the
\* first step and what "next" did not ask about.
THEOREM NoFaultIsLeftBehind == Spec => []FaultsLieAhead
<1>1. IInv => FaultsLieAhead
    BY DEF IInv, StepsInOrder, NothingLeft, FaultsLieAhead, Faults
<1> QED BY <1>1, AlwaysInv, PTL

\* What was taken out of the plan stays away unless it is pinned, and the
\* undo takes back that removal and nothing else.
THEOREM RemovalsAreKept == Spec => []RemovalsHold
<1>1. ASSUME IInv PROVE RemovedStaysAway
    BY <1>1 DEF IInv, RemovedIsOut, RemovedStaysAway, Out, Candidates
<1>2. ASSUME IInv PROVE UndoTakesBackTheRemoval
    <2> SUFFICES ASSUME toast # Undefined, ~shadow
                 PROVE  (IF rebuilding # Undefined THEN rebuilding.input ELSE generated.input)
                            \in OneStopLess(toast)
        BY DEF UndoTakesBackTheRemoval, OneStopLess
    <2> QED BY <1>2 DEF IInv, UndoIsNear
<1>3. IInv => RemovalsHold
    BY <1>1, <1>2 DEF RemovalsHold
<1> QED BY <1>3, AlwaysInv, PTL
=============================================================================
