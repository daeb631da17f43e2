----------------------------- MODULE TripWizard -----------------------------
(***************************************************************************)
(* The wizard (web/src/features/wizard/WizardPage.tsx): a form in five     *)
(* steps, a draft of it that is stored some time after the last change, a  *)
(* date field with a calendar of its own, the position of the device that  *)
(* may come at any later moment, a file that replaces the form, and the    *)
(* submission. The steps are in TripForm, the calendar in Calendar; where  *)
(* the wizard stands among the pages is in TripPages.                      *)
(***************************************************************************)
EXTENDS TripForm, Calendar

CONSTANTS
    Days,               \* sequence of dates, one of which today may be
    Files,              \* what a file may hold, Undefined: nothing readable
    Drafts,             \* what earlier sittings may have stored
    Picks,              \* bound on the days of the month that are picked
    MaxEdits,           \* bound on the changes of the form
    MaxChoices,         \* bound on those of them that choose a day or a place
    MaxShifts,          \* bound on the months the calendar is turned
    Habits              \* bound on one user: sets of what is touched

ASSUME WizardAssumption == MaxEdits \in Nat /\ MaxChoices \in Nat /\ MaxShifts \in Nat

VARIABLES
    form, activeStep,
    draft,              \* [due, values]: whether the timer runs, and what it will store
    locating,           \* the position of the device is awaited
    picker,             \* the calendar: the month it shows, Undefined when closed
    reference,          \* the query of the reference data
    building,           \* the values of a submission under way, Undefined without one
    stored,             \* localStorage, leadertrip.trip.v2
    refuses,            \* the storage is full or forbidden
    today, habit, edits, shifts,
    \* history
    changed,            \* the form was changed since it was mounted
    late,               \* the position came after the first step was left
    unasked             \* steps that were left forward without the refinements

onScreen == <<form, activeStep, draft, locating, picker, changed, late, unasked>>
wizardVars == <<onScreen, reference, building, stored, refuses, today, habit, edits, shifts>>

NoDraft == [due |-> FALSE, values |-> Undefined]

\* useForm's values: those handed over, else the stored draft, else the defaults.
Initial(handed) ==
    IF handed # Undefined THEN handed
    ELSE LET saved == ParseTripForm(stored)
         IN  IF saved # Undefined THEN saved ELSE DefaultTrip(today)

Mounted(f) ==
    /\ form = f /\ activeStep = 1 /\ draft = NoDraft /\ locating = FALSE
    /\ picker = Undefined /\ changed = FALSE /\ late = FALSE /\ unasked = {}

WizardInit ==
    /\ today \in {Days[i] : i \in DOMAIN Days}
    /\ habit \in Habits
    /\ "calendar" \notin habit => today = Days[1]
    /\ refuses \in BOOLEAN
    /\ stored \in Drafts
    /\ reference = "pending" /\ building = Undefined
    /\ Mounted(Initial(Undefined)) /\ edits = 0 /\ shifts = 0

\* A wizard goes and another one, with another key, takes its place: the
\* timer is cleared, and a position that comes later finds nobody.
Remount(handed) ==
    /\ form' = Initial(handed) /\ activeStep' = 1 /\ draft' = NoDraft /\ locating' = FALSE
    /\ picker' = Undefined /\ changed' = FALSE /\ late' = FALSE /\ unasked' = {}

--------------------------------------------------------------------------
(* Changes of the form.                                                    *)

\* form.watch: every change starts the timer anew, with the values of now.
\* Mutant: a timer that runs already is left to run.
WatchOnce(values) == draft' = IF draft.due THEN draft ELSE [due |-> TRUE, values |-> values]
Watch(values) == draft' = [due |-> TRUE, values |-> values]

Change(f) == form' = f /\ changed' = TRUE /\ Watch(f)

Ready == reference = "ready" /\ picker = Undefined

Edit(changes) ==
    /\ Ready /\ edits < MaxEdits
    /\ \E f \in changes : Change(f)
    /\ edits' = edits + 1
    /\ UNCHANGED <<activeStep, locating, picker, reference, building, stored, refuses, today, habit,
                   late, unasked, shifts>>

EditOrigin    == activeStep = 1 /\ "origin" \in habit /\ Edit(OriginChanges(form))
EditTravelers == activeStep = 2 /\ "car" \in habit /\ Edit(TravelerChanges(form))
EditVehicle   == activeStep = 3 /\ "car" \in habit /\ Edit(VehicleChanges(form))
EditStyle     == activeStep = 4 /\ "style" \in habit /\ Edit(StyleChanges(form))
EditPlaces    == activeStep = 5 /\ "places" \in habit /\ edits < MaxChoices /\ Edit(PlaceChanges(form))

\* The timer runs out. A storage that refuses loses the draft, not the page.
StoreDraft ==
    /\ draft.due /\ draft' = NoDraft
    /\ stored' = IF refuses THEN stored ELSE draft.values
    /\ UNCHANGED <<form, activeStep, locating, picker, reference, building, refuses, today, habit,
                   changed, late, unasked, edits, shifts>>

\* OriginStep.locateMe, and the answer of the device: the nearest city is set
\* wherever the user has gone meanwhile.
LocateMe ==
    /\ Ready /\ activeStep = 1 /\ "origin" \in habit /\ ~locating /\ edits < MaxEdits
    /\ locating' = TRUE /\ edits' = edits + 1
    /\ UNCHANGED <<form, activeStep, draft, picker, reference, building, stored, refuses, today, habit,
                   changed, late, unasked, shifts>>

PositionFound ==
    /\ locating /\ locating' = FALSE
    /\ \E city \in Cities : Change([form EXCEPT !.originCityId = city])
    /\ late' = (late \/ activeStep # 1)
    /\ UNCHANGED <<activeStep, picker, reference, building, stored, refuses, today, habit, unasked, edits, shifts>>

PositionRefused ==
    /\ locating /\ locating' = FALSE
    /\ UNCHANGED <<form, activeStep, draft, picker, reference, building, stored, refuses, today, habit,
                   changed, late, unasked, edits, shifts>>

--------------------------------------------------------------------------
(* JalaliDateField: the calendar opens on the month of the value.          *)

OpenCalendar ==
    /\ Ready /\ activeStep = 1 /\ "calendar" \in habit
    /\ LET selected == ToJalali(form.startDate) IN picker' = [jy |-> selected.jy, jm |-> selected.jm]
    /\ UNCHANGED <<form, activeStep, draft, locating, reference, building, stored, refuses, today, habit,
                   changed, late, unasked, edits, shifts>>

TurnMonth ==
    /\ picker # Undefined /\ shifts < MaxShifts /\ shifts' = shifts + 1
    /\ \E delta \in {-1, 1} : picker' = Shift(picker, delta)
    /\ UNCHANGED <<form, activeStep, draft, locating, reference, building, stored, refuses, today, habit,
                   changed, late, unasked, edits>>

\* A cell of the month, or the button "today".
PickDay ==
    /\ picker # Undefined /\ edits < MaxChoices /\ edits' = edits + 1 /\ picker' = Undefined
    /\ \E picked \in {[jy |-> picker.jy, jm |-> picker.jm, jd |-> jd] :
                             jd \in Picks \cap DOMAIN Cells(picker.jy, picker.jm)}
                       \cup {ToJalali(today)} :
           Change([form EXCEPT !.startDate = ToGregorian(picked.jy, picked.jm, picked.jd)])
    /\ UNCHANGED <<activeStep, locating, reference, building, stored, refuses, today, habit, late, unasked, shifts>>

CloseCalendar ==
    /\ picker # Undefined /\ picker' = Undefined
    /\ UNCHANGED <<form, activeStep, draft, locating, reference, building, stored, refuses, today, habit,
                   changed, late, unasked, edits, shifts>>

--------------------------------------------------------------------------
(* The steps.                                                              *)

GoTo(step) ==
    /\ Ready /\ activeStep' = step
    /\ UNCHANGED <<form, draft, locating, picker, reference, building, stored, refuses, today, habit,
                   changed, late, edits, shifts>>

\* form.trigger: the schema is asked about the whole form, and answers for
\* the fields of the step.
TriggerStep(step) == Faults(form) \cap STEPS[step] = {}

NextStep ==
    /\ activeStep < Len(STEPS) /\ TriggerStep(activeStep) /\ GoTo(activeStep + 1)
    /\ unasked' = IF HasFraction(form) THEN unasked \cup {activeStep} ELSE unasked \ {activeStep}

Previous  == activeStep > 1 /\ GoTo(activeStep - 1) /\ UNCHANGED unasked
StepLabel == \E step \in 1 .. activeStep - 1 : GoTo(step) /\ UNCHANGED unasked

\* form.handleSubmit: nothing happens with a fault anywhere. The draft is
\* stored first, and here a storage that refuses ends the submission.
Submit ==
    /\ Ready /\ building = Undefined /\ Faults(form) = {}
    /\ ~refuses
    /\ stored' = form /\ building' = form
    /\ UNCHANGED <<onScreen, reference, refuses, today, habit, edits, shifts>>

SubmitLast == activeStep = Len(STEPS) /\ Submit
QuickBuild == activeStep = 1 /\ TriggerStep(1) /\ Submit

\* A trip from a file: form.reset, which the draft follows as well.
ImportFile ==
    /\ Ready /\ "file" \in habit /\ edits < MaxEdits /\ edits' = edits + 1
    /\ \E file \in Files :
           LET imported == ParseTripForm(file)
           IN  IF imported = Undefined THEN UNCHANGED <<form, activeStep, draft, changed>>
               ELSE Change(imported) /\ activeStep' = 1
    /\ UNCHANGED <<locating, picker, reference, building, stored, refuses, today, habit, late, unasked, shifts>>

--------------------------------------------------------------------------
(* The reference data, without which there is only a skeleton or an error. *)

ReferenceSettles ==
    /\ reference = "pending" /\ reference' \in {"ready", "error"}
    /\ UNCHANGED <<onScreen, building, stored, refuses, today, habit, edits, shifts>>

RetryReference ==
    /\ reference = "error" /\ reference' = "pending"
    /\ UNCHANGED <<onScreen, building, stored, refuses, today, habit, edits, shifts>>

WizardNext ==
    \/ EditOrigin \/ EditTravelers \/ EditVehicle \/ EditStyle \/ EditPlaces
    \/ StoreDraft \/ LocateMe \/ PositionFound \/ PositionRefused
    \/ OpenCalendar \/ TurnMonth \/ PickDay \/ CloseCalendar
    \/ NextStep \/ Previous \/ StepLabel \/ SubmitLast \/ QuickBuild \/ ImportFile
    \/ ReferenceSettles \/ RetryReference

--------------------------------------------------------------------------
(* Properties.                                                             *)

\* "Automatic draft: closing the tab in the middle of step four must not
\* mean starting over" (WizardPage.tsx:228-229). With no timer running and a
\* storage that takes it, what is stored is the form on the screen: no
\* change of any step, of the calendar, of the position or of a file escapes
\* the timer, and none is overwritten by the values of an earlier one.
DraftIsTheForm ==
    changed /\ ~draft.due /\ ~refuses => stored = form

\* "The user goes to the end and only then learns that step one was
\* incomplete" is what the partial validation of "next" is for
\* (WizardPage.tsx:45-48). No field that is at fault by itself belongs to a
\* step that was left forward, whose component alone could show the fault.
\* And no fault of two fields together does, with two exceptions: "next" was
\* pressed while a number that is not whole stood on a later step, for then
\* the schema does not ask about them, or a position came after the first
\* step was left.
ShownBy == <<{"originCityId", "destinationCityId", "days", "radiusKm", "budgetToman"},
             {"travelers"},
             {"vehicleCount", "subsidizedFuelShare", "maxDrivingHoursPerDay", "dayStartHour", "dayEndHour"},
             {"firstDayStartHour"}, {}>>
FaultsLieAhead ==
    \A step \in 1 .. activeStep - 1 :
        /\ FieldFaults(form) \cap ShownBy[step] = {}
        /\ Faults(form) \cap ShownBy[step] # {} => step \in unasked \/ (late /\ step = 1)

\* JalaliDateField.tsx:25-35, the calendar on the wall: the cells are the days
\* of the month, each on its column of the week that begins on Saturday, each
\* stored as the Gregorian day that reads back as the cell; the month before
\* ends on the day before and the next one begins on the day after. And the
\* date of the form is a day of the calendar.
MonthIsWhole ==
    /\ picker # Undefined =>
           LET cells == Cells(picker.jy, picker.jm)
               Day(jd) == ToGregorian(picker.jy, picker.jm, jd)
               before == Shift(picker, -1)
               after  == Shift(picker, 1)
           IN  /\ \A jd \in DOMAIN cells :
                      /\ ToJalali(Day(jd)) = [jy |-> picker.jy, jm |-> picker.jm, jd |-> jd]
                      /\ DayNumber(Day(jd)) = DayNumber(Day(1)) + jd - 1
                      /\ cells[jd] = (Weekday(Day(jd)) + 1) % 7
               /\ DayNumber(ToGregorian(after.jy, after.jm, 1)) = DayNumber(Day(Len(cells))) + 1
               /\ DayNumber(ToGregorian(before.jy, before.jm, JalaliMonthLength(before.jy, before.jm)))
                      = DayNumber(Day(1)) - 1
    /\ LET j == ToJalali(form.startDate) IN ToGregorian(j.jy, j.jm, j.jd) = form.startDate
=============================================================================
