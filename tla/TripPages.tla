----------------------------- MODULE TripPages -----------------------------
(***************************************************************************)
(* The wizard and the page of the plan beside it: what the user changes on *)
(* the plan (web/src/features/plan/PlanPage.tsx, AddStopDialog.tsx,        *)
(* OptimizerPanel.tsx, levers.ts) changes the input, of which the server   *)
(* makes another plan (App.tsx). Of the server there is what it may choose *)
(* from; how it chooses is in GeneratePlan. What becomes of the requests   *)
(* themselves is in PlanShell; here it matters which input each of them    *)
(* carries.                                                               *)
(***************************************************************************)
EXTENDS TripWizard

CONSTANTS
    StopIds,            \* sequence of the names custom stops get, one after the other
    MaxActs             \* bound on what the user does on the page of a plan

\* A stop gets the time of its making for a name: no two have the same one,
\* it is the id of no place, and no trip from elsewhere has a stop of it.
Names == {StopIds[i] : i \in DOMAIN StopIds}
StopsOf(value) == IF "customStops" \in DOMAIN value THEN value.customStops ELSE {}

ASSUME PagesAssumption ==
    /\ MaxActs \in Nat
    /\ StopIds \in Seq(Names) /\ Names \cap Places = {}
    /\ \A i, j \in DOMAIN StopIds : StopIds[i] = StopIds[j] => i = j
    /\ \A value \in (Files \cup Drafts) \ {Undefined} :
          IsReadable(value) /\ StopsOf(value) \cap (Places \cup Names) = {}

VARIABLES
    generated,          \* [made, input, day: of each place of the plan]
    editing,            \* the wizard was opened from the plan, which waits
    rebuilding,         \* [input, keeps] of the latest rebuild under way
    toast,              \* [input, removed]: what the undo of the toast would rebuild
    dialog,             \* the dialog for a stop of one's own, Undefined when closed
    asking,             \* "shall a new trip begin?"
    levers,             \* [state, of, patches] of the optimizer panel
    acts, nextStop,
    \* history
    removed,            \* what the user took out of the plan and did not take back
    shadow              \* the plan is one of a wizard that was no longer waited for

around == <<reference, stored, refuses, today, habit, edits, shifts>>
planVars == <<generated, editing, rebuilding, toast, dialog, asking, levers, acts, nextStop, removed, shadow>>
vars == <<wizardVars, planVars>>

NoPlan == [made |-> FALSE, input |-> Undefined, day |-> <<>>]
WizardShown == ~generated.made \/ editing
PlanShown   == ~WizardShown

NoLevers == [state |-> "idle", of |-> Undefined, patches |-> {}]

\* What of PlanPage goes with it when another page takes its place.
Unmount == toast' = Undefined /\ dialog' = Undefined /\ asking' = FALSE /\ levers' = NoLevers

Init ==
    /\ WizardInit
    /\ generated = NoPlan /\ editing = FALSE /\ rebuilding = Undefined
    /\ toast = Undefined /\ dialog = Undefined /\ asking = FALSE /\ levers = NoLevers
    /\ acts = 0 /\ nextStop = 1 /\ removed = {} /\ shadow = FALSE

--------------------------------------------------------------------------
(* The server.                                                             *)

\* A plan is made of the places that are not to be left out, the stops of
\* one's own, and the places that are pinned, whether they are to be left out
\* or not; what does not fit is missing, at most one place here. A place goes
\* to the day it was moved to if the trip has it.
Open(input) == (Places \ input.excludedPoiIds) \cup input.customStops
Candidates(input) == Open(input) \cup (Places \cap input.pinnedPoiIds)
Plans(input) ==
    LET DayOf(p) == IF p \in DOMAIN input.dayAssignments /\ input.dayAssignments[p] <= input.days
                    THEN input.dayAssignments[p] ELSE 1
    IN  {[made |-> TRUE, input |-> input, day |-> [p \in chosen |-> DayOf(p)]] :
            chosen \in {Candidates(input)} \cup {Candidates(input) \ {p} : p \in Candidates(input)}}

Planned(g) == DOMAIN g.day

\* The savings the server finds: another style, one day less, or without one
\* place of the plan; the patch of the last one carries everything that is
\* to be left out.
NoChange == [style |-> Undefined, days |-> 0, excludedPoiIds |-> Undefined]
Patches(g) ==
    UNION {{[NoChange EXCEPT !.style = s] : s \in Styles},
           IF g.input.days > 1 THEN {[NoChange EXCEPT !.days = g.input.days - 1]} ELSE {},
           {[NoChange EXCEPT !.excludedPoiIds = g.input.excludedPoiIds \cup {p}] :
                p \in Planned(g) \cap Places}}

ApplyLever(input, patch) ==
    [input EXCEPT !.style = IF patch.style # Undefined THEN patch.style ELSE @,
                  !.days = IF patch.days # 0 THEN patch.days ELSE @,
                  !.excludedPoiIds = IF patch.excludedPoiIds # Undefined THEN patch.excludedPoiIds ELSE @]

--------------------------------------------------------------------------
(* App: a plan is accepted from the wizard or from a rebuild.              *)

\* Any click outside the toast closes it, and with it goes the undo.
\* Mutant: the toast stays when something else is clicked.
ToastStays == UNCHANGED toast
ClickAway == toast' = Undefined

Accept(plan) == generated' = plan /\ editing' = FALSE

\* The submission goes on although its wizard may be gone.
WizardBuilt ==
    /\ building # Undefined /\ building' = Undefined
    /\ \E plan \in Plans(building) : Accept(plan)
    /\ removed' = {} /\ shadow' = PlanShown /\ Remount(building)
    /\ UNCHANGED <<around, rebuilding, toast, dialog, asking, levers, acts, nextStop>>

WizardFailed ==
    /\ building # Undefined /\ building' = Undefined
    /\ UNCHANGED <<onScreen, around, planVars>>

\* rebuildWith; only the latest one will be heard.
RebuildWith(input, keeps) == rebuilding' = [input |-> input, keeps |-> keeps]

Rebuilt ==
    /\ rebuilding # Undefined /\ rebuilding' = Undefined
    /\ \E plan \in Plans(rebuilding.input) : Accept(plan)
    /\ removed' = rebuilding.keeps /\ shadow' = FALSE /\ Remount(rebuilding.input)
    /\ UNCHANGED <<around, building, toast, dialog, asking, levers, acts, nextStop>>

RebuildFailed ==
    /\ rebuilding # Undefined /\ rebuilding' = Undefined
    /\ UNCHANGED <<wizardVars, generated, editing, toast, dialog, asking, levers, acts, nextStop, removed, shadow>>

\* The button on the backdrop: the answer will be ignored.
CancelRebuild ==
    /\ rebuilding # Undefined /\ rebuilding' = Undefined /\ ClickAway
    /\ UNCHANGED <<wizardVars, generated, editing, dialog, asking, levers, acts, nextStop, removed, shadow>>

--------------------------------------------------------------------------
(* PlanPage. The backdrop of a rebuild lies over the page, but it only     *)
(* catches the pointer: the toast is above it, the keyboard goes below.    *)

OnPage == PlanShown /\ dialog = Undefined /\ ~asking
Act == acts < MaxActs /\ acts' = acts + 1 /\ "plan" \in habit

Assign(days, p, day) == [q \in DOMAIN days \cup {p} |-> IF q = p THEN day ELSE days[q]]

OnMove ==
    /\ OnPage /\ Act /\ ClickAway
    /\ \E p \in Planned(generated) :
           LET day == generated.day[p]
           IN  \E target \in {day - 1, day + 1} \cap 1 .. generated.input.days :
                   RebuildWith([generated.input EXCEPT !.dayAssignments = Assign(@, p, target)], removed)
    /\ UNCHANGED <<wizardVars, generated, editing, dialog, asking, levers, nextStop, removed, shadow>>

Without(input, p) ==
    IF p \in input.customStops THEN [input EXCEPT !.customStops = @ \ {p}]
    ELSE [input EXCEPT !.excludedPoiIds = @ \cup {p}]

OnRemove ==
    /\ OnPage /\ Act
    /\ \E p \in Planned(generated) : RebuildWith(Without(generated.input, p), removed \cup {p})
    /\ toast' = [input |-> generated.input, removed |-> removed] /\ shadow' = FALSE
    /\ UNCHANGED <<wizardVars, generated, editing, dialog, asking, levers, nextStop, removed>>

\* The undo, which is within reach while the rebuild is under way too.
Undo ==
    /\ PlanShown /\ toast # Undefined /\ acts < MaxActs /\ acts' = acts + 1
    /\ RebuildWith(toast.input, toast.removed)
    /\ toast' = Undefined
    /\ UNCHANGED <<wizardVars, generated, editing, dialog, asking, levers, nextStop, removed, shadow>>

ToastEnds ==
    /\ toast # Undefined /\ toast' = Undefined
    /\ UNCHANGED <<wizardVars, generated, editing, rebuilding, dialog, asking, levers, acts, nextStop, removed, shadow>>

--------------------------------------------------------------------------
(* OptimizerPanel: the answer stays on the panel when the input changes.   *)

ComputeLevers ==
    /\ OnPage /\ Act /\ ClickAway /\ levers.state # "pending"
    /\ levers' = [state |-> "pending", of |-> generated, patches |-> {}]
    /\ UNCHANGED <<wizardVars, generated, editing, rebuilding, dialog, asking, nextStop, removed, shadow>>

LeversSettle ==
    /\ levers.state = "pending"
    /\ \E found \in {Patches(levers.of), {}} :
           levers' = IF found = {} THEN NoLevers ELSE [levers EXCEPT !.state = "data", !.patches = found]
    /\ UNCHANGED <<wizardVars, generated, editing, rebuilding, toast, dialog, asking, acts, nextStop, removed, shadow>>

OnApply ==
    /\ OnPage /\ Act /\ ClickAway
    /\ \E patch \in levers.patches :
           \* a saving computed for another input leaves out what that one left out
           LET stale == levers.of.input # generated.input
           IN  RebuildWith(ApplyLever(generated.input, patch),
                           IF stale /\ patch.excludedPoiIds # Undefined
                           THEN removed \cap patch.excludedPoiIds ELSE removed)
    /\ UNCHANGED <<wizardVars, generated, editing, dialog, asking, levers, nextStop, removed, shadow>>

--------------------------------------------------------------------------
(* AddStopDialog: a point, from the search or from the map, and a name.    *)

OpenDialog ==
    /\ OnPage /\ Act /\ ClickAway /\ "stops" \in habit /\ nextStop <= Len(StopIds)
    /\ dialog' = [picked |-> FALSE, named |-> FALSE, search |-> "idle"]
    /\ UNCHANGED <<wizardVars, generated, editing, rebuilding, asking, levers, nextStop, removed, shadow>>

InDialog(next) ==
    /\ dialog # Undefined /\ dialog' = next
    /\ UNCHANGED <<wizardVars, generated, editing, rebuilding, toast, asking, levers, acts, nextStop, removed, shadow>>

RunSearch    == dialog # Undefined /\ dialog.search # "pending" /\ InDialog([dialog EXCEPT !.search = "pending"])
SearchEnds   == /\ dialog # Undefined /\ dialog.search = "pending"
                /\ \E result \in {"found", "nothing"} : InDialog([dialog EXCEPT !.search = result])
PlaceFound   == /\ dialog # Undefined /\ dialog.search = "found"
                /\ InDialog([dialog EXCEPT !.picked = TRUE, !.named = TRUE])
TapMap       == dialog # Undefined /\ InDialog([dialog EXCEPT !.picked = TRUE])
TypeName     == dialog # Undefined /\ \E named \in BOOLEAN : InDialog([dialog EXCEPT !.named = named])
CloseDialog  == InDialog(Undefined)

OnAdd ==
    /\ dialog # Undefined /\ dialog.picked /\ dialog.named
    /\ dialog' = Undefined /\ nextStop' = nextStop + 1
    /\ RebuildWith([generated.input EXCEPT !.customStops = @ \cup {StopIds[nextStop]}], removed)
    /\ UNCHANGED <<wizardVars, generated, editing, toast, asking, levers, acts, removed, shadow>>

--------------------------------------------------------------------------
(* Between the pages.                                                      *)

\* "Edit the input", or the browser's back button, which no backdrop stops.
ToWizard ==
    /\ editing' = TRUE /\ Remount(generated.input) /\ Unmount
    /\ UNCHANGED <<around, building, generated, rebuilding, nextStop, removed, shadow>>

OnEdit     == OnPage /\ Act /\ ToWizard
BackButton == PlanShown /\ Act /\ ToWizard

\* "Back to the plan, without a change".
CancelEdit ==
    /\ generated.made /\ editing /\ picker = Undefined
    /\ Act /\ editing' = FALSE /\ Remount(generated.input)
    /\ UNCHANGED <<around, building, generated, rebuilding, toast, dialog, asking, levers, nextStop, removed,
                   shadow>>

AskNew ==
    /\ OnPage /\ Act /\ ClickAway /\ asking' = TRUE
    /\ UNCHANGED <<wizardVars, generated, editing, rebuilding, dialog, levers, nextStop, removed, shadow>>

StayHere ==
    /\ asking /\ asking' = FALSE
    /\ UNCHANGED <<wizardVars, generated, editing, rebuilding, toast, dialog, levers, acts, nextStop, removed, shadow>>

\* A new trip begins with the defaults.
OnNew ==
    /\ asking /\ generated' = NoPlan /\ editing' = FALSE
    /\ Remount(DefaultTrip(today)) /\ Unmount /\ removed' = {} /\ shadow' = FALSE
    /\ UNCHANGED <<around, building, rebuilding, acts, nextStop>>

\* A trip saved in the account takes the place of plan and form.
OnLoadTrip ==
    /\ dialog = Undefined /\ ~asking /\ picker = Undefined
    /\ Act
    /\ \E trip \in {ParseTripForm(file) : file \in Files} \ {Undefined} : Remount(trip)
    /\ generated' = NoPlan /\ Unmount /\ removed' = {} /\ shadow' = FALSE
    /\ UNCHANGED <<around, building, editing, rebuilding, nextStop>>

Next ==
    \/ WizardShown /\ WizardNext /\ UNCHANGED planVars
    \/ WizardBuilt \/ WizardFailed \/ Rebuilt \/ RebuildFailed \/ CancelRebuild
    \/ OnMove \/ OnRemove \/ Undo \/ ToastEnds
    \/ ComputeLevers \/ LeversSettle \/ OnApply
    \/ OpenDialog \/ RunSearch \/ SearchEnds \/ PlaceFound \/ TapMap \/ TypeName \/ CloseDialog \/ OnAdd
    \/ OnEdit \/ BackButton \/ CancelEdit \/ AskNew \/ StayHere \/ OnNew \/ OnLoadTrip

Spec == Init /\ [][Next]_vars

--------------------------------------------------------------------------
(* Properties.                                                             *)

\* "Remove" means "I do not want this", and it is "not suggested any more"
\* (PoiStep.tsx:31-33). A place or a stop that was taken out of the plan is
\* in no later plan, through moves, additions, further removals, savings and
\* failed, superseded or abandoned rebuilds, until the removal is undone, the
\* wizard hands over an input of its own, another trip begins, or a saving is
\* applied that was computed before the removal. A pinned place is the
\* exception: its removal leaves the pin (PlanPage.tsx:195), which the server
\* puts above the exclusion (GeneratePlanHandler.cs:243), and it comes back.
RemovedStaysAway ==
    generated.made => Planned(generated) \cap removed \subseteq generated.input.pinnedPoiIds

\* "A removal must be reversible" (PlanPage.tsx:114). The undo restores a
\* whole input; it takes back the removal and nothing else, because while it
\* can be clicked the trip of the page is that input without one stop, or
\* that input itself when the rebuild failed.
UndoTakesBackTheRemoval ==
    toast # Undefined /\ ~shadow =>
        LET current == IF rebuilding # Undefined THEN rebuilding.input ELSE generated.input
        IN  current \in {toast.input} \cup {Without(toast.input, p) : p \in Places \cup toast.input.customStops}

RemovalsHold == RemovedStaysAway /\ UndoTakesBackTheRemoval
=============================================================================
