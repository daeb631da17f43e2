----------------------------- MODULE FirstPage -----------------------------
(***************************************************************************)
(* The pages of the first generation of leaderTrip and what they keep on   *)
(* the device: the trip being edited, the trips saved by name, a notebook  *)
(* of each trip, and photos beside it (src/App.tsx, src/ui, src/lib). One  *)
(* tab is open; it can be closed, reloaded or left at any moment, a write  *)
(* to the storage can fail, and a photo takes its time, after which the    *)
(* handler that started it goes on with the notebook it saw then.          *)
(***************************************************************************)
EXTENDS FirstTrip

CONSTANTS
    Foreign,            \* trips of others that arrive as a link or a file
    Amounts,            \* of an expense
    MaxActs,            \* bound on what the user does
    Habits,             \* bound on what one user does: sets of areas of the page
    MaxIds, MaxDay, MaxFlights  \* on new ids without an act, days, photos on their way

\* The unit is so small that every share of an expense is a whole number of it.
ASSUME PageAssumption ==
    /\ MaxActs \in Nat /\ MaxIds \in Nat /\ MaxDay \in Nat /\ MaxFlights \in Nat
    /\ \A i \in Foreign : i.group \in Groups
    /\ \A a \in Amounts : a \in Nat /\ \A k \in 1 .. Cardinality(Travellers) : a % k = 0

VARIABLES
    \* localStorage and IndexedDB
    draft,              \* leadertrip.active.v1, or Undefined
    openFlag,           \* leadertrip.planOpen.v1
    trips,              \* leadertrip.trips.v1: [id, input] of each
    journals,           \* leadertrip.journal.<id>: [ids -> notebook]
    photos,             \* the pictures, by id
    \* the page
    input, showPlan,    \* App
    book,               \* the notebook of PlanView, Undefined without one
    flights,            \* photos on their way
    \* around it
    carried,            \* the last link or file, or Undefined
    full,               \* the storage may refuse a write
    today, nextId, acts, habit,
    unsaved             \* what a reload may lose: "draft", "flag", "book"

storage == <<draft, openFlag, trips, journals, photos>>
page    == <<input, showPlan, book, flights>>
around  == <<full, habit>>
vars    == <<storage, page, carried, today, nextId, acts, around, unsaved>>

EmptyJournal(id) == [tripId |-> id, checkIns |-> <<>>, expenses |-> {}]
LoadJournal(id) == IF id \in DOMAIN journals THEN journals[id] ELSE EmptyJournal(id)
SetCheckIn(j, p, value) == [j EXCEPT !.checkIns = Assign(@, p, value)]
ClearCheckIn(j, p) == [j EXCEPT !.checkIns = Without(@, {p})]

Shown(i, open) == open /\ HasPlan(i)
PlanShown   == Shown(input, showPlan)
WizardShown == ~PlanShown

--------------------------------------------------------------------------
(* Rendering and storing.                                                  *)

\* What React does of a change: PlanView reads the notebook when it appears,
\* and only then.
Render(i, open) ==
    /\ input' = i /\ showPlan' = open
    /\ CASE Shown(i, open) /\ WizardShown ->
              book' = LoadJournal(i.id) /\ flights' = flights
         [] ~Shown(i, open) /\ PlanShown ->
              /\ book' = Undefined
              /\ flights' = {[f EXCEPT !.old = TRUE] : f \in flights}
         [] OTHER -> UNCHANGED <<book, flights>>

\* A write to a full storage leaves what was there, and nobody is told.
Store(what, Write(_)) ==
    \E ok \in {TRUE, ~full} :
        /\ Write(ok)
        /\ unsaved' = IF ok THEN unsaved \ {what} ELSE unsaved \cup {what}

SaveDraft(i) == Store("draft", LAMBDA ok : draft' = IF ok THEN i ELSE draft)
SaveFlag(open) == Store("flag", LAMBDA ok : openFlag' = IF ok THEN open ELSE openFlag)

\* updateJournal: the screen, if its PlanView is still there, and the storage.
UpdateJournal(j, old) ==
    /\ book' = IF old THEN book ELSE j
    /\ \E ok \in {TRUE, ~full} :
           /\ journals' = IF ok THEN Assign(journals, j.tripId, j) ELSE journals
           /\ unsaved' = IF ok /\ ~old THEN unsaved \ {"book"} ELSE unsaved \cup {"book"}

Act == acts < MaxActs /\ acts' = acts + 1
Does(area) == area \in habit

Fill == ~full /\ Act /\ full' = TRUE
        /\ UNCHANGED <<storage, page, carried, today, nextId, habit, unsaved>>

--------------------------------------------------------------------------
(* App: the trip and whether its plan is open.                             *)

\* Mutant: the wizard's answer is shown and not stored.
PatchShown(i) ==
    /\ Act /\ i # input
    /\ Render(i, showPlan)
    /\ unsaved' = unsaved \ {"draft"}
    /\ UNCHANGED <<draft, openFlag, trips, journals, photos, carried, today, nextId, around>>

Patch(i) ==
    /\ Act /\ i # input
    /\ Render(i, showPlan) /\ SaveDraft(i)
    /\ UNCHANGED <<openFlag, trips, journals, photos, carried, today, nextId, around>>

SetShowPlan(open) ==
    /\ open # showPlan
    /\ Render(input, open) /\ SaveFlag(open)
    /\ UNCHANGED <<draft, trips, journals, photos, carried, today, nextId, acts, around>>

Header == SetShowPlan(FALSE)
Edit   == PlanShown /\ SetShowPlan(FALSE)
Submit == WizardShown /\ SetShowPlan(TRUE)

\* Every step of the wizard is reached from every other, by its label and
\* without a check, so each of its fields can be the one that is edited.
EditWizard == WizardShown /\ Does("wizard") /\ \E s \in 0 .. 4 : \E i \in OnStep(input, s) : Patch(i)
EditPlan   == PlanShown /\ Does("plan") /\ \E i \in OnPlan(input) : Patch(i)

AddCustomStop ==
    /\ PlanShown /\ Does("plan") /\ Act
    /\ LET i == AddStop(input, nextId) IN Render(i, showPlan) /\ SaveDraft(i)
    /\ nextId' = nextId + 1
    /\ UNCHANGED <<openFlag, trips, journals, photos, carried, today, around>>

--------------------------------------------------------------------------
(* TripsPanel: saved trips, links and files.                               *)

Save ==
    /\ PlanShown /\ Does("share") /\ Act
    /\ \E ok \in {TRUE, ~full} :
           trips' = IF ok THEN trips \cup {[id |-> nextId, input |-> [input EXCEPT !.title = "named"]]}
                    ELSE trips
    /\ nextId' = nextId + 1
    /\ UNCHANGED <<draft, openFlag, journals, photos, page, carried, today, unsaved, around>>

CopyTrip(t) ==
    /\ PlanShown /\ Does("share") /\ Act /\ t \in trips
    /\ \E ok \in {TRUE, ~full} : trips' = IF ok THEN trips \cup {[t EXCEPT !.id = nextId]} ELSE trips
    /\ nextId' = nextId + 1
    /\ UNCHANGED <<draft, openFlag, journals, photos, page, carried, today, unsaved, around>>

DeleteTrip(t) ==
    /\ PlanShown /\ Does("share") /\ Act /\ t \in trips
    /\ trips' = trips \ {t}
    /\ UNCHANGED <<draft, openFlag, journals, photos, page, carried, today, nextId, unsaved, around>>

\* onLoadTrip; a PlanView that stays keeps the notebook it has.
Load(i) ==
    /\ PlanShown /\ Does("share") /\ Act
    /\ Render(i, showPlan) /\ SaveDraft(i)
    /\ UNCHANGED <<openFlag, trips, journals, photos, carried, today, nextId, around>>

OpenTrip == \E t \in trips : Load(t.input)
Import   == /\ carried # Undefined /\ carried.kind = "file"
            /\ Load(ReadJsonFile(carried.part, today))

Carry(kind, part) ==
    /\ PlanShown /\ Does("share") /\ Act
    /\ carried' = [kind |-> kind, part |-> part]
    /\ UNCHANGED <<storage, page, today, nextId, unsaved, around>>
CopyLink     == Carry("link", EncodeTrip(input, today))
DownloadJson == Carry("file", FileOf(input))

--------------------------------------------------------------------------
(* The notebook: check-ins with a mark and a photo, and expenses.          *)

CheckIn(p) ==
    /\ PlanShown /\ Does("notes") /\ Act
    /\ p \in Visited(input) \ DOMAIN book.checkIns
    /\ UpdateJournal(SetCheckIn(book, p, [mark |-> 0, photo |-> Undefined]), FALSE)
    /\ UNCHANGED <<draft, openFlag, trips, photos, input, showPlan, flights, carried, today, nextId, around>>

\* A rating or a note.
Mark(p) ==
    /\ PlanShown /\ Does("notes") /\ Act
    /\ p \in Visited(input) \cap DOMAIN book.checkIns
    /\ UpdateJournal(SetCheckIn(book, p, [book.checkIns[p] EXCEPT !.mark = 1]), FALSE)
    /\ UNCHANGED <<draft, openFlag, trips, photos, input, showPlan, flights, carried, today, nextId, around>>

\* attach, clear and the removal of a photo wait for the database, and keep
\* the check-in and the notebook of the moment they were started.
StartFlight(p, kind) ==
    /\ PlanShown /\ Does("notes") /\ Act /\ Cardinality(flights) < MaxFlights
    /\ p \in Visited(input) \cap DOMAIN book.checkIns
    /\ kind # "attach" => book.checkIns[p].photo # Undefined
    /\ LET had == book.checkIns[p].photo
           id == IF had = Undefined THEN nextId ELSE had
       IN  /\ flights' = flights \cup {[kind |-> kind, place |-> p, photo |-> id, seen |-> book,
                                        old |-> FALSE, done |-> FALSE]}
           /\ nextId' = IF had = Undefined THEN nextId + 1 ELSE nextId
    /\ UNCHANGED <<storage, input, showPlan, book, carried, today, unsaved, around>>

\* The transaction of the database; an attachment that fails ends here.
FlightStored(f) ==
    /\ ~f.done
    /\ \E ok \in BOOLEAN :
           /\ photos' = CASE ~ok -> photos
                          [] ok /\ f.kind = "attach" -> photos \cup {f.photo}
                          [] OTHER -> photos \ {f.photo}
           /\ flights' = (flights \ {f}) \cup
                         (IF ~ok /\ f.kind = "attach" THEN {} ELSE {[f EXCEPT !.done = TRUE]})
    /\ UNCHANGED <<draft, openFlag, trips, journals, input, showPlan, book,
                   carried, today, nextId, acts, unsaved, around>>

FlightLanded(f) ==
    /\ f.done
    /\ LET was == f.seen.checkIns[f.place]
       IN  UpdateJournal(CASE f.kind = "attach" -> SetCheckIn(f.seen, f.place, [was EXCEPT !.photo = f.photo])
                           [] f.kind = "drop"   -> SetCheckIn(f.seen, f.place, [was EXCEPT !.photo = Undefined])
                           [] f.kind = "clear"  -> ClearCheckIn(f.seen, f.place), f.old)
    /\ flights' = flights \ {f}
    /\ UNCHANGED <<draft, openFlag, trips, photos, input, showPlan, carried, today, nextId, acts, around>>

\* A stop without a photo is cleared at once.
Clear(p) ==
    /\ PlanShown /\ Does("notes") /\ Act
    /\ p \in Visited(input) \cap DOMAIN book.checkIns
    /\ book.checkIns[p].photo = Undefined
    /\ UpdateJournal(ClearCheckIn(book, p), FALSE)
    /\ UNCHANGED <<draft, openFlag, trips, photos, input, showPlan, flights, carried, today, nextId, around>>

AddExpense(amount, payer, sharers, category) ==
    /\ PlanShown /\ Does("money") /\ Act
    /\ payer \in Range(input.group) /\ sharers \subseteq Range(input.group)
    /\ UpdateJournal([book EXCEPT !.expenses = @ \cup
                          {[id |-> nextId, amount |-> amount, paidBy |-> payer, sharedWith |-> sharers,
                            category |-> category, day |-> 1]}], FALSE)
    /\ nextId' = nextId + 1
    /\ UNCHANGED <<draft, openFlag, trips, photos, input, showPlan, flights, carried, today, around>>

RemoveExpense(e) ==
    /\ PlanShown /\ Does("money") /\ Act /\ e \in book.expenses
    /\ UpdateJournal([book EXCEPT !.expenses = @ \ {e}], FALSE)
    /\ UNCHANGED <<draft, openFlag, trips, photos, input, showPlan, flights, carried, today, nextId, around>>

--------------------------------------------------------------------------
(* A page begins: as it was left, or with the trip of a link.              *)

Begin(i, open, lost) ==
    /\ input' = i /\ showPlan' = open
    /\ book' = IF Shown(i, open) THEN LoadJournal(i.id) ELSE Undefined
    /\ flights' = {}
    /\ unsaved' = lost
    /\ UNCHANGED <<storage, today, acts, around>>

\* Without a draft the default is made anew, and has a new id.
Reload ==
    /\ draft = Undefined => nextId < MaxIds
    /\ \/ draft = Undefined /\ Begin(DefaultInput(nextId, today), openFlag, {"draft"})
          /\ nextId' = nextId + 1
       \/ draft # Undefined /\ Begin(draft, openFlag, {}) /\ nextId' = nextId
    /\ UNCHANGED carried

\* The link opens its trip and leaves the address bar; nothing is stored yet.
OpenLink ==
    /\ carried # Undefined /\ carried.kind = "link"
    /\ Begin(DecodeTrip(carried.part, today), TRUE, {"draft", "flag"})
    /\ UNCHANGED <<carried, nextId>>

NextDay == today < MaxDay /\ today' = today + 1
           /\ UNCHANGED <<storage, page, carried, nextId, acts, unsaved, around>>

Init ==
    /\ draft = Undefined /\ openFlag = FALSE /\ trips = {} /\ journals = <<>> /\ photos = {}
    /\ input = DefaultInput(1, 0) /\ showPlan = FALSE /\ book = Undefined /\ flights = {}
    /\ habit \in Habits /\ full = FALSE
    /\ carried \in {Undefined} \cup IF ~Does("share") THEN {} ELSE
           {[kind |-> "link", part |-> EncodeTrip(i, 0)] : i \in Foreign} \cup
           {[kind |-> "file", part |-> FileOf(i)] : i \in Foreign}
    /\ today = 0 /\ nextId = 2 /\ acts = 0
    /\ unsaved = {"draft"}

Road ==
    \/ \E p \in Sights : CheckIn(p) \/ Mark(p) \/ Clear(p)
    \/ \E p \in Sights, kind \in {"attach", "drop", "clear"} : StartFlight(p, kind)
    \/ \E f \in flights : FlightStored(f) \/ FlightLanded(f)
    \/ PlanShown /\ \E a \in Amounts, t \in Range(input.group), c \in Categories,
                       S \in SUBSET Range(input.group) : AddExpense(a, t, S, c)
    \/ PlanShown /\ \E e \in book.expenses : RemoveExpense(e)

Next ==
    \/ Header \/ Edit \/ Submit
    \/ EditWizard \/ EditPlan \/ AddCustomStop
    \/ Save \/ (\E t \in trips : CopyTrip(t) \/ DeleteTrip(t)) \/ OpenTrip \/ Import
    \/ CopyLink \/ DownloadJson
    \/ Road \/ Reload \/ OpenLink \/ NextDay \/ Fill

Spec == Init /\ [][Next]_vars

--------------------------------------------------------------------------
(* Properties.                                                             *)

\* A reload brings back the trip, the page and the notebook as they were:
\* App.tsx stores the trip at every edit and the page at every change of it,
\* PlanView the notebook at every note, so that the road can be left and come
\* back to. Not kept: what could not be written, a trip of a link or a default
\* nobody edited, a notebook a late photo of an earlier view wrote over, and
\* the notebook of the trip before while another trip is loaded over its plan.
ReloadKeepsTheTrip ==
    /\ "draft" \in unsaved \/ draft = input
    /\ "flag" \in unsaved \/ openFlag = showPlan
    /\ (PlanShown /\ "book" \notin unsaved /\ book.tripId = input.id) => LoadJournal(input.id) = book

\* A link or a file made on one day and opened on another is the same trip
\* (lib/share.ts): its first day does not move with the default of the reader.
CarriedTripIsTheTrip ==
    \A day \in 0 .. MaxDay :
        /\ DecodeTrip(EncodeTrip(input, today), day) = input
        /\ ReadJsonFile(FileOf(input), day) = input

\* The notebook settles its debts (ExpensePanel.tsx): nobody both gives and
\* gets, no more transfers than people less one, and as long as everyone who
\* paid is still of the group, nobody is left with more than the dust of the
\* others, nobody pays for what others shared, and the report has the money
\* the balances have.
DebtsSettled ==
    PlanShown =>
        LET group == input.group
            members == Range(group)
            expenses == book.expenses
            net == ComputeBalances(expenses, group)
            transfers == Settle(group, net)
            report == ActualsReport(expenses)
        IN  /\ \A i, j \in DOMAIN transfers : transfers[i].from # transfers[j].to
            /\ Len(transfers) <= Len(group) - 1
            /\ (\A e \in expenses : e.paidBy \in members /\ e.sharedWith \subseteq members) =>
                  /\ \A t \in members :
                         Size(HoldsAfter(t, net, transfers)) <= Tolerance * (Len(group) - 1)
                  /\ \A t \in members :
                         (\A e \in expenses : t \notin Sharers(e, group)) => net[t] >= 0
                  /\ ReportedTotal(report) - report.wear =
                         SumOver(members, [t \in members |-> Paid(t, expenses, group)])
=============================================================================
