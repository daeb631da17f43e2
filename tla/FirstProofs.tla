----------------------------- MODULE FirstProofs -----------------------------
(***************************************************************************)
(* Theorems about the first generation of leaderTrip: its pages, for any   *)
(* catalogue, any people, however often the page is left and the storage   *)
(* refuses; its services, for any nights and wishes, whatever plan is made *)
(* of them and however late an answer comes; and its planner, for any map, *)
(* any prices and any trip.                                                *)
(***************************************************************************)
EXTENDS FirstPage, FirstServices, FirstPlanner, Sums

-----------------------------------------------------------------------------
(* THE PAGES. What is kept on the device is what is on screen, and a trip  *)
(* that is carried to another device is the same trip there.               *)

Fields == {"id", "start", "days", "route", "car", "group", "taste", "prices",
           "pinned", "blocked", "assigned", "stops", "title"}

Trip(i) == i = [f \in Fields |-> i[f]]

-----------------------------------------------------------------------------
(* Trips, and what edits make of them.                                     *)

LEMMA DefaultIsATrip ==
  ASSUME NEW id, NEW day
  PROVE  Trip(DefaultInput(id, day))
BY DEF Trip, Fields, DefaultInput

LEMMA EditIsATrip ==
  ASSUME NEW i, Trip(i), NEW f, NEW v
  PROVE  Trip([i EXCEPT ![f] = v])
BY DEF Trip

LEMMA SavedIsATrip ==
  ASSUME NEW i, Trip(i)
  PROVE  Trip([i EXCEPT !.title = "named"])
BY DEF Trip

LEMMA StepsMakeTrips ==
  ASSUME NEW i, Trip(i), NEW s \in 0 .. 4, NEW e \in OnStep(i, s)
  PROVE  Trip(e)
<1>1. \A j \in EditRoute(i) : Trip(j)
  BY DEF EditRoute, Trip
<1>2. \A j \in EditTime(i) : Trip(j)
  BY DEF EditTime, Trip
<1>3. \A j \in EditGroup(i) : Trip(j)
  BY DEF EditGroup, Trip
<1>4. \A j \in EditCar(i) : Trip(j)
  BY DEF EditCar, Trip
<1>5. \A j \in EditTaste(i) : Trip(j)
  BY DEF EditTaste, Trip
<1>. QED
  BY <1>1, <1>2, <1>3, <1>4, <1>5 DEF OnStep

LEMMA PlanMakesTrips ==
  ASSUME NEW i, Trip(i), NEW e \in OnPlan(i)
  PROVE  Trip(e)
<1>1. \A j \in Block(i) : Trip(j)
  BY DEF Block, Trip
<1>2. \A j \in Move(i) : Trip(j)
  <2>1. ASSUME NEW j \in Move(i) PROVE \E v : j = [i EXCEPT !.assigned = v]
    BY <2>1 DEF Move
  <2>. QED
    BY <2>1 DEF Trip
<1>3. \A j \in Pin(i) : Trip(j)
  BY DEF Pin, Trip
<1>4. \A j \in Unblock(i) : Trip(j)
  BY DEF Unblock, Trip
<1>5. \A j \in RemoveStop(i) : Trip(j)
  BY DEF RemoveStop, Trip
<1>6. \A j \in Reprice(i) : Trip(j)
  BY DEF Reprice, Trip
<1>7. \A j \in Lever(i) : Trip(j)
  BY DEF Lever, Trip
<1>. QED
  BY <1>1, <1>2, <1>3, <1>4, <1>5, <1>6, <1>7 DEF OnPlan

LEMMA AddStopMakesATrip ==
  ASSUME NEW i, Trip(i), NEW id
  PROVE  Trip(AddStop(i, id))
BY DEF AddStop, Trip

LEMMA ReadIsATrip ==
  ASSUME NEW part, NEW id, NEW day
  PROVE  Trip(OverDefault(part, id, day))
<1>1. PICK base : base = DefaultInput(id, day)
  OBVIOUS
<1>2. DOMAIN base = Fields
  BY <1>1 DEF DefaultInput, Fields
<1>. QED
  BY <1>1, <1>2 DEF OverDefault, Trip

-----------------------------------------------------------------------------
(* The link and the file.                                                  *)

\* The defaults of two days differ in the start alone.
LEMMA DefaultsOfTwoDays ==
  ASSUME NEW one, NEW other, NEW f \in Fields, f # "start"
  PROVE  DefaultInput(0, one)[f] = DefaultInput(0, other)[f]
<1>1. DefaultInput(0, one).id = DefaultInput(0, other).id
  BY Zenon DEF DefaultInput
<1>2. DefaultInput(0, one).days = DefaultInput(0, other).days
  BY Zenon DEF DefaultInput
<1>3. DefaultInput(0, one).route = DefaultInput(0, other).route
  BY Zenon DEF DefaultInput
<1>4. DefaultInput(0, one).car = DefaultInput(0, other).car
  BY Zenon DEF DefaultInput
<1>5. DefaultInput(0, one).group = DefaultInput(0, other).group
  BY Zenon DEF DefaultInput
<1>6. DefaultInput(0, one).taste = DefaultInput(0, other).taste
  BY Zenon DEF DefaultInput
<1>7. DefaultInput(0, one).prices = DefaultInput(0, other).prices
  BY Zenon DEF DefaultInput
<1>8. DefaultInput(0, one).pinned = DefaultInput(0, other).pinned
  BY Zenon DEF DefaultInput
<1>9. DefaultInput(0, one).blocked = DefaultInput(0, other).blocked
  BY Zenon DEF DefaultInput
<1>10. DefaultInput(0, one).assigned = DefaultInput(0, other).assigned
  BY Zenon DEF DefaultInput
<1>11. DefaultInput(0, one).stops = DefaultInput(0, other).stops
  BY Zenon DEF DefaultInput
<1>12. DefaultInput(0, one).title = DefaultInput(0, other).title
  BY Zenon DEF DefaultInput
<1>. QED
  BY <1>1, <1>2, <1>3, <1>4, <1>5, <1>6, <1>7, <1>8, <1>9, <1>10, <1>11, <1>12 DEF Fields

LEMMA WrittenFields ==
  ASSUME NEW i, Trip(i)
  PROVE  /\ Written(i) \subseteq Fields
         /\ \A f \in Fields : f \notin Written(i) => f = "title" /\ i[f] = Undefined
BY DEF Trip, Fields, Written

LEMMA LinkIsTheTrip ==
  ASSUME NEW i, Trip(i), NEW one, NEW other
  PROVE  DecodeTrip(EncodeTrip(i, one), other) = i
<1>1. PICK base : base = DefaultInput(0, one)
  OBVIOUS
<1>2. PICK there : there = DefaultInput(0, other)
  OBVIOUS
<1>3. DOMAIN there = Fields /\ there["title"] = Undefined /\ \A f \in Fields : f # "start" => there[f] = base[f]
  <2>1. DOMAIN there = Fields /\ there["title"] = Undefined
    BY <1>2 DEF DefaultInput, Fields
  <2>. QED
    BY <1>1, <1>2, <2>1, DefaultsOfTwoDays
<1>4. PICK link : link = EncodeTrip(i, one)
  OBVIOUS
<1>5. /\ DOMAIN link = {g \in Written(i) : g # "start" => i[g] # base[g]}
      /\ \A f \in DOMAIN link : link[f] = i[f]
  BY <1>1, <1>4 DEF EncodeTrip
<1>6. ASSUME NEW f \in Fields PROVE (IF f \in DOMAIN link THEN link[f] ELSE there[f]) = i[f]
  <2>1. CASE f \in DOMAIN link
    BY <1>5, <2>1
  <2>2. CASE f \notin Written(i)
    BY <1>3, <1>5, <2>2, WrittenFields
  <2>3. CASE f \in Written(i) /\ f \notin DOMAIN link
    BY <1>3, <1>5, <2>3
  <2>. QED
    BY <2>1, <2>2, <2>3
<1>7. DecodeTrip(link, other) = [f \in Fields |-> IF f \in DOMAIN link THEN link[f] ELSE there[f]]
  BY <1>2, <1>3 DEF DecodeTrip, OverDefault
<1>8. DecodeTrip(link, other) = [f \in Fields |-> i[f]]
  BY <1>6, <1>7
<1>. QED
  BY <1>4, <1>8 DEF Trip

LEMMA FileIsTheTrip ==
  ASSUME NEW i, Trip(i), NEW day
  PROVE  ReadJsonFile(FileOf(i), day) = i
<1>1. PICK there : there = DefaultInput(0, day)
  OBVIOUS
<1>2. DOMAIN there = Fields /\ there["title"] = Undefined
  BY <1>1 DEF DefaultInput, Fields
<1>3. PICK file : file = FileOf(i)
  OBVIOUS
<1>4. DOMAIN file = Written(i) /\ \A f \in DOMAIN file : file[f] = i[f]
  BY <1>3 DEF FileOf
<1>5. ASSUME NEW f \in Fields PROVE (IF f \in DOMAIN file THEN file[f] ELSE there[f]) = i[f]
  BY <1>2, <1>4, WrittenFields
<1>6. ReadJsonFile(file, day) = [f \in Fields |-> IF f \in DOMAIN file THEN file[f] ELSE there[f]]
  BY <1>1, <1>2 DEF ReadJsonFile, OverDefault
<1>7. ReadJsonFile(file, day) = [f \in Fields |-> i[f]]
  BY <1>5, <1>6
<1>. QED
  BY <1>3, <1>7 DEF Trip

-----------------------------------------------------------------------------
(* What the device keeps. A saved trip is a trip, a notebook is filed under  *)
(* the trip it names, and what is not marked as unsaved is in the storage.   *)

Stored == /\ draft = Undefined \/ Trip(draft)
          /\ \A t \in trips : t = [id |-> t.id, input |-> t.input] /\ Trip(t.input)

Filed == \A id \in DOMAIN journals : journals[id].tripId = id

DraftSaved == "draft" \in unsaved \/ draft = input
FlagSaved  == "flag" \in unsaved \/ openFlag = showPlan
BookSaved  == PlanShown /\ "book" \notin unsaved => LoadJournal(book.tripId) = book

PageInv == Trip(input) /\ Stored /\ Filed /\ DraftSaved /\ FlagSaved /\ BookSaved

\* A notebook that is read names the trip it is read for, kept or new.
LEMMA LoadedIsFiled ==
  ASSUME Filed, NEW id
  PROVE  LoadJournal(id).tripId = id
BY DEF Filed, LoadJournal, EmptyJournal

\* A notebook on screen after a change of the page is in the storage, if it
\* was before: it is the one that was there, or has just been read.
LEMMA RenderKeepsTheBook ==
  ASSUME Filed, BookSaved, NEW i, NEW open, Render(i, open), journals' = journals,
         "book" \in unsaved => "book" \in unsaved'
  PROVE  BookSaved'
<1>1. \A id : LoadJournal(id)' = LoadJournal(id)
  BY DEF LoadJournal, EmptyJournal
<1>2. PlanShown' <=> Shown(i, open)
  BY DEF PlanShown, Shown, Render
<1>3. CASE Shown(i, open) /\ WizardShown
  <2>1. book' = LoadJournal(i.id)
    BY <1>3 DEF Render
  <2>. QED
    BY <1>1, <2>1, LoadedIsFiled DEF BookSaved
<1>4. CASE Shown(i, open) /\ ~WizardShown
  <2>1. book' = book /\ PlanShown
    BY <1>4 DEF Render, WizardShown
  <2>. QED
    BY <1>1, <2>1 DEF BookSaved
<1>5. CASE ~Shown(i, open)
  BY <1>2, <1>5 DEF BookSaved
<1>. QED
  BY <1>3, <1>4, <1>5

\* An edit that is stored, or marked as unsaved.
LEMMA SavedDraft ==
  ASSUME NEW i, SaveDraft(i)
  PROVE  /\ draft' = i \/ (draft' = draft /\ "draft" \in unsaved')
         /\ "draft" \in unsaved' \/ draft' = i
         /\ \A what : what # "draft" => (what \in unsaved' <=> what \in unsaved)
BY DEF SaveDraft, Store

LEMMA SavedFlag ==
  ASSUME NEW open, SaveFlag(open)
  PROVE  /\ "flag" \in unsaved' \/ openFlag' = open
         /\ \A what : what # "flag" => (what \in unsaved' <=> what \in unsaved)
BY DEF SaveFlag, Store

-----------------------------------------------------------------------------
(* Each step keeps it.                                                       *)

\* An edit of the wizard or the plan, a stop of one's own, and a trip that is
\* loaded: shown and stored in one handler.
LEMMA ShownAndStored ==
  ASSUME PageInv, NEW i, Trip(i), Render(i, showPlan), SaveDraft(i),
         UNCHANGED <<openFlag, trips, journals>>
  PROVE  PageInv'
<1>1. input' = i /\ showPlan' = showPlan
  BY DEF Render
<1>2. Trip(input)' /\ DraftSaved'
  BY <1>1, SavedDraft DEF DraftSaved, Trip, Fields
<1>3. Stored'
  BY SavedDraft DEF PageInv, Stored, Trip, Fields
<1>4. FlagSaved'
  BY <1>1, SavedDraft DEF PageInv, FlagSaved
<1>5. BookSaved'
  BY SavedDraft, RenderKeepsTheBook DEF PageInv
<1>. QED
  BY <1>2, <1>3, <1>4, <1>5 DEF PageInv, Filed

LEMMA PageTurned ==
  ASSUME PageInv, NEW open, SetShowPlan(open)
  PROVE  PageInv'
<1>1. /\ Render(input, open) /\ SaveFlag(open)
      /\ UNCHANGED <<draft, trips, journals>>
      /\ input' = input /\ showPlan' = open
  BY DEF SetShowPlan, Render
<1>2. Trip(input)' /\ Stored' /\ Filed'
  BY <1>1 DEF PageInv, Stored, Filed, Trip, Fields
<1>3. DraftSaved' /\ FlagSaved'
  BY <1>1, SavedFlag DEF PageInv, DraftSaved, FlagSaved
<1>4. BookSaved'
  BY <1>1, SavedFlag, RenderKeepsTheBook DEF PageInv
<1>. QED
  BY <1>2, <1>3, <1>4 DEF PageInv

\* What touches neither the page nor what it is brought back from.
LEMMA NothingKeptChanges ==
  ASSUME PageInv, UNCHANGED <<draft, openFlag, trips, journals, input, showPlan, book, unsaved>>
  PROVE  PageInv'
BY DEF PageInv, Stored, Filed, DraftSaved, FlagSaved, BookSaved, PlanShown, Shown, HasPlan,
       LoadJournal, EmptyJournal, Trip, Fields

\* The list of saved trips.
LEMMA ListChanges ==
  ASSUME PageInv, UNCHANGED <<draft, openFlag, journals, input, showPlan, book, unsaved>>,
         \A t \in trips' : t = [id |-> t.id, input |-> t.input] /\ Trip(t.input)
  PROVE  PageInv'
<1>1. Stored'
  BY DEF PageInv, Stored, Trip, Fields
<1>. QED
  BY <1>1 DEF PageInv, Filed, DraftSaved, FlagSaved, BookSaved, PlanShown, Shown, HasPlan,
         LoadJournal, EmptyJournal, Trip, Fields

LEMMA ListIsOfTrips ==
  ASSUME PageInv, Save \/ \E t \in trips : CopyTrip(t) \/ DeleteTrip(t)
  PROVE  PageInv'
<1>1. CASE Save
  <2>1. Trip([input EXCEPT !.title = "named"])
    BY SavedIsATrip DEF PageInv
  <2>2. PICK named : named = [input EXCEPT !.title = "named"]
    OBVIOUS
  <2>3. trips' \subseteq trips \cup {[id |-> nextId, input |-> named]}
    BY <1>1, <2>2 DEF Save
  <2>4. UNCHANGED <<draft, openFlag, journals, input, showPlan, book, unsaved>>
    BY <1>1 DEF Save, page
  <2>. QED
    BY <2>1, <2>2, <2>3, <2>4, ListChanges DEF PageInv, Stored
<1>2. ASSUME NEW t \in trips, CopyTrip(t) PROVE PageInv'
  <2>1. t = [id |-> t.id, input |-> t.input] /\ Trip(t.input)
    BY DEF PageInv, Stored
  <2>2. PICK copy : copy = [t EXCEPT !.id = nextId]
    OBVIOUS
  <2>3. copy = [id |-> nextId, input |-> t.input]
    BY <2>1, <2>2
  <2>4. trips' \subseteq trips \cup {copy}
    BY <1>2, <2>2 DEF CopyTrip
  <2>5. UNCHANGED <<draft, openFlag, journals, input, showPlan, book, unsaved>>
    BY <1>2 DEF CopyTrip, page
  <2>. QED
    BY <2>1, <2>3, <2>4, <2>5, ListChanges DEF PageInv, Stored
<1>3. ASSUME NEW t \in trips, DeleteTrip(t) PROVE PageInv'
  <2>1. trips' \subseteq trips
    BY <1>3 DEF DeleteTrip
  <2>2. UNCHANGED <<draft, openFlag, journals, input, showPlan, book, unsaved>>
    BY <1>3 DEF DeleteTrip, page
  <2>. QED
    BY <2>1, <2>2, ListChanges DEF PageInv, Stored
<1>. QED
  BY <1>1, <1>2, <1>3

\* The notebook: what a note leaves on the screen is what it stores, unless
\* the handler belongs to a view that has gone or the storage refuses.
LEMMA NoteIsKept ==
  ASSUME PageInv, NEW j, NEW old, UpdateJournal(j, old),
         UNCHANGED <<draft, openFlag, trips, input, showPlan>>
  PROVE  PageInv'
<1>1. Trip(input)' /\ Stored'
  BY DEF PageInv, Stored, Trip, Fields
<1>2. \A what : what # "book" => (what \in unsaved' <=> what \in unsaved)
  BY DEF UpdateJournal
<1>3. DraftSaved' /\ FlagSaved'
  BY <1>2 DEF PageInv, DraftSaved, FlagSaved
<1>4. PICK ok \in {TRUE, ~full} :
        /\ journals' = IF ok THEN Assign(journals, j.tripId, j) ELSE journals
        /\ unsaved' = IF ok /\ ~old THEN unsaved \ {"book"} ELSE unsaved \cup {"book"}
  BY DEF UpdateJournal
<1>5. Filed'
  BY <1>4 DEF PageInv, Filed, Assign
<1>6. BookSaved'
  <2>1. CASE ok /\ ~old
    <3>1. book' = j
      BY <2>1 DEF UpdateJournal
    <3>2. j.tripId \in DOMAIN journals' /\ journals'[j.tripId] = j
      BY <1>4, <2>1 DEF Assign
    <3>3. LoadJournal(j.tripId)' = j
      BY <3>2 DEF LoadJournal
    <3>. QED
      BY <3>1, <3>3 DEF BookSaved
  <2>2. CASE ~(ok /\ ~old)
    BY <1>4, <2>2 DEF BookSaved
  <2>. QED
    BY <2>1, <2>2
<1>. QED
  BY <1>1, <1>3, <1>5, <1>6 DEF PageInv

LEMMA TheRoadIsKept ==
  ASSUME PageInv, Road
  PROVE  PageInv'
<1>1. ASSUME NEW p \in Sights, CheckIn(p) PROVE PageInv'
  BY <1>1, NoteIsKept DEF CheckIn
<1>2. ASSUME NEW p \in Sights, Mark(p) PROVE PageInv'
  BY <1>2, NoteIsKept DEF Mark
<1>3. ASSUME NEW p \in Sights, Clear(p) PROVE PageInv'
  BY <1>3, NoteIsKept DEF Clear
<1>4. ASSUME NEW p, NEW kind, StartFlight(p, kind) PROVE PageInv'
  BY <1>4, NothingKeptChanges DEF StartFlight, storage
<1>5. ASSUME NEW f \in flights, FlightStored(f) PROVE PageInv'
  BY <1>5, NothingKeptChanges DEF FlightStored
<1>6. ASSUME NEW f \in flights, FlightLanded(f) PROVE PageInv'
  <2>1. PICK j : UpdateJournal(j, f.old)
    BY <1>6 DEF FlightLanded
  <2>. QED
    BY <1>6, <2>1, NoteIsKept DEF FlightLanded
<1>7. ASSUME NEW a, NEW t, NEW S, NEW c, AddExpense(a, t, S, c) PROVE PageInv'
  <2>1. PICK j : UpdateJournal(j, FALSE)
    BY <1>7 DEF AddExpense
  <2>. QED
    BY <1>7, <2>1, NoteIsKept DEF AddExpense
<1>8. ASSUME NEW e, RemoveExpense(e) PROVE PageInv'
  <2>1. PICK j : UpdateJournal(j, FALSE)
    BY <1>8 DEF RemoveExpense
  <2>. QED
    BY <1>8, <2>1, NoteIsKept DEF RemoveExpense
<1>. QED
  BY <1>1, <1>2, <1>3, <1>4, <1>5, <1>6, <1>7, <1>8 DEF Road

\* A page that begins shows what it was given and reads its notebook.
LEMMA BeginsAsKept ==
  ASSUME PageInv, NEW i, Trip(i), NEW open, NEW lost, Begin(i, open, lost),
         "draft" \in lost \/ draft = i, "flag" \in lost \/ openFlag = open
  PROVE  PageInv'
<1>1. /\ input' = i /\ showPlan' = open /\ unsaved' = lost
      /\ UNCHANGED <<draft, openFlag, trips, journals>>
  BY DEF Begin, storage
<1>2. Trip(input)' /\ Stored' /\ Filed' /\ DraftSaved' /\ FlagSaved'
  BY <1>1 DEF PageInv, Stored, Filed, DraftSaved, FlagSaved, Trip, Fields
<1>3. BookSaved'
  <2>1. \A id : LoadJournal(id)' = LoadJournal(id)
    BY <1>1 DEF LoadJournal, EmptyJournal
  <2>2. PlanShown' => book' = LoadJournal(i.id)
    BY <1>1 DEF Begin, PlanShown, Shown
  <2>. QED
    BY <2>1, <2>2, LoadedIsFiled DEF BookSaved, PageInv
<1>. QED
  BY <1>2, <1>3 DEF PageInv

LEMMA PageBegins ==
  ASSUME PageInv, Reload \/ OpenLink
  PROVE  PageInv'
<1>1. CASE Reload /\ draft = Undefined
  <2>1. PICK i : i = DefaultInput(nextId, today)
    OBVIOUS
  <2>2. Begin(i, openFlag, {"draft"})
    BY <1>1, <2>1 DEF Reload
  <2>. QED
    BY <2>1, <2>2, DefaultIsATrip, BeginsAsKept
<1>2. CASE Reload /\ draft # Undefined
  <2>1. Begin(draft, openFlag, {})
    BY <1>2 DEF Reload
  <2>. QED
    BY <1>2, <2>1, BeginsAsKept DEF PageInv, Stored
<1>3. CASE OpenLink
  <2>1. PICK i : i = DecodeTrip(carried.part, today)
    OBVIOUS
  <2>2. Begin(i, TRUE, {"draft", "flag"})
    BY <1>3, <2>1 DEF OpenLink
  <2>3. Trip(i)
    BY <2>1, ReadIsATrip DEF DecodeTrip
  <2>. QED
    BY <2>2, <2>3, BeginsAsKept
<1>. QED
  BY <1>1, <1>2, <1>3

LEMMA PageStep ==
  ASSUME PageInv, [Next]_vars
  PROVE  PageInv'
<1>1. CASE Header \/ Edit \/ Submit
  BY <1>1, PageTurned DEF Header, Edit, Submit
<1>2. ASSUME NEW i, Trip(i), Patch(i) PROVE PageInv'
  BY <1>2, ShownAndStored DEF Patch
<1>3. CASE EditWizard
  <2>1. PICK s \in 0 .. 4 : \E i \in OnStep(input, s) : Patch(i)
    BY <1>3 DEF EditWizard
  <2>. QED
    BY <1>2, <2>1, StepsMakeTrips DEF PageInv
<1>4. CASE EditPlan
  <2>1. PICK i \in OnPlan(input) : Patch(i)
    BY <1>4 DEF EditPlan
  <2>. QED
    BY <1>2, <2>1, PlanMakesTrips DEF PageInv
<1>5. CASE AddCustomStop
  <2>1. PICK i : i = AddStop(input, nextId)
    OBVIOUS
  <2>2. Render(i, showPlan) /\ SaveDraft(i) /\ UNCHANGED <<openFlag, trips, journals>>
    BY <1>5, <2>1 DEF AddCustomStop
  <2>. QED
    BY <2>1, <2>2, AddStopMakesATrip, ShownAndStored DEF PageInv
<1>6. CASE Save \/ \E t \in trips : CopyTrip(t) \/ DeleteTrip(t)
  BY <1>6, ListIsOfTrips
<1>7. ASSUME NEW i, Trip(i), Load(i) PROVE PageInv'
  BY <1>7, ShownAndStored DEF Load
<1>8. CASE OpenTrip
  BY <1>7, <1>8 DEF OpenTrip, PageInv, Stored
<1>9. CASE Import
  <2>1. PICK i : i = ReadJsonFile(carried.part, today)
    OBVIOUS
  <2>2. Load(i)
    BY <1>9, <2>1 DEF Import
  <2>3. Trip(i)
    BY <2>1, ReadIsATrip DEF ReadJsonFile
  <2>. QED
    BY <1>7, <2>2, <2>3
<1>10. CASE CopyLink \/ DownloadJson \/ NextDay \/ Fill
  BY <1>10, NothingKeptChanges DEF CopyLink, DownloadJson, Carry, NextDay, Fill, storage, page
<1>11. CASE UNCHANGED vars
  BY <1>11, NothingKeptChanges DEF vars, storage, page
<1>. QED
  BY <1>1, <1>3, <1>4, <1>5, <1>6, <1>8, <1>9, <1>10, <1>11, TheRoadIsKept, PageBegins DEF Next

LEMMA PageInitInv ==
  ASSUME Init
  PROVE  PageInv
<1>1. Trip(input)
  BY DefaultIsATrip DEF Init
<1>2. Stored /\ Filed /\ DraftSaved
  BY DEF Init, Stored, Filed, DraftSaved
<1>3. FlagSaved /\ BookSaved
  BY DEF Init, FlagSaved, BookSaved, PlanShown, Shown
<1>. QED
  BY <1>1, <1>2, <1>3 DEF PageInv

\* What the device keeps is what is on the screen, or is marked as unsaved,
\* through every edit, reload, link, photo and refusal of the storage.
THEOREM PageInvHolds == Spec => []PageInv
<1>. QED
  BY PageInitInv, PageStep, PTL DEF Spec

\* A reload brings the trip, the page and the notebook back as they were
\* (App.tsx and PlanView.tsx store each at every change of it), except what
\* could not be written, is not the user's own yet, or was left behind.
THEOREM ReloadKeeps == Spec => []ReloadKeepsTheTrip
<1>1. PageInv => ReloadKeepsTheTrip
  BY DEF PageInv, ReloadKeepsTheTrip, DraftSaved, FlagSaved, BookSaved
<1>. QED
  BY <1>1, PageInvHolds, PTL

\* A link or a file made of the trip on screen, on whatever day, and read over
\* the defaults of whatever other day, is that trip (lib/share.ts).
THEOREM CarriedIsTheTrip == Spec => []CarriedTripIsTheTrip
<1>1. PageInv => CarriedTripIsTheTrip
  BY LinkIsTheTrip, FileIsTheTrip DEF PageInv, CarriedTripIsTheTrip
<1>. QED
  BY <1>1, PageInvHolds, PTL

-----------------------------------------------------------------------------
(* THE MONEY OF THE ROAD. Whatever a notebook holds, its debts are settled: *)
(* turn by turn what changes hands is right, whoever paid for whom.        *)

-----------------------------------------------------------------------------
(* Sums over sets, as the ledger takes them.                               *)

LEMMA SumOverIsSum ==
  ASSUME NEW S, IsFiniteSet(S), NEW v, \A x \in S : v[x] \in Int
  PROVE  SumOver(S, v) = SetSum(v, S)
<1>. DEFINE Eqn(f) == f = [T \in SUBSET S |->
                 IF T = {} THEN 0 ELSE v[CHOOSE x \in T : TRUE] + f[T \ {CHOOSE x \in T : TRUE}]]
            F == CHOOSE f : Eqn(f)
<1>1. SumOver(S, v) = F[S]
  BY DEF SumOver, FoldSet, MapThenFoldSet
<1>2. PICK g : IsSum(v, S, g) /\ SetSum(v, S) = g[S]
  BY SumIsOne
<1>3. \A T \in SUBSET S : T # {} => (CHOOSE x \in T : TRUE) \in T
  OBVIOUS
<1>4. Eqn(g)
  <2>1. g \in [SUBSET S -> Int] /\ g[{}] = 0
    BY <1>2 DEF IsSum
  <2>2. ASSUME NEW T \in SUBSET S, T # {}
        PROVE  g[T] = v[CHOOSE x \in T : TRUE] + g[T \ {CHOOSE x \in T : TRUE}]
    <3>1. PICK x : x = CHOOSE y \in T : TRUE
      OBVIOUS
    <3>2. x \in T /\ T \ {x} \in SUBSET S
      BY <1>3, <2>2, <3>1
    <3>3. g[T] = g[T \ {x}] + v[x]
      BY <1>2, <3>2 DEF IsSum
    <3>4. g[T \ {x}] \in Int /\ v[x] \in Int
      BY <2>1, <3>2
    <3>5. g[T] = v[x] + g[T \ {x}]
      BY <3>3, <3>4
    <3>. QED
      BY <3>1, <3>5
  <2>. QED
    BY <2>1, <2>2
<1>5. Eqn(F)
  BY <1>4
<1>. HIDE DEF F
<1>. DEFINE Fine == {n \in Nat : \A T \in SUBSET S : Cardinality(T) = n => F[T] = g[T]}
<1>6. 0 \in Fine
  <2>1. ASSUME NEW T \in SUBSET S, Cardinality(T) = 0 PROVE F[T] = g[T]
    <3>1. T = {}
      BY <2>1, FS_Subset, FS_EmptySet
    <3>. QED
      BY <1>4, <1>5, <3>1
  <2>. QED
    BY <2>1
<1>7. ASSUME NEW n \in Nat, n \in Fine PROVE n + 1 \in Fine
  <2>1. ASSUME NEW T \in SUBSET S, Cardinality(T) = n + 1 PROVE F[T] = g[T]
    <3>1. IsFiniteSet(T) /\ T # {}
      BY <2>1, FS_Subset, FS_EmptySet
    <3>2. PICK x : x = CHOOSE y \in T : TRUE
      OBVIOUS
    <3>3. x \in T /\ T \ {x} \in SUBSET S
      BY <1>3, <3>1, <3>2
    <3>4. Cardinality(T \ {x}) = n
      <4>1. Cardinality(T \ {x}) = Cardinality(T) - 1
        BY <3>1, <3>3, FS_RemoveElement
      <4>. QED
        BY <2>1, <4>1
    <3>5. F[T \ {x}] = g[T \ {x}]
      BY <1>7, <3>3, <3>4
    <3>6. F[T] = v[x] + F[T \ {x}]
      BY <1>5, <3>1, <3>2
    <3>7. g[T] = v[x] + g[T \ {x}]
      BY <1>4, <3>1, <3>2
    <3>. QED
      BY <3>5, <3>6, <3>7
  <2>. QED
    BY <2>1
<1>8. F[S] = g[S]
  <2>. HIDE DEF Fine
  <2>1. Nat \subseteq Fine
    BY <1>6, <1>7, InductionOnNat
  <2>2. Cardinality(S) \in Nat
    BY FS_CardinalityType
  <2>. QED
    BY <2>1, <2>2 DEF Fine
<1>. QED
  BY <1>1, <1>2, <1>8

-----------------------------------------------------------------------------
(* The transfers, one more.                                                *)

Longer(n, k, v, w) ==
    /\ n \in Nat /\ k = n + 1 /\ w[k] \in Int
    /\ \A i \in 1 .. n : v[i] \in Int /\ w[i] = v[i]

LEMMA SumOfOneMore ==
  ASSUME NEW n, NEW k, NEW v, NEW w, Longer(n, k, v, w), NEW S \in SUBSET (1 .. n)
  PROVE  /\ SumOver(S, v) \in Int
         /\ SumOver(S, w) = SumOver(S, v)
         /\ SumOver(S \cup {k}, w) = SumOver(S, v) + w[k]
<1>. n \in Nat /\ k = n + 1 /\ w[k] \in Int /\ \A i \in 1 .. n : v[i] \in Int /\ w[i] = v[i]
  BY DEF Longer
<1>1. PICK Z : Z = S \cup {k}
  OBVIOUS
<1>2. Z \in SUBSET (1 .. n + 1) /\ S \in SUBSET Z /\ k \in Z \ S /\ \A x \in Z : w[x] \in Int
  BY <1>1
<1>3. IsFiniteSet(Z) /\ IsFiniteSet(S)
  <2>1. IsFiniteSet(1 .. n + 1)
    BY FS_Interval
  <2>2. Z \subseteq 1 .. n + 1 /\ S \subseteq Z
    BY <1>2
  <2>. QED
    BY <2>1, <2>2, FS_Subset
<1>4. /\ SumOver(S, v) = SetSum(v, S) /\ SumOver(S, w) = SetSum(w, S) /\ SumOver(Z, w) = SetSum(w, Z)
      /\ SetSum(w, S) = SetSum(v, S) /\ SetSum(v, S) \in Int
  <2>1. \A x \in S : v[x] \in Int /\ w[x] = v[x] /\ w[x] \in Int
    OBVIOUS
  <2>. QED
    BY <1>2, <1>3, <2>1, SumOverIsSum, SumSame, SumType
<1>5. SetSum(w, S \cup {k}) = SetSum(w, S) + w[k]
  <2>1. \A x \in S : w[x] \in Int
    BY <1>2
  <2>2. k \notin S
    BY <1>2
  <2>3. Apart(S, w, k)
    BY <1>3, <2>1, <2>2 DEF Apart
  <2>. QED
    BY <2>3, SumWithOne
<1>. QED
  BY <1>1, <1>4, <1>5

LEMMA HoldsNothingYet ==
  ASSUME NEW net, NEW t, net[t] \in Int
  PROVE  HoldsAfter(t, net, <<>>) = net[t]
<1>1. PICK none : none = [i \in DOMAIN <<>> |-> <<>>[i].amount]
  OBVIOUS
<1>2. SumOver({}, none) = 0
  <2>1. SumOver({}, none) = SetSum(none, {})
    BY FS_EmptySet, SumOverIsSum
  <2>. QED
    BY <2>1, SumOfNothing
<1>3. {i \in DOMAIN <<>> : <<>>[i].from = t} = {} /\ {i \in DOMAIN <<>> : <<>>[i].to = t} = {}
  OBVIOUS
<1>. QED
  BY <1>1, <1>2, <1>3 DEF HoldsAfter

Handovers(M) == [from : M, to : M, amount : Int]
Gains(t, e) == (IF e.from = t THEN e.amount ELSE 0) - (IF e.to = t THEN e.amount ELSE 0)

OneMore(s, e, q) == q = Append(s, e)

LEMMA HoldsAfterOneMore ==
  ASSUME NEW M, NEW net, NEW t \in M, net[t] \in Int, NEW s, s \in Seq(Handovers(M)),
         NEW e, e \in Handovers(M), NEW q, OneMore(s, e, q)
  PROVE  /\ HoldsAfter(t, net, s) \in Int
         /\ HoldsAfter(t, net, q) = HoldsAfter(t, net, s) + Gains(t, e)
<1>1. PICK n \in Nat : n = Len(s)
  OBVIOUS
<1>3. PICK v : v = [i \in DOMAIN s |-> s[i].amount]
  OBVIOUS
<1>4. PICK w : w = [i \in DOMAIN q |-> q[i].amount]
  OBVIOUS
<1>5. DOMAIN s = 1 .. n /\ DOMAIN q = 1 .. n + 1 /\ q[n + 1] = e /\ \A i \in 1 .. n : q[i] = s[i]
  BY <1>1 DEF OneMore
<1>6. \A i \in 1 .. n : s[i] \in Handovers(M)
  BY <1>1
<1>7. /\ \A i \in 1 .. n : v[i] \in Int /\ w[i] = v[i]
      /\ w[n + 1] = e.amount /\ e.amount \in Int
  BY <1>3, <1>4, <1>5, <1>6 DEF Handovers
<1>8. PICK G : G = {i \in DOMAIN s : s[i].from = t}
  OBVIOUS
<1>9. PICK H : H = {i \in DOMAIN s : s[i].to = t}
  OBVIOUS
<1>10. G \in SUBSET (1 .. n) /\ H \in SUBSET (1 .. n)
  BY <1>5, <1>8, <1>9
<1>11. {i \in DOMAIN q : q[i].from = t} = IF e.from = t THEN G \cup {n + 1} ELSE G
  BY <1>5, <1>8
<1>12. {i \in DOMAIN q : q[i].to = t} = IF e.to = t THEN H \cup {n + 1} ELSE H
  BY <1>5, <1>9
<1>13. /\ SumOver(G, v) \in Int /\ SumOver(G, w) = SumOver(G, v)
       /\ SumOver(G \cup {n + 1}, w) = SumOver(G, v) + e.amount
       /\ SumOver(H, v) \in Int /\ SumOver(H, w) = SumOver(H, v)
       /\ SumOver(H \cup {n + 1}, w) = SumOver(H, v) + e.amount
  <2>1. PICK k : k = n + 1
    OBVIOUS
  <2>2. w[k] = e.amount
    BY <1>7, <2>1
  <2>3. Longer(n, k, v, w)
    BY <1>7, <2>1 DEF Longer
  <2>4. ASSUME NEW T \in SUBSET (1 .. n)
        PROVE  /\ SumOver(T, v) \in Int /\ SumOver(T, w) = SumOver(T, v)
               /\ SumOver(T \cup {k}, w) = SumOver(T, v) + w[k]
    BY <2>3, SumOfOneMore
  <2>. QED
    BY <1>10, <2>1, <2>2, <2>4
<1>14. HoldsAfter(t, net, s) = net[t] + SumOver(G, v) - SumOver(H, v)
  BY <1>3, <1>8, <1>9 DEF HoldsAfter
<1>15. HoldsAfter(t, net, q) = net[t] + SumOver({i \in DOMAIN q : q[i].from = t}, w)
                                     - SumOver({i \in DOMAIN q : q[i].to = t}, w)
  BY <1>4 DEF HoldsAfter
<1>16. SumOver({i \in DOMAIN q : q[i].from = t}, w) = SumOver(G, v) + IF e.from = t THEN e.amount ELSE 0
  <2>1. CASE e.from = t
    BY <1>11, <1>13, <2>1
  <2>2. CASE e.from # t
    <3>1. SumOver({i \in DOMAIN q : q[i].from = t}, w) = SumOver(G, v)
      BY <1>11, <1>13, <2>2
    <3>2. PICK k \in Int : k = SumOver(G, v)
      BY <1>13
    <3>3. k + 0 = k
      OBVIOUS
    <3>. QED
      BY <2>2, <3>1, <3>2, <3>3
  <2>. QED
    BY <2>1, <2>2
<1>17. SumOver({i \in DOMAIN q : q[i].to = t}, w) = SumOver(H, v) + IF e.to = t THEN e.amount ELSE 0
  <2>1. CASE e.to = t
    BY <1>12, <1>13, <2>1
  <2>2. CASE e.to # t
    <3>1. SumOver({i \in DOMAIN q : q[i].to = t}, w) = SumOver(H, v)
      BY <1>12, <1>13, <2>2
    <3>2. PICK k \in Int : k = SumOver(H, v)
      BY <1>13
    <3>3. k + 0 = k
      OBVIOUS
    <3>. QED
      BY <2>2, <3>1, <3>2, <3>3
  <2>. QED
    BY <2>1, <2>2
<1>18. PICK a : a = IF e.from = t THEN e.amount ELSE 0
  OBVIOUS
<1>19. PICK b : b = IF e.to = t THEN e.amount ELSE 0
  OBVIOUS
<1>20. a \in Int /\ b \in Int
  BY <1>7, <1>18, <1>19
<1>21. HoldsAfter(t, net, q) = net[t] + (SumOver(G, v) + a) - (SumOver(H, v) + b)
  BY <1>15, <1>16, <1>17, <1>18, <1>19
<1>22. HoldsAfter(t, net, q) = HoldsAfter(t, net, s) + (a - b) /\ HoldsAfter(t, net, s) \in Int
  <2>. HIDE DEF HoldsAfter, SumOver
  <2>. QED
    BY <1>13, <1>14, <1>20, <1>21
<1>. QED
  BY <1>18, <1>19, <1>22 DEF Gains

-----------------------------------------------------------------------------
(* Whose turn it is.                                                       *)
LEMMA ForemostIsOne ==
  ASSUME NEW group, NEW M, group \in Seq(M), NEW net, \A i \in DOMAIN group : net[group[i]] \in Int,
         NEW S, S # {}, \A t \in S : \E i \in DOMAIN group : group[i] = t
  PROVE  Foremost(S, net, group) \in S
<1>. DEFINE Before(i, j) == \/ Size(net[group[i]]) > Size(net[group[j]])
                            \/ Size(net[group[i]]) = Size(net[group[j]]) /\ i <= j
            places == {i \in DOMAIN group : group[i] \in S}
            G == {T \in SUBSET places : T = {} \/ \E i \in T : \A j \in T : Before(i, j)}
<1>1. places \in SUBSET (1 .. Len(group)) /\ Len(group) \in Nat /\ places # {}
  OBVIOUS
<1>2. IsFiniteSet(places)
  BY <1>1, FS_Interval, FS_Subset
<1>3. \A i \in places : i \in Int /\ Size(net[group[i]]) \in Int
  BY <1>1 DEF Size
<1>4. {} \in G
  OBVIOUS
<1>5. ASSUME NEW T \in SUBSET places, NEW y \in places \ T, T \in G PROVE T \cup {y} \in G
  <2>1. CASE T = {}
    <3>1. Before(y, y)
      BY <1>3
    <3>. QED
      BY <2>1, <3>1
  <2>2. CASE T # {}
    <3>1. PICK i \in T : \A j \in T : Before(i, j)
      BY <1>5, <2>2
    <3>2. CASE Before(i, y)
      BY <3>1, <3>2
    <3>3. CASE ~ Before(i, y)
      <4>1. \A j \in T \cup {y} : Before(y, j)
        <5>1. Before(y, i) /\ Before(y, y)
          BY <1>3, <3>3
        <5>2. ASSUME NEW j \in T PROVE Before(y, j)
          <6>1. Before(i, j)
            BY <3>1
          <6>2. Size(net[group[i]]) \in Int /\ Size(net[group[j]]) \in Int /\ Size(net[group[y]]) \in Int
                /\ i \in Int /\ j \in Int /\ y \in Int
            BY <1>3
          <6>. QED
            BY <5>1, <6>1, <6>2
        <5>. QED
          BY <5>1, <5>2
      <4>. QED
        BY <4>1
    <3>. QED
      BY <3>2, <3>3
  <2>. QED
    BY <2>1, <2>2
<1>6. SUBSET places \subseteq G
  <2>. HIDE DEF G, places
  <2>. QED
    BY <1>2, <1>4, <1>5, InductionOnSubsets
<1>7. \E i \in places : \A j \in places : Before(i, j)
  BY <1>1, <1>6
<1>8. PICK k : k = CHOOSE i \in places : \A j \in places : Before(i, j)
  OBVIOUS
<1>9. k \in places
  BY <1>7, <1>8
<1>10. Foremost(S, net, group) = group[k]
  BY <1>8 DEF Foremost
<1>. QED
  BY <1>9, <1>10

-----------------------------------------------------------------------------
(* Turn after turn, the tally is right.                                    *)

Lent(M, net)  == {t \in M : net[t] > Tolerance}
Owing(M, net) == {t \in M : net[t] < -Tolerance}

Tallies(M) == [creditors : SUBSET M, debtors : SUBSET M, left : [M -> Int], transfers : Seq(Handovers(M))]

TallySound(M, net, s) ==
    /\ s.creditors \subseteq Lent(M, net) /\ s.debtors \subseteq Owing(M, net)
    /\ \A t \in M : s.left[t] >= 0 /\ (t \in s.creditors \cup s.debtors <=> s.left[t] > Tolerance)
    /\ \A t \in M : HoldsAfter(t, net, s.transfers) = IF net[t] >= 0 THEN s.left[t] ELSE -s.left[t]
    /\ \A i \in DOMAIN s.transfers :
           s.transfers[i].from \in Owing(M, net) /\ s.transfers[i].to \in Lent(M, net)
    /\ Len(s.transfers) + Cardinality(s.creditors) + Cardinality(s.debtors)
           <= Cardinality(Lent(M, net)) + Cardinality(Owing(M, net))
    /\ s.transfers # <<>> =>
           Len(s.transfers) < Cardinality(Lent(M, net)) + Cardinality(Owing(M, net))
SoundTallies(M, net) == {s \in Tallies(M) : TallySound(M, net, s)}

Nets(M, group, net) ==
    /\ group \in Seq(M) /\ IsFiniteSet(M) /\ \A t \in M : \E i \in DOMAIN group : group[i] = t
    /\ net \in [M -> Int]

LEMMA RestIsLess ==
  ASSUME NEW S, IsFiniteSet(S), NEW t \in S, NEW b \in BOOLEAN
  PROVE  LET R == IF b THEN S \ {t} ELSE S
         IN  IsFiniteSet(R) /\ Cardinality(S) \in Nat /\ Cardinality(S) >= 1
             /\ Cardinality(R) = IF b THEN Cardinality(S) - 1 ELSE Cardinality(S)
<1>1. Cardinality(S) \in Nat /\ Cardinality(S) # 0
  BY FS_CardinalityType, FS_EmptySet
<1>2. IsFiniteSet(S \ {t}) /\ Cardinality(S \ {t}) = Cardinality(S) - 1
  BY FS_RemoveElement
<1>. QED
  BY <1>1, <1>2

\* The creditor c and the debtor d clear a, the smaller of their amounts.
IsTurn(M, group, net, s, c, d, a, rest) ==
    /\ a > Tolerance /\ a <= s.left[c] /\ a <= s.left[d] /\ (a = s.left[c] \/ a = s.left[d])
    /\ c # d /\ rest[c] = s.left[c] - a /\ rest[d] = s.left[d] - a
    /\ \A t \in M : t # c /\ t # d => rest[t] = s.left[t]
    /\ Turn(s, net, group) =
         [creditors |-> IF rest[c] <= Tolerance THEN s.creditors \ {c} ELSE s.creditors,
          debtors |-> IF rest[d] <= Tolerance THEN s.debtors \ {d} ELSE s.debtors,
          left |-> rest,
          transfers |-> Append(s.transfers, [from |-> d, to |-> c, amount |-> a])]

\* What one turn does, when there is somebody on either side.
LEMMA TurnTaken ==
  ASSUME NEW M, NEW group, NEW net, Nets(M, group, net), NEW s \in SoundTallies(M, net),
         s.creditors # {}, s.debtors # {}
  PROVE  \E c \in s.creditors, d \in s.debtors, a \in Int, rest \in [M -> Int] :
            IsTurn(M, group, net, s, c, d, a, rest)
<1>0. Tolerance \in Nat
  BY LedgerAssumption
<1>1. /\ s \in Tallies(M) /\ s.creditors \in SUBSET M /\ s.debtors \in SUBSET M /\ s.left \in [M -> Int]
      /\ s.transfers \in Seq(Handovers(M))
  BY DEF SoundTallies, Tallies
<1>2. TallySound(M, net, s)
  BY DEF SoundTallies
<1>3. PICK c : c = Foremost(s.creditors, net, group)
  OBVIOUS
<1>4. PICK d : d = Foremost(s.debtors, net, group)
  OBVIOUS
<1>5. c \in s.creditors /\ d \in s.debtors
  <2>1. group \in Seq(M) /\ \A i \in DOMAIN group : net[group[i]] \in Int
    BY DEF Nets
  <2>2. \A S \in SUBSET M : \A t \in S : \E i \in DOMAIN group : group[i] = t
    BY DEF Nets
  <2>. QED
    BY <1>1, <1>3, <1>4, <2>1, <2>2, ForemostIsOne
<1>6. c \in M /\ d \in M /\ net[c] > Tolerance /\ net[d] < -Tolerance /\ net[c] \in Int /\ net[d] \in Int
  BY <1>2, <1>5 DEF TallySound, Lent, Owing, Nets
<1>7. c # d
  BY <1>0, <1>6
<1>8. PICK a : a = Lesser(s.left[c], s.left[d])
  OBVIOUS
<1>9. s.left[c] \in Int /\ s.left[d] \in Int /\ s.left[c] > Tolerance /\ s.left[d] > Tolerance
  BY <1>1, <1>2, <1>5, <1>6 DEF TallySound
<1>10. a \in Int /\ a > Tolerance /\ a <= s.left[c] /\ a <= s.left[d] /\ (a = s.left[c] \/ a = s.left[d])
  BY <1>0, <1>8, <1>9 DEF Lesser
<1>11. PICK rest : rest = [s.left EXCEPT ![c] = @ - a, ![d] = @ - a]
  OBVIOUS
<1>12. /\ rest \in [M -> Int] /\ rest[c] = s.left[c] - a /\ rest[d] = s.left[d] - a
       /\ \A t \in M : t # c /\ t # d => rest[t] = s.left[t]
  BY <1>1, <1>6, <1>7, <1>9, <1>10, <1>11
<1>13. Turn(s, net, group) =
         [creditors |-> IF rest[c] <= Tolerance THEN s.creditors \ {c} ELSE s.creditors,
          debtors |-> IF rest[d] <= Tolerance THEN s.debtors \ {d} ELSE s.debtors,
          left |-> rest,
          transfers |-> s.transfers \o IF a > Tolerance THEN <<[from |-> d, to |-> c, amount |-> a]>> ELSE <<>>]
  BY <1>3, <1>4, <1>8, <1>11 DEF Turn
<1>14. (s.transfers \o IF a > Tolerance THEN <<[from |-> d, to |-> c, amount |-> a]>> ELSE <<>>)
         = Append(s.transfers, [from |-> d, to |-> c, amount |-> a])
  <2>1. PICK e : e = [from |-> d, to |-> c, amount |-> a]
    OBVIOUS
  <2>2. \A x \in Seq(Handovers(M)), y \in Handovers(M) : x \o <<y>> = Append(x, y)
    OBVIOUS
  <2>3. e \in Handovers(M)
    BY <1>6, <1>10, <2>1 DEF Handovers
  <2>. QED
    BY <1>1, <1>10, <2>1, <2>2, <2>3
<1>15. IsTurn(M, group, net, s, c, d, a, rest)
  BY <1>7, <1>10, <1>12, <1>13, <1>14 DEF IsTurn
<1>. QED
  BY <1>5, <1>10, <1>12, <1>15

LEMMA TurnIsSound ==
  ASSUME NEW M, NEW group, NEW net, Nets(M, group, net), NEW s \in SoundTallies(M, net)
  PROVE  LET e == Turn(s, net, group)
         IN  /\ e \in SoundTallies(M, net)
             /\ e.creditors # {} /\ e.debtors # {} =>
                   Cardinality(e.creditors) + Cardinality(e.debtors) + 1
                       <= Cardinality(s.creditors) + Cardinality(s.debtors)
<1>0. Tolerance \in Nat
  BY LedgerAssumption
<1>1. CASE s.creditors = {} \/ s.debtors = {}
  BY <1>1 DEF Turn
<1>. SUFFICES ASSUME s.creditors # {}, s.debtors # {}
              PROVE  LET e == Turn(s, net, group)
                     IN  /\ e \in SoundTallies(M, net)
                         /\ Cardinality(e.creditors) + Cardinality(e.debtors) + 1
                                <= Cardinality(s.creditors) + Cardinality(s.debtors)
  BY <1>1
<1>2. /\ s \in Tallies(M) /\ s.creditors \in SUBSET M /\ s.debtors \in SUBSET M /\ s.left \in [M -> Int]
      /\ s.transfers \in Seq(Handovers(M))
  BY DEF SoundTallies, Tallies
<1>3. TallySound(M, net, s)
  BY DEF SoundTallies
<1>4. PICK c \in s.creditors, d \in s.debtors, a \in Int, rest \in [M -> Int] :
            IsTurn(M, group, net, s, c, d, a, rest)
  BY TurnTaken
<1>taken. /\ a > Tolerance /\ a <= s.left[c] /\ a <= s.left[d] /\ (a = s.left[c] \/ a = s.left[d])
          /\ c # d /\ rest[c] = s.left[c] - a /\ rest[d] = s.left[d] - a
          /\ \A t \in M : t # c /\ t # d => rest[t] = s.left[t]
          /\ Turn(s, net, group) =
               [creditors |-> IF rest[c] <= Tolerance THEN s.creditors \ {c} ELSE s.creditors,
                debtors |-> IF rest[d] <= Tolerance THEN s.debtors \ {d} ELSE s.debtors,
                left |-> rest,
                transfers |-> Append(s.transfers, [from |-> d, to |-> c, amount |-> a])]
  BY <1>4 DEF IsTurn
<1>5. PICK C : C = IF rest[c] <= Tolerance THEN s.creditors \ {c} ELSE s.creditors
  OBVIOUS
<1>6. PICK D : D = IF rest[d] <= Tolerance THEN s.debtors \ {d} ELSE s.debtors
  OBVIOUS
<1>7. PICK h : h = [from |-> d, to |-> c, amount |-> a]
  OBVIOUS
<1>8. PICK q : q = Append(s.transfers, h)
  OBVIOUS
<1>9. Turn(s, net, group) = [creditors |-> C, debtors |-> D, left |-> rest, transfers |-> q]
  BY <1>taken, <1>5, <1>6, <1>7, <1>8
<1>10. c \in M /\ d \in M /\ c \in Lent(M, net) /\ d \in Owing(M, net)
  BY <1>2, <1>3 DEF TallySound
<1>11. h \in Handovers(M) /\ h.from = d /\ h.to = c /\ h.amount = a
  <2>1. c \in M /\ d \in M /\ a \in Int
    BY <1>10
  <2>. QED
    BY <1>7, <2>1 DEF Handovers
<1>12. /\ q \in Seq(Handovers(M)) /\ Len(q) = Len(s.transfers) + 1 /\ q # <<>> /\ Len(s.transfers) \in Nat
       /\ \A i \in DOMAIN q : q[i] = h \/ (i \in DOMAIN s.transfers /\ q[i] = s.transfers[i])
  BY <1>2, <1>8, <1>11
<1>13. C \subseteq s.creditors /\ D \subseteq s.debtors
  BY <1>5, <1>6
<1>14. s.left[c] \in Int /\ s.left[d] \in Int /\ (rest[c] = 0 \/ rest[d] = 0)
  BY <1>2, <1>taken, <1>10
<1>15. /\ Cardinality(s.creditors) \in Nat /\ Cardinality(s.creditors) >= 1
       /\ Cardinality(s.debtors) \in Nat /\ Cardinality(s.debtors) >= 1
       /\ Cardinality(C) = IF rest[c] <= Tolerance THEN Cardinality(s.creditors) - 1 ELSE Cardinality(s.creditors)
       /\ Cardinality(D) = IF rest[d] <= Tolerance THEN Cardinality(s.debtors) - 1 ELSE Cardinality(s.debtors)
  <2>1. IsFiniteSet(s.creditors) /\ IsFiniteSet(s.debtors)
    BY <1>2, FS_Subset DEF Nets
  <2>2. (rest[c] <= Tolerance) \in BOOLEAN /\ (rest[d] <= Tolerance) \in BOOLEAN
    OBVIOUS
  <2>. QED
    BY <1>5, <1>6, <2>1, <2>2, RestIsLess
<1>16. Cardinality(C) + Cardinality(D) + 1 <= Cardinality(s.creditors) + Cardinality(s.debtors)
  BY <1>0, <1>14, <1>15
<1>17. PICK n \in Int : n = Cardinality(Lent(M, net)) + Cardinality(Owing(M, net))
  <2>1. IsFiniteSet(Lent(M, net)) /\ IsFiniteSet(Owing(M, net))
    BY FS_Subset DEF Nets, Lent, Owing
  <2>. QED
    BY <2>1, FS_CardinalityType
<1>18. /\ Len(q) + Cardinality(C) + Cardinality(D) <= n
       /\ Len(q) < n
  <2>1. Len(s.transfers) + Cardinality(s.creditors) + Cardinality(s.debtors) <= n
    BY <1>3, <1>17 DEF TallySound
  <2>2. PICK x \in Nat, y \in Nat : x = Cardinality(s.creditors) /\ y = Cardinality(s.debtors)
    BY <1>15
  <2>3. PICK v \in Nat, w \in Nat : v = Cardinality(C) /\ w = Cardinality(D)
    BY <1>15
  <2>4. PICK l \in Nat : l = Len(s.transfers)
    BY <1>12
  <2>5. x >= 1 /\ y >= 1 /\ v + w + 1 <= x + y /\ l + x + y <= n
    BY <1>15, <1>16, <2>1, <2>2, <2>3, <2>4
  <2>6. l + 1 + v + w <= n /\ l + 1 < n
    BY <2>5
  <2>. QED
    BY <1>12, <2>3, <2>4, <2>6
<1>19. \A i \in DOMAIN q : q[i].from \in Owing(M, net) /\ q[i].to \in Lent(M, net)
  BY <1>3, <1>10, <1>11, <1>12 DEF TallySound
<1>20. ASSUME NEW t \in M
       PROVE  rest[t] >= 0 /\ (t \in C \cup D <=> rest[t] > Tolerance)
  <2>1. s.left[t] >= 0 /\ (t \in s.creditors \cup s.debtors <=> s.left[t] > Tolerance) /\ s.left[t] \in Int
    BY <1>2, <1>3 DEF TallySound
  <2>2. CASE t = c
    <3>1. c \notin D
      BY <1>0, <1>3, <1>10, <1>13 DEF TallySound, Lent, Owing, Nets
    <3>. QED
      BY <1>0, <1>taken, <1>5, <2>1, <2>2, <3>1
  <2>3. CASE t = d
    <3>1. d \notin C
      BY <1>0, <1>3, <1>10, <1>13 DEF TallySound, Lent, Owing, Nets
    <3>. QED
      BY <1>0, <1>taken, <1>6, <2>1, <2>3, <3>1
  <2>4. CASE t # c /\ t # d
    BY <1>taken, <1>5, <1>6, <2>1, <2>4
  <2>. QED
    BY <2>2, <2>3, <2>4
<1>21. ASSUME NEW t \in M
       PROVE  HoldsAfter(t, net, q) = IF net[t] >= 0 THEN rest[t] ELSE -rest[t]
  <2>0. PICK x : x = s.transfers
    OBVIOUS
  <2>1. net[t] \in Int /\ x \in Seq(Handovers(M)) /\ h \in Handovers(M) /\ OneMore(x, h, q)
    BY <1>2, <1>8, <1>11, <2>0 DEF Nets, OneMore
  <2>a. HoldsAfter(t, net, x) \in Int /\ HoldsAfter(t, net, q) = HoldsAfter(t, net, x) + Gains(t, h)
    <3>1. HoldsAfter(t, net, q) = HoldsAfter(t, net, x) + Gains(t, h)
      BY <2>1, HoldsAfterOneMore
    <3>2. HoldsAfter(t, net, x) \in Int
      BY <2>1, HoldsAfterOneMore
    <3>. QED
      BY <3>1, <3>2
  <2>b. PICK was \in Int : was = HoldsAfter(t, net, s.transfers)
    BY <2>0, <2>a
  <2>2. HoldsAfter(t, net, q) = was + (IF d = t THEN a ELSE 0) - (IF c = t THEN a ELSE 0)
    <3>1. HoldsAfter(t, net, q) = was + ((IF d = t THEN a ELSE 0) - (IF c = t THEN a ELSE 0))
      BY <1>11, <2>0, <2>a, <2>b DEF Gains
    <3>. QED
      BY <3>1
  <2>3. was = (IF net[t] >= 0 THEN s.left[t] ELSE -s.left[t]) /\ s.left[t] \in Int /\ net[t] \in Int
    BY <1>2, <1>3, <2>b DEF TallySound, Nets
  <2>4. CASE t = c
    <3>1. net[t] >= 0
      BY <1>0, <1>10, <2>3, <2>4 DEF Lent
    <3>. QED
      BY <1>taken, <2>2, <2>3, <2>4, <3>1
  <2>5. CASE t = d
    <3>1. ~(net[t] >= 0)
      BY <1>0, <1>10, <2>3, <2>5 DEF Owing
    <3>. QED
      BY <1>taken, <2>2, <2>3, <2>5, <3>1
  <2>6. CASE t # c /\ t # d
    BY <1>taken, <2>2, <2>3, <2>6
  <2>. QED
    BY <2>4, <2>5, <2>6
<1>22. PICK e : e = [creditors |-> C, debtors |-> D, left |-> rest, transfers |-> q]
  OBVIOUS
<1>23. e.creditors = C /\ e.debtors = D /\ e.left = rest /\ e.transfers = q
  BY <1>22
<1>24. TallySound(M, net, e)
  <2>1. C \subseteq Lent(M, net) /\ D \subseteq Owing(M, net)
    BY <1>3, <1>13 DEF TallySound
  <2>. QED
    BY <1>17, <1>18, <1>19, <1>20, <1>21, <1>23, <2>1 DEF TallySound
<1>25. e \in Tallies(M)
  BY <1>2, <1>12, <1>13, <1>22 DEF Tallies
<1>. QED
  BY <1>9, <1>16, <1>22, <1>23, <1>24, <1>25 DEF SoundTallies

\* Nobody yet has given or got anything.
StartTally(net) ==
    [creditors |-> {t \in DOMAIN net : net[t] > Tolerance},
     debtors |-> {t \in DOMAIN net : net[t] < -Tolerance},
     left |-> [t \in DOMAIN net |-> Size(net[t])], transfers |-> <<>>]
Turns(M, group, net) == [e \in SoundTallies(M, net) \X M |-> Turn(e[1], net, group)]

LEMMA FirstTallyIsSound ==
  ASSUME NEW M, NEW group, NEW net, Nets(M, group, net)
  PROVE  /\ StartTally(net) \in SoundTallies(M, net)
         /\ Cardinality(StartTally(net).creditors) + Cardinality(StartTally(net).debtors) <= Cardinality(M)
         /\ IsFiniteSet(Lent(M, net)) /\ IsFiniteSet(Owing(M, net)) /\ Lent(M, net) \cap Owing(M, net) = {}
         /\ Cardinality(Lent(M, net)) + Cardinality(Owing(M, net)) <= Cardinality(M)
<1>0. Tolerance \in Nat /\ IsFiniteSet(M) /\ net \in [M -> Int]
  BY LedgerAssumption DEF Nets
<1>1. PICK s : s = StartTally(net)
  OBVIOUS
<1>2. /\ s = [creditors |-> Lent(M, net), debtors |-> Owing(M, net), left |-> [t \in M |-> Size(net[t])],
              transfers |-> <<>>]
  BY <1>0, <1>1 DEF StartTally, Lent, Owing
<1>3. PICK C : C = Lent(M, net)
  OBVIOUS
<1>4. PICK D : D = Owing(M, net)
  OBVIOUS
<1>5. C \subseteq M /\ D \subseteq M /\ C \cap D = {} /\ \A t \in C : t \notin D
  BY <1>0, <1>3, <1>4 DEF Lent, Owing
<1>6. IsFiniteSet(C) /\ IsFiniteSet(D)
  BY <1>0, <1>5, FS_Subset
<1>7. Cardinality(C) + Cardinality(D) <= Cardinality(M) /\ Cardinality(C) \in Nat /\ Cardinality(D) \in Nat
  <2>1. Cardinality(C \cup D) = Cardinality(C) + Cardinality(D) - Cardinality(C \cap D)
    BY <1>6, FS_Union
  <2>2. Cardinality(C \cap D) = 0
    BY <1>5, FS_EmptySet
  <2>3. C \cup D \subseteq M /\ Cardinality(C \cup D) <= Cardinality(M)
    <3>1. C \cup D \subseteq M
      BY <1>5
    <3>. QED
      BY <1>0, <3>1, FS_Subset
  <2>4. Cardinality(C) \in Nat /\ Cardinality(D) \in Nat
    BY <1>6, FS_CardinalityType
  <2>. QED
    BY <2>1, <2>2, <2>3, <2>4
<1>8. s \in Tallies(M)
  <2>1. [t \in M |-> Size(net[t])] \in [M -> Int]
    BY <1>0 DEF Size
  <2>2. <<>> \in Seq(Handovers(M))
    OBVIOUS
  <2>3. Lent(M, net) \in SUBSET M /\ Owing(M, net) \in SUBSET M
    BY <1>3, <1>4, <1>5
  <2>. QED
    BY <1>2, <2>1, <2>2, <2>3 DEF Tallies
<1>9. TallySound(M, net, s)
  <2>1. \A t \in M : Size(net[t]) >= 0 /\ (t \in Lent(M, net) \cup Owing(M, net) <=> Size(net[t]) > Tolerance)
    BY <1>0 DEF Size, Lent, Owing
  <2>2. \A t \in M : HoldsAfter(t, net, <<>>) = IF net[t] >= 0 THEN Size(net[t]) ELSE -Size(net[t])
    <3>1. \A t \in M : HoldsAfter(t, net, <<>>) = net[t] /\ net[t] \in Int
      BY <1>0, HoldsNothingYet
    <3>. QED
      BY <3>1 DEF Size
  <2>3. Len(<<>>) = 0 /\ DOMAIN <<>> = {}
    OBVIOUS
  <2>4. 0 + Cardinality(Lent(M, net)) + Cardinality(Owing(M, net))
          <= Cardinality(Lent(M, net)) + Cardinality(Owing(M, net))
    BY <1>3, <1>4, <1>7
  <2>5. s.creditors = Lent(M, net) /\ s.debtors = Owing(M, net) /\ s.transfers = <<>>
        /\ \A t \in M : s.left[t] = Size(net[t])
    BY <1>2
  <2>. QED
    BY <2>1, <2>2, <2>3, <2>4, <2>5 DEF TallySound
<1>. QED
  BY <1>1, <1>2, <1>3, <1>4, <1>5, <1>6, <1>7, <1>8, <1>9 DEF SoundTallies

LEMMA SettleFolds ==
  ASSUME NEW M, NEW group, NEW net, Nets(M, group, net)
  PROVE  /\ Foldable(SoundTallies(M, net), M, Turns(M, group, net), StartTally(net), group)
         /\ Settle(group, net) =
              Folded(SoundTallies(M, net), Turns(M, group, net), StartTally(net), group).transfers
<1>0. group \in Seq(M)
  BY DEF Nets
<1>1. PICK b : b = StartTally(net)
  OBVIOUS
<1>. DEFINE Dom == DOMAIN group
            A == SoundTallies(M, net)
            After(s, x) == Turn(s, net, group)
            Eqn(f) == f = [T \in SUBSET Dom |-> IF T = {} THEN b ELSE After(f[T \ {Max(T)}], group[Max(T)])]
            F == CHOOSE f : Eqn(f)
<1>2. Settle(group, net) = F[Dom].transfers
  BY <1>1 DEF Settle, FoldLeft, MapThenFoldSet, StartTally
<1>3. Dom = 1 .. Len(group) /\ Len(group) \in Nat /\ \A i \in Dom : group[i] \in M
  BY <1>0
<1>. HIDE DEF Dom
<1>4. PICK g : g = Turns(M, group, net)
  OBVIOUS
<1>5. \A s \in A, x \in M : After(s, x) \in A
  BY TurnIsSound
<1>6. g \in [A \X M -> A] /\ \A s \in A, x \in M : g[<<s, x>>] = After(s, x)
  BY <1>4, <1>5 DEF Turns
<1>. HIDE DEF After
<1>7. b \in A
  BY <1>1, FirstTallyIsSound
<1>8. Foldable(A, M, g, b, group)
  BY <1>0, <1>6, <1>7 DEF Foldable
<1>. HIDE DEF A
<1>9. \A T \in SUBSET Dom : T # {} => group[Max(T)] \in M
  <2>1. \A T \in SUBSET Dom : T # {} => Max(T) \in T
    BY <1>3, MaxIsOne
  <2>. QED
    BY <1>3, <2>1
<1>10. \E f : Eqn(f)
  <2>1. PICK f : IsLeftFold(A, g, b, group, f)
    BY <1>8, LeftFoldExists
  <2>2. /\ f \in [SUBSET Dom -> A] /\ f[{}] = b
        /\ \A T \in SUBSET Dom : T # {} => f[T] = g[<<f[T \ {Max(T)}], group[Max(T)]>>]
    BY <1>3, <2>1 DEF IsLeftFold
  <2>3. ASSUME NEW T \in SUBSET Dom, T # {} PROVE f[T] = After(f[T \ {Max(T)}], group[Max(T)])
    BY <1>6, <1>9, <2>2, <2>3
  <2>4. Eqn(f)
    BY <2>2, <2>3
  <2>. QED
    BY <2>4
<1>11. Eqn(F)
  BY <1>10
<1>. HIDE DEF F
<1>12. ASSUME NEW T \in SUBSET Dom, T # {}, F[T \ {Max(T)}] \in A
       PROVE  F[T] = g[<<F[T \ {Max(T)}], group[Max(T)]>>]
  <2>1. F[T] = After(F[T \ {Max(T)}], group[Max(T)])
    BY <1>11, <1>12
  <2>. QED
    BY <1>6, <1>9, <1>12, <2>1
<1>13. F[{}] = b
  BY <1>11
<1>14. FoldsLeft(A, g, b, group, F)
  BY <1>3, <1>12, <1>13 DEF FoldsLeft
<1>15. F[1 .. Len(group)] = Folded(A, g, b, group)
  BY <1>8, <1>14, LeftFoldRuns
<1>. QED
  BY <1>1, <1>2, <1>3, <1>4, <1>8, <1>15 DEF A

\* As many turns as there are people leave nobody on one of the sides.
LEMMA OneSideIsDone ==
  ASSUME NEW M, NEW group, NEW net, Nets(M, group, net), Cardinality(M) <= Len(group)
  PROVE  \E s \in SoundTallies(M, net) : /\ Settle(group, net) = s.transfers
                                         /\ s.creditors = {} \/ s.debtors = {}
<1>. DEFINE A == SoundTallies(M, net)
            g == Turns(M, group, net)
            b == StartTally(net)
            After(q) == Folded(A, g, b, q)
            G == {q \in Seq(M) : \/ After(q).creditors = {} \/ After(q).debtors = {}
                                 \/ Cardinality(After(q).creditors) + Cardinality(After(q).debtors) + Len(q)
                                      <= Cardinality(M)}
<1>0. group \in Seq(M) /\ Cardinality(M) \in Nat
  BY FS_CardinalityType DEF Nets
<1>1. Foldable(A, M, g, b, group) /\ Settle(group, net) = After(group).transfers
  BY SettleFolds
<1>2. g \in [A \X M -> A] /\ b \in A
  BY <1>1 DEF Foldable
<1>3. \A s \in A, x \in M : g[<<s, x>>] = Turn(s, net, group)
  BY DEF Turns
<1>4. \A s \in A : /\ IsFiniteSet(s.creditors) /\ Cardinality(s.creditors) \in Nat
                   /\ IsFiniteSet(s.debtors) /\ Cardinality(s.debtors) \in Nat
  <2>1. \A s \in A : s.creditors \subseteq M /\ s.debtors \subseteq M
    BY DEF SoundTallies, Tallies
  <2>2. IsFiniteSet(M)
    BY DEF Nets
  <2>. QED
    BY <2>1, <2>2, FS_Subset, FS_CardinalityType
<1>. HIDE DEF A, g
<1>5. <<>> \in G
  <2>1. After(<<>>) = b
    BY <1>2, FoldedEmpty
  <2>2. Cardinality(b.creditors) + Cardinality(b.debtors) <= Cardinality(M)
    BY FirstTallyIsSound
  <2>3. Cardinality(b.creditors) \in Nat /\ Cardinality(b.debtors) \in Nat
    BY <1>2, <1>4
  <2>4. Cardinality(b.creditors) + Cardinality(b.debtors) + 0 <= Cardinality(M)
    BY <2>2, <2>3
  <2>5. <<>> \in Seq(M) /\ Len(<<>>) = 0
    OBVIOUS
  <2>. HIDE DEF After, b
  <2>. QED
    BY <2>1, <2>4, <2>5
<1>6. ASSUME NEW q \in Seq(M), NEW t \in M, q \in G
      PROVE  Append(q, t) \in G
  <2>1. Foldable(A, M, g, b, q)
    BY <1>2 DEF Foldable
  <2>2. PICK s : s = After(q)
    OBVIOUS
  <2>3. s \in A
    BY <2>1, <2>2, FoldedType
  <2>4. PICK e : e = Turn(s, net, group)
    OBVIOUS
  <2>5. After(Append(q, t)) = e
    <3>1. Folded(A, g, b, Append(q, t)) = g[<<Folded(A, g, b, q), t>>]
      BY <2>1, FoldedAppend
    <3>2. g[<<s, t>>] = Turn(s, net, group)
      BY <1>3, <2>3
    <3>. QED
      BY <2>2, <2>4, <3>1, <3>2
  <2>6. e \in A /\ (e.creditors # {} /\ e.debtors # {} =>
                      Cardinality(e.creditors) + Cardinality(e.debtors) + 1
                          <= Cardinality(s.creditors) + Cardinality(s.debtors))
    BY <2>3, <2>4, TurnIsSound DEF A
  <2>7. e.creditors # {} /\ e.debtors # {} => s.creditors # {} /\ s.debtors # {}
    BY <2>4 DEF Turn
  <2>8. Append(q, t) \in Seq(M) /\ Len(Append(q, t)) = Len(q) + 1 /\ Len(q) \in Nat
    OBVIOUS
  <2>9. \/ s.creditors = {} \/ s.debtors = {}
        \/ Cardinality(s.creditors) + Cardinality(s.debtors) + Len(q) <= Cardinality(M)
    BY <1>6, <2>2
  <2>10. \/ e.creditors = {} \/ e.debtors = {}
         \/ Cardinality(e.creditors) + Cardinality(e.debtors) + (Len(q) + 1) <= Cardinality(M)
    <3>1. /\ Cardinality(s.creditors) \in Nat /\ Cardinality(s.debtors) \in Nat
          /\ Cardinality(e.creditors) \in Nat /\ Cardinality(e.debtors) \in Nat
      BY <1>4, <2>3, <2>6
    <3>. QED
      BY <1>0, <2>6, <2>7, <2>8, <2>9, <3>1
  <2>. HIDE DEF After
  <2>. QED
    BY <2>5, <2>8, <2>10
<1>7. group \in G
  <2>1. Seq(M) \subseteq G
    <3>. HIDE DEF G
    <3>. QED
      BY <1>5, <1>6, InductionOnSeq
  <2>. QED
    BY <1>0, <2>1
<1>8. PICK s : s = After(group)
  OBVIOUS
<1>9. s \in A
  BY <1>1, <1>8, FoldedType
<1>10. s.creditors = {} \/ s.debtors = {}
  <2>1. \/ s.creditors = {} \/ s.debtors = {}
        \/ Cardinality(s.creditors) + Cardinality(s.debtors) + Len(group) <= Cardinality(M)
    BY <1>7, <1>8
  <2>2. /\ Cardinality(s.creditors) \in Nat /\ (s.creditors # {} => Cardinality(s.creditors) # 0)
        /\ Cardinality(s.debtors) \in Nat
    BY <1>4, <1>9, FS_EmptySet
  <2>3. Len(group) \in Nat
    BY <1>0
  <2>. QED
    BY <1>0, <2>1, <2>2, <2>3
<1>. QED
  BY <1>1, <1>8, <1>9, <1>10 DEF A

\* What changes hands stays among them.
Holdings(M, net, s) == [t \in M |-> HoldsAfter(t, net, s)]

LEMMA HeldAltogether ==
  ASSUME NEW M, IsFiniteSet(M), NEW net \in [M -> Int], NEW s \in Seq(Handovers(M))
  PROVE  /\ \A t \in M : HoldsAfter(t, net, s) \in Int
         /\ SetSum(Holdings(M, net, s), M) = SetSum(net, M)
<1>. DEFINE Held(q) == [t \in M |-> HoldsAfter(t, net, q)]
            G == {q \in Seq(Handovers(M)) : /\ \A t \in M : Held(q)[t] \in Int
                                            /\ SetSum(Held(q), M) = SetSum(net, M)}
<1>1. <<>> \in G
  <2>1. \A t \in M : net[t] \in Int /\ Held(<<>>)[t] = net[t]
    BY HoldsNothingYet
  <2>2. SetSum(Held(<<>>), M) = SetSum(net, M)
    <3>. HIDE DEF Held
    <3>. QED
      BY <2>1, SumSame
  <2>. HIDE DEF Held
  <2>. QED
    BY <2>1, <2>2
<1>2. ASSUME NEW q \in Seq(Handovers(M)), NEW e \in Handovers(M), q \in G
      PROVE  Append(q, e) \in G
  <2>1. PICK r : r = Append(q, e)
    OBVIOUS
  <2>2. r \in Seq(Handovers(M)) /\ OneMore(q, e, r)
    BY <2>1 DEF OneMore
  <2>3. e.from \in M /\ e.to \in M /\ e.amount \in Int
    BY DEF Handovers
  <2>4. ASSUME NEW t \in M PROVE Held(r)[t] = Held(q)[t] + Gains(t, e) /\ Held(q)[t] \in Int
    <3>1. net[t] \in Int /\ q \in Seq(Handovers(M)) /\ e \in Handovers(M)
      OBVIOUS
    <3>2. HoldsAfter(t, net, r) = HoldsAfter(t, net, q) + Gains(t, e)
      BY <2>2, <3>1, HoldsAfterOneMore
    <3>. QED
      BY <1>2, <3>2
  <2>5. PICK v : v = Held(q)
    OBVIOUS
  <2>6. PICK w : w = Held(r)
    OBVIOUS
  <2>7. \A t \in M : v[t] \in Int /\ w[t] = v[t] + Gains(t, e)
    BY <2>4, <2>5, <2>6
  <2>8. SetSum(v, M) = SetSum(net, M)
    BY <1>2, <2>5
  <2>. HIDE DEF Held
  <2>9. CASE e.from = e.to
    <3>1. \A t \in M : v[t] \in Int /\ w[t] = v[t]
      BY <2>3, <2>7, <2>9 DEF Gains
    <3>2. SetSum(w, M) = SetSum(v, M)
      BY <3>1, SumSame
    <3>. QED
      BY <2>1, <2>2, <2>6, <2>8, <3>1, <3>2
  <2>10. CASE e.from # e.to
    <3>1. PICK c \in M, d \in M, a \in Int : c = e.to /\ d = e.from /\ a = e.amount
      BY <2>3
    <3>2. /\ \A t \in M : v[t] \in Int
          /\ w[c] = v[c] - a /\ w[d] = v[d] + a /\ \A t \in M : t # c /\ t # d => w[t] = v[t]
      <4>1. /\ Gains(c, e) = 0 - a /\ Gains(d, e) = a - 0
            /\ \A t \in M : t # c /\ t # d => Gains(t, e) = 0
        BY <2>10, <3>1 DEF Gains
      <4>2. \A t \in M : v[t] \in Int /\ w[t] = v[t] + Gains(t, e)
        BY <2>7
      <4>3. w[c] = v[c] + (0 - a) /\ w[d] = v[d] + (a - 0) /\ v[c] \in Int /\ v[d] \in Int
        BY <4>1, <4>2
      <4>4. w[c] = v[c] - a /\ w[d] = v[d] + a
        BY <3>1, <4>3
      <4>5. \A t \in M : t # c /\ t # d => w[t] = v[t]
        BY <4>1, <4>2
      <4>. QED
        BY <4>2, <4>4, <4>5
    <3>3. SetSum(w, M) = SetSum(v, M)
      <4>1. c # d
        BY <2>10, <3>1
      <4>2. PICK x : x = v
        OBVIOUS
      <4>3. PICK y : y = w
        OBVIOUS
      <4>4. /\ \A t \in M : x[t] \in Int
            /\ y[c] = x[c] - a /\ y[d] = x[d] + a /\ \A t \in M : t # c /\ t # d => y[t] = x[t]
        BY <3>2, <4>2, <4>3
      <4>5. SetSum(y, M) = SetSum(x, M)
        BY <4>1, <4>4, SumOfMove
      <4>. QED
        BY <4>2, <4>3, <4>5
    <3>4. \A t \in M : w[t] \in Int
      BY <3>1, <3>2
    <3>. QED
      BY <2>1, <2>2, <2>6, <2>8, <3>3, <3>4
  <2>. QED
    BY <2>9, <2>10
<1>3. Seq(Handovers(M)) \subseteq G
  <2>. HIDE DEF G
  <2>. QED
    BY <1>1, <1>2, InductionOnSeq
<1>. QED
  BY <1>3 DEF Holdings

\* What adds up to nothing and is nowhere more than c is nowhere far below.
LEMMA OnlyDust ==
  ASSUME NEW M, IsFiniteSet(M), NEW v, NEW c \in Nat, \A t \in M : v[t] \in Int /\ v[t] <= c,
         SetSum(v, M) = 0, NEW t \in M
  PROVE  v[t] <= c * (Cardinality(M) - 1) /\ -v[t] <= c * (Cardinality(M) - 1)
<1>1. PICK R : R = M \ {t}
  OBVIOUS
<1>2. IsFiniteSet(R) /\ Cardinality(R) = Cardinality(M) - 1 /\ Cardinality(R) \in Nat
  BY <1>1, FS_RemoveElement, FS_CardinalityType
<1>3. PICK n \in Nat : n = Cardinality(R) /\ n = Cardinality(M) - 1
  BY <1>2
<1>4. \A x \in R : v[x] \in Int /\ v[x] <= c
  BY <1>1
<1>5. SetSum(v, M) = SetSum(v, R) + v[t]
  BY <1>1, SumRemove
<1>6. PICK r \in Int : r = SetSum(v, R)
  BY <1>2, <1>4, SumType
<1>7. r <= c * n
  <2>1. SetSum(v, R) <= c * Cardinality(R)
    BY <1>2, <1>4, SumAtMost
  <2>. QED
    BY <1>3, <1>6, <2>1
<1>8. n = 0 => r = 0
  <2>1. n = 0 => R = {}
    BY <1>2, <1>3, FS_EmptySet
  <2>. QED
    BY <1>6, <2>1, SumOfNothing
<1>9. PICK k \in Int : k = c * n
  OBVIOUS
<1>10. n >= 1 => c <= k
  <2>1. \A a \in Nat, b \in Nat : a <= a * (b + 1)
    <3>1. \A a \in Nat, b \in Nat : a * (b + 1) = a * b + a /\ a * b \in Nat
      OBVIOUS
    <3>. QED
      BY <3>1
  <2>2. n >= 1 => n - 1 \in Nat /\ n = (n - 1) + 1
    OBVIOUS
  <2>. QED
    BY <1>9, <2>1, <2>2
<1>11. n = 0 => k = 0
  BY <1>9
<1>12. r + v[t] = 0 /\ v[t] \in Int /\ v[t] <= c
  BY <1>5, <1>6
<1>13. v[t] <= k /\ -v[t] <= k
  BY <1>7, <1>8, <1>9, <1>10, <1>11, <1>12
<1>. QED
  BY <1>3, <1>9, <1>13

LEMMA SumOfOpposites ==
  ASSUME NEW S, IsFiniteSet(S), NEW v, NEW w, \A x \in S : v[x] \in Int /\ w[x] = -v[x]
  PROVE  SetSum(w, S) = 0 - SetSum(v, S)
<1>1. PICK z : z = [x \in S |-> 0]
  OBVIOUS
<1>2. SetSum(z, S) = 0 * Cardinality(S) /\ Cardinality(S) \in Nat
  BY <1>1, SumOfEqual, FS_CardinalityType
<1>3. \A x \in S : v[x] \in Int /\ w[x] \in Int /\ z[x] = v[x] + w[x]
  BY <1>1
<1>4. SetSum(z, S) = SetSum(v, S) + SetSum(w, S)
  BY <1>3, SumAdds
<1>5. SetSum(v, S) \in Int /\ SetSum(w, S) \in Int
  BY <1>3, SumType
<1>. QED
  BY <1>2, <1>4, <1>5

\* The transfers of a group whose balances are given.
LEMMA TransfersSettle ==
  ASSUME NEW M, NEW group, NEW net, Nets(M, group, net), Cardinality(M) = Len(group), M # {}
  PROVE  LET transfers == Settle(group, net)
         IN  /\ \A i, j \in DOMAIN transfers : transfers[i].from # transfers[j].to
             /\ Len(transfers) <= Len(group) - 1
             /\ SetSum(net, M) = 0 => \A t \in M :
                    Size(HoldsAfter(t, net, transfers)) <= Tolerance * (Len(group) - 1)
<1>0. Tolerance \in Nat /\ IsFiniteSet(M) /\ net \in [M -> Int]
  BY LedgerAssumption DEF Nets
<1>1. PICK s \in SoundTallies(M, net) : Settle(group, net) = s.transfers /\ (s.creditors = {} \/ s.debtors = {})
  <2>1. Cardinality(M) \in Nat
    BY <1>0, FS_CardinalityType
  <2>2. Cardinality(M) <= Len(group)
    BY <2>1
  <2>. QED
    BY <2>2, OneSideIsDone
<1>2. PICK q : q = s.transfers
  OBVIOUS
<1>3. q \in Seq(Handovers(M)) /\ s.left \in [M -> Int] /\ TallySound(M, net, s)
  BY <1>2 DEF SoundTallies, Tallies
<1>4. ASSUME NEW i \in DOMAIN q, NEW j \in DOMAIN q PROVE q[i].from # q[j].to
  <2>1. q[i].from \in Owing(M, net) /\ q[j].to \in Lent(M, net)
    BY <1>2, <1>3 DEF TallySound
  <2>2. Lent(M, net) \cap Owing(M, net) = {}
    BY FirstTallyIsSound
  <2>. QED
    BY <2>1, <2>2
<1>5. Len(q) <= Len(group) - 1
  <2>1. PICK m \in Nat : m = Cardinality(M) /\ m # 0
    BY <1>0, FS_CardinalityType, FS_EmptySet
  <2>2. PICK n \in Nat : n = Cardinality(Lent(M, net)) + Cardinality(Owing(M, net)) /\ n <= m
    BY <2>1, FirstTallyIsSound, FS_CardinalityType
  <2>3. q # <<>> => Len(q) < n
    BY <1>2, <1>3, <2>2 DEF TallySound
  <2>4. Len(q) \in Nat /\ (q = <<>> => Len(q) = 0)
    BY <1>3
  <2>. QED
    BY <2>1, <2>2, <2>3, <2>4
<1>6. ASSUME SetSum(net, M) = 0, NEW t \in M
      PROVE  Size(HoldsAfter(t, net, q)) <= Tolerance * (Len(group) - 1)
  <2>1. PICK v : v = Holdings(M, net, q)
    OBVIOUS
  <2>2. PICK w : w = [x \in M |-> -v[x]]
    OBVIOUS
  <2>3. SetSum(v, M) = 0 /\ \A x \in M : v[x] \in Int /\ w[x] \in Int /\ w[x] = -v[x]
    <3>1. SetSum(v, M) = SetSum(net, M)
      BY <1>0, <1>3, <2>1, HeldAltogether
    <3>2. \A x \in M : HoldsAfter(x, net, q) \in Int
      BY <1>0, <1>3, HeldAltogether
    <3>3. \A x \in M : v[x] = HoldsAfter(x, net, q) /\ w[x] = -v[x]
      BY <2>1, <2>2 DEF Holdings
    <3>. QED
      BY <1>6, <3>1, <3>2, <3>3
  <2>4. SetSum(w, M) = 0
    <3>1. SetSum(w, M) = 0 - SetSum(v, M)
      BY <1>0, <2>3, SumOfOpposites
    <3>2. 0 - 0 = 0
      OBVIOUS
    <3>. QED
      BY <2>3, <3>1, <3>2
  <2>5. ASSUME NEW x \in M
        PROVE  /\ s.left[x] \in Int /\ s.left[x] >= 0
               /\ s.creditors = {} /\ x \notin s.debtors => s.left[x] <= Tolerance
               /\ s.debtors = {} /\ x \notin s.creditors => s.left[x] <= Tolerance
               /\ v[x] = IF net[x] >= 0 THEN s.left[x] ELSE -s.left[x]
               /\ net[x] \in Int
               /\ x \in s.debtors => net[x] < 0
               /\ x \in s.creditors => net[x] >= 0
    <3>1. s.left[x] \in Int /\ net[x] \in Int /\ v[x] = HoldsAfter(x, net, s.transfers)
      BY <1>0, <1>2, <1>3, <2>1 DEF Holdings
    <3>2. s.left[x] >= 0 /\ (x \in s.creditors \cup s.debtors <=> s.left[x] > Tolerance)
          /\ v[x] = IF net[x] >= 0 THEN s.left[x] ELSE -s.left[x]
      BY <1>3, <3>1 DEF TallySound
    <3>3. (x \in s.debtors => net[x] < 0) /\ (x \in s.creditors => net[x] >= 0)
      BY <1>0, <1>3, <3>1 DEF TallySound, Lent, Owing
    <3>. QED
      BY <1>0, <3>1, <3>2, <3>3
  <2>6. \/ \A x \in M : v[x] <= Tolerance
        \/ \A x \in M : w[x] <= Tolerance
    <3>0. \A r \in Int : r >= 0 => -r <= Tolerance
      BY <1>0
    <3>1. CASE s.creditors = {}
      <4>1. ASSUME NEW x \in M PROVE v[x] <= Tolerance
        <5>1. CASE net[x] >= 0
          <6>1. x \notin s.debtors /\ v[x] = s.left[x]
            BY <2>5, <5>1
          <6>. QED
            BY <2>5, <3>1, <6>1
        <5>2. CASE ~(net[x] >= 0)
          BY <2>5, <3>0, <5>2
        <5>. QED
          BY <5>1, <5>2
      <4>. QED
        BY <4>1
    <3>2. CASE s.debtors = {}
      <4>1. ASSUME NEW x \in M PROVE w[x] <= Tolerance
        <5>1. CASE net[x] >= 0
          <6>1. w[x] = -s.left[x] /\ s.left[x] \in Int /\ s.left[x] >= 0
            BY <2>3, <2>5, <5>1
          <6>. QED
            BY <3>0, <6>1
        <5>2. CASE ~(net[x] >= 0)
          <6>1. x \notin s.creditors /\ v[x] = -s.left[x] /\ s.left[x] \in Int
            BY <2>5, <5>2
          <6>2. w[x] = s.left[x]
            BY <2>3, <6>1
          <6>. QED
            BY <2>5, <3>2, <6>1, <6>2
        <5>. QED
          BY <5>1, <5>2
      <4>. QED
        BY <4>1
    <3>. QED
      BY <1>1, <3>1, <3>2
  <2>7. /\ v[t] <= Tolerance * (Cardinality(M) - 1)
        /\ -v[t] <= Tolerance * (Cardinality(M) - 1)
    <3>1. CASE \A x \in M : v[x] <= Tolerance
      BY <1>0, <2>3, <3>1, OnlyDust
    <3>2. CASE \A x \in M : w[x] <= Tolerance
      <4>1. w[t] <= Tolerance * (Cardinality(M) - 1) /\ -w[t] <= Tolerance * (Cardinality(M) - 1)
        BY <1>0, <2>3, <2>4, <3>2, OnlyDust
      <4>. QED
        BY <2>3, <4>1
    <3>. QED
      BY <2>6, <3>1, <3>2
  <2>8. v[t] = HoldsAfter(t, net, q) /\ v[t] \in Int
    BY <2>1, <2>3 DEF Holdings
  <2>. QED
    BY <2>7, <2>8 DEF Size
<1>. QED
  BY <1>1, <1>2, <1>4, <1>5, <1>6

LEMMA GroupHasMembers ==
  ASSUME NEW group \in Groups
  PROVE  /\ IsFiniteSet(Range(group)) /\ Cardinality(Range(group)) = Len(group) /\ Range(group) # {}
         /\ group \in Seq(Range(group)) /\ \A t \in Range(group) : \E i \in DOMAIN group : group[i] = t
         /\ \A S \in SUBSET Range(group) :
               IsFiniteSet(S) /\ (S # {} => Cardinality(S) \in 1 .. Cardinality(Travellers))
<1>1. group \in Seq(Travellers) /\ group # <<>> /\ IsInjective(group)
  BY DEF Groups
<1>2. PICK n \in Nat \ {0} : n = Len(group)
  BY <1>1
<1>3. DOMAIN group = 1 .. n /\ \A i \in 1 .. n : group[i] \in Travellers
  BY <1>1, <1>2
<1>4. PICK M : M = Range(group)
  OBVIOUS
<1>5. /\ \A i \in 1 .. n : group[i] \in M
      /\ \A t \in M : \E i \in 1 .. n : group[i] = t
      /\ M \subseteq Travellers
  BY <1>3, <1>4 DEF Range
<1>6. group \in Seq(M)
  BY <1>1, <1>2, <1>3, <1>5
<1>7. group \in Surjection(1 .. n, M) /\ group \in Injection(1 .. n, M)
  <2>1. group \in [1 .. n -> M]
    BY <1>2, <1>6
  <2>2. \A i, j \in 1 .. n : group[i] = group[j] => i = j
    BY <1>1, <1>3 DEF IsInjective
  <2>. QED
    BY <1>5, <2>1, <2>2 DEF Surjection, Injection, IsInjective
<1>8. IsFiniteSet(1 .. n) /\ Cardinality(1 .. n) = n
  BY FS_Interval
<1>9. IsFiniteSet(M) /\ Cardinality(M) = n
  BY <1>7, <1>8, FS_Surjection
<1>10. group[1] \in M
  BY <1>5
<1>11. IsFiniteSet(Travellers)
  <2>1. IsFiniteSet(People) /\ IsFiniteSet({"t1", "t2"})
    <3>1. IsFiniteSet({"t1"})
      BY FS_Singleton
    <3>2. IsFiniteSet({"t1"} \cup {"t2"})
      BY <3>1, FS_AddElement
    <3>3. {"t1"} \cup {"t2"} = {"t1", "t2"}
      OBVIOUS
    <3>. QED
      BY <3>2, <3>3, TripAssumption
  <2>. QED
    BY <2>1, FS_Union DEF Travellers
<1>12. ASSUME NEW S \in SUBSET M
       PROVE  IsFiniteSet(S) /\ (S # {} => Cardinality(S) \in 1 .. Cardinality(Travellers))
  <2>1. IsFiniteSet(S)
    BY <1>9, FS_Subset
  <2>2. Cardinality(S) \in Nat /\ (S # {} => Cardinality(S) # 0)
    BY <2>1, FS_CardinalityType, FS_EmptySet
  <2>3. S \subseteq Travellers /\ Cardinality(S) <= Cardinality(Travellers) /\ Cardinality(Travellers) \in Nat
    <3>1. S \subseteq Travellers
      BY <1>5
    <3>. QED
      BY <1>11, <3>1, FS_Subset, FS_CardinalityType
  <2>. QED
    BY <2>1, <2>2, <2>3
<1>. QED
  BY <1>2, <1>3, <1>4, <1>5, <1>6, <1>9, <1>10, <1>12

\* Expenses of a notebook.
Expenses(E) == IsFiniteSet(E) /\ \A e \in E : e.amount \in Amounts /\ e.category \in Categories

ShareOf(E, group) == [e \in E |-> e.amount \div Cardinality(Sharers(e, group))]

PaidBy(t, E, group)   == {e \in Counted(E, group) : e.paidBy = t}
SharedBy(t, E, group) == {e \in Counted(E, group) : t \in Sharers(e, group)}

\* A share is a whole amount, and as many as share an expense pay it.
LEMMA SharesAreWhole ==
  ASSUME NEW group \in Groups, NEW E, Expenses(E)
  PROVE  /\ Counted(E, group) \subseteq E /\ IsFiniteSet(Counted(E, group))
         /\ \A e \in E : AmountOf(E)[e] = e.amount /\ e.amount \in Nat
         /\ \A e \in Counted(E, group) :
               /\ ShareOf(E, group)[e] \in Nat
               /\ e.amount = ShareOf(E, group)[e] * Cardinality(Sharers(e, group))
<1>1. Counted(E, group) \subseteq E
  BY DEF Counted
<1>2. IsFiniteSet(Counted(E, group))
  BY <1>1, FS_Subset DEF Expenses
<1>3. \A e \in E : AmountOf(E)[e] = e.amount /\ e.amount \in Nat
  BY PageAssumption DEF Expenses, AmountOf
<1>4. ASSUME NEW e \in Counted(E, group)
      PROVE  /\ ShareOf(E, group)[e] \in Nat
             /\ e.amount = ShareOf(E, group)[e] * Cardinality(Sharers(e, group))
  <2>1. Sharers(e, group) \in SUBSET Range(group) /\ Sharers(e, group) # {}
    BY DEF Counted, Sharers
  <2>2. PICK k : k = Cardinality(Sharers(e, group))
    OBVIOUS
  <2>3. k \in 1 .. Cardinality(Travellers)
    BY <2>1, <2>2, GroupHasMembers
  <2>4. PICK a : a = e.amount
    OBVIOUS
  <2>5. a \in Nat /\ a % k = 0
    BY <1>1, <2>3, <2>4, PageAssumption DEF Expenses
  <2>6. k \in Nat \ {0}
    <3>1. Cardinality(Travellers) \in Int \/ Cardinality(Travellers) \notin Int
      OBVIOUS
    <3>. QED
      BY <2>3
  <2>7. a = k * (a \div k) /\ a \div k \in Nat
    BY <2>5, <2>6
  <2>8. ShareOf(E, group)[e] = a \div k
    BY <1>1, <2>2, <2>4 DEF ShareOf
  <2>9. \A x \in Nat, y \in Nat : x * y = y * x
    OBVIOUS
  <2>. QED
    BY <2>2, <2>4, <2>6, <2>7, <2>8, <2>9
<1>. QED
  BY <1>1, <1>2, <1>3, <1>4

LEMMA PaidAndOwed ==
  ASSUME NEW group \in Groups, NEW E, Expenses(E), NEW t
  PROVE  /\ Paid(t, E, group) = SetSum(AmountOf(E), PaidBy(t, E, group))
         /\ Paid(t, E, group) \in Nat
         /\ Owed(t, E, group) = SetSum(ShareOf(E, group), SharedBy(t, E, group))
         /\ Owed(t, E, group) \in Nat
<1>1. ASSUME NEW S, S \subseteq Counted(E, group)
      PROVE  /\ SumOver(S, AmountOf(E)) = SetSum(AmountOf(E), S) /\ SetSum(AmountOf(E), S) \in Nat
             /\ SumOver(S, ShareOf(E, group)) = SetSum(ShareOf(E, group), S)
             /\ SetSum(ShareOf(E, group), S) \in Nat
  <2>1. IsFiniteSet(S)
    BY <1>1, SharesAreWhole, FS_Subset
  <2>2. \A e \in S : AmountOf(E)[e] \in Nat /\ AmountOf(E)[e] \in Int
    BY <1>1, SharesAreWhole
  <2>3. \A e \in S : ShareOf(E, group)[e] \in Nat /\ ShareOf(E, group)[e] \in Int
    BY <1>1, SharesAreWhole
  <2>4. PICK v : v = AmountOf(E)
    OBVIOUS
  <2>5. PICK w : w = ShareOf(E, group)
    OBVIOUS
  <2>6. SumOver(S, v) = SetSum(v, S) /\ SetSum(v, S) \in Nat
    BY <2>1, <2>2, <2>4, SumOverIsSum, SumIsNatural
  <2>7. SumOver(S, w) = SetSum(w, S) /\ SetSum(w, S) \in Nat
    BY <2>1, <2>3, <2>5, SumOverIsSum, SumIsNatural
  <2>. QED
    BY <2>4, <2>5, <2>6, <2>7
<1>2. PICK A : A = PaidBy(t, E, group)
  OBVIOUS
<1>3. PICK B : B = SharedBy(t, E, group)
  OBVIOUS
<1>4. A \subseteq Counted(E, group) /\ B \subseteq Counted(E, group)
  BY <1>2, <1>3 DEF PaidBy, SharedBy
<1>5. Paid(t, E, group) = SumOver(A, AmountOf(E)) /\ Owed(t, E, group) = SumOver(B, ShareOf(E, group))
  BY <1>2, <1>3 DEF Paid, Owed, ShareOf, PaidBy, SharedBy
<1>. QED
  BY <1>1, <1>2, <1>3, <1>4, <1>5

\* Everything that is counted was paid by one of the group.
LEMMA AllIsPaid ==
  ASSUME NEW group \in Groups, NEW E, Expenses(E), \A e \in E : e.paidBy \in Range(group)
  PROVE  SetSum([t \in Range(group) |-> Paid(t, E, group)], Range(group)) = SetSum(AmountOf(E), Counted(E, group))
<1>. DEFINE M == Range(group)
            X == Counted(E, group)
<1>1. PICK R : R = {p \in M \X X : p[2].paidBy = p[1]}
  OBVIOUS
<1>2. \A t \in M, e \in X : <<t, e>> \in R <=> e.paidBy = t
  BY <1>1
<1>3. PICK v : v = AmountOf(E)
  OBVIOUS
<1>4. PICK u : u = [t \in M |-> Paid(t, E, group)]
  OBVIOUS
<1>5. IsFiniteSet(M) /\ IsFiniteSet(X) /\ X \subseteq E
  BY GroupHasMembers, SharesAreWhole
<1>6. \A e \in X : v[e] \in Int
  BY <1>3, <1>5, SharesAreWhole
<1>7. ASSUME NEW e \in X PROVE v[e] = v[e] * Cardinality(Having(M, e, R))
  <2>1. Having(M, e, R) = {e.paidBy}
    BY <1>2, <1>5 DEF Having
  <2>2. Cardinality({e.paidBy}) = 1
    BY FS_Singleton
  <2>3. v[e] = v[e] * 1
    BY <1>6
  <2>. QED
    BY <2>1, <2>2, <2>3
<1>8. ASSUME NEW t \in M PROVE u[t] = SetSum(v, Had(X, t, R))
  <2>1. Had(X, t, R) = PaidBy(t, E, group)
    BY <1>2 DEF Had, PaidBy
  <2>2. u[t] = Paid(t, E, group)
    BY <1>4
  <2>3. Paid(t, E, group) = SetSum(v, PaidBy(t, E, group))
    BY <1>3, PaidAndOwed
  <2>. QED
    BY <2>1, <2>2, <2>3
<1>. HIDE DEF M, X
<1>9. SetSum(u, M) = SetSum(v, X)
  <2>1. Exchange(M, X, R, v, v, u)
    BY <1>5, <1>6, <1>7, <1>8 DEF Exchange
  <2>. QED
    BY <2>1, SumsExchange
<1>. QED
  BY <1>3, <1>4, <1>9 DEF M, X

\* And is owed by those who share it.
LEMMA AllIsOwed ==
  ASSUME NEW group \in Groups, NEW E, Expenses(E)
  PROVE  SetSum([t \in Range(group) |-> Owed(t, E, group)], Range(group)) = SetSum(AmountOf(E), Counted(E, group))
<1>. DEFINE M == Range(group)
            X == Counted(E, group)
<1>1. PICK R : R = {p \in M \X X : p[1] \in Sharers(p[2], group)}
  OBVIOUS
<1>2. \A t \in M, e \in X : <<t, e>> \in R <=> t \in Sharers(e, group)
  BY <1>1
<1>3. PICK v : v = ShareOf(E, group)
  OBVIOUS
<1>4. PICK u : u = [t \in M |-> Owed(t, E, group)]
  OBVIOUS
<1>5. PICK w : w = AmountOf(E)
  OBVIOUS
<1>6. IsFiniteSet(M) /\ IsFiniteSet(X) /\ X \subseteq E
  BY GroupHasMembers, SharesAreWhole
<1>7. \A e \in X : v[e] \in Int
  BY <1>3, SharesAreWhole
<1>8. ASSUME NEW e \in X PROVE w[e] = v[e] * Cardinality(Having(M, e, R))
  <2>1. Having(M, e, R) = Sharers(e, group)
    BY <1>2 DEF Sharers, Having
  <2>2. w[e] = e.amount /\ e.amount = v[e] * Cardinality(Sharers(e, group))
    BY <1>3, <1>5, <1>6, SharesAreWhole
  <2>. QED
    BY <2>1, <2>2
<1>9. ASSUME NEW t \in M PROVE u[t] = SetSum(v, Had(X, t, R))
  <2>1. Had(X, t, R) = SharedBy(t, E, group)
    BY <1>2 DEF Had, SharedBy
  <2>2. u[t] = Owed(t, E, group)
    BY <1>4
  <2>3. Owed(t, E, group) = SetSum(v, SharedBy(t, E, group))
    BY <1>3, PaidAndOwed
  <2>. QED
    BY <2>1, <2>2, <2>3
<1>. HIDE DEF M, X
<1>10. SetSum(u, M) = SetSum(w, X)
  <2>1. Exchange(M, X, R, v, w, u)
    BY <1>6, <1>7, <1>8, <1>9 DEF Exchange
  <2>. QED
    BY <2>1, SumsExchange
<1>. QED
  BY <1>4, <1>5, <1>10 DEF M, X

LEMMA BalancesAreNets ==
  ASSUME NEW group \in Groups, NEW E, Expenses(E)
  PROVE  /\ Nets(Range(group), group, ComputeBalances(E, group))
         /\ \A t \in Range(group) : ComputeBalances(E, group)[t] = Paid(t, E, group) - Owed(t, E, group)
<1>1. \A t \in Range(group) : ComputeBalances(E, group)[t] = Paid(t, E, group) - Owed(t, E, group)
  BY DEF ComputeBalances
<1>2. \A t \in Range(group) : Paid(t, E, group) - Owed(t, E, group) \in Int
  <2>1. \A t : Paid(t, E, group) \in Nat /\ Owed(t, E, group) \in Nat
    BY PaidAndOwed
  <2>. QED
    BY <2>1
<1>3. ComputeBalances(E, group) \in [Range(group) -> Int]
  BY <1>2 DEF ComputeBalances
<1>. QED
  BY <1>1, <1>3, GroupHasMembers DEF Nets

\* What was paid was owed: the balances add up to nothing.
LEMMA BalancesAddUp ==
  ASSUME NEW group \in Groups, NEW E, Expenses(E), \A e \in E : e.paidBy \in Range(group)
  PROVE  SetSum(ComputeBalances(E, group), Range(group)) = 0
<1>1. PICK M : M = Range(group)
  OBVIOUS
<1>2. PICK net : net = ComputeBalances(E, group)
  OBVIOUS
<1>3. PICK p : p = [t \in M |-> Paid(t, E, group)]
  OBVIOUS
<1>4. PICK o : o = [t \in M |-> Owed(t, E, group)]
  OBVIOUS
<1>5. ASSUME NEW t \in M PROVE net[t] \in Int /\ o[t] \in Int /\ p[t] = net[t] + o[t]
  <2>1. Paid(t, E, group) \in Nat /\ Owed(t, E, group) \in Nat
    BY PaidAndOwed
  <2>2. net[t] = Paid(t, E, group) - Owed(t, E, group)
    BY <1>1, <1>2, BalancesAreNets
  <2>3. p[t] = Paid(t, E, group) /\ o[t] = Owed(t, E, group)
    BY <1>3, <1>4
  <2>. QED
    BY <2>1, <2>2, <2>3
<1>6. IsFiniteSet(M)
  BY <1>1, GroupHasMembers
<1>7. SetSum(p, M) = SetSum(net, M) + SetSum(o, M) /\ SetSum(net, M) \in Int /\ SetSum(o, M) \in Int
  BY <1>5, <1>6, SumAdds, SumType
<1>8. SetSum(p, M) = SetSum(o, M)
  BY <1>1, <1>3, <1>4, AllIsPaid, AllIsOwed
<1>. QED
  BY <1>1, <1>2, <1>7, <1>8

LEMMA NoShareNoDebt ==
  ASSUME NEW group \in Groups, NEW E, Expenses(E), NEW t \in Range(group),
         \A e \in E : t \notin Sharers(e, group)
  PROVE  ComputeBalances(E, group)[t] >= 0
<1>1. SharedBy(t, E, group) = {}
  BY SharesAreWhole DEF SharedBy
<1>2. Owed(t, E, group) = 0
  BY <1>1, PaidAndOwed, SumOfNothing
<1>3. Paid(t, E, group) \in Nat
  BY PaidAndOwed
<1>4. ComputeBalances(E, group)[t] = Paid(t, E, group) - Owed(t, E, group)
  BY BalancesAreNets
<1>. QED
  BY <1>2, <1>3, <1>4

\* The lines of the report are of all that was paid, each in its category.
LEMMA ReportIsOfAll ==
  ASSUME NEW group \in Groups, NEW E, Expenses(E),
         \A e \in E : e.paidBy \in Range(group) /\ e.sharedWith \subseteq Range(group)
  PROVE  LET report == ActualsReport(E)
         IN  ReportedTotal(report) - report.wear =
               SumOver(Range(group), [t \in Range(group) |-> Paid(t, E, group)])
<1>1. PICK X : X = Counted(E, group)
  OBVIOUS
<1>2. X = {e \in E : e.amount > 0}
  <2>1. \A e \in E : Sharers(e, group) # {}
    BY GroupHasMembers DEF Sharers
  <2>. QED
    BY <1>1, <2>1 DEF Counted
<1>3. PICK v : v = AmountOf(E)
  OBVIOUS
<1>4. IsFiniteSet(Categories) /\ IsFiniteSet(X) /\ X \subseteq E /\ \A e \in X : v[e] \in Int
  <2>1. X \subseteq E /\ IsFiniteSet(X)
    BY <1>1, SharesAreWhole
  <2>2. \A e \in E : v[e] \in Int
    BY <1>3, SharesAreWhole
  <2>. QED
    BY <2>1, <2>2, LedgerAssumption
<1>5. PICK R : R = {p \in Categories \X X : p[2].category = p[1]}
  OBVIOUS
<1>6. \A c \in Categories, e \in X : <<c, e>> \in R <=> e.category = c
  BY <1>5
<1>7. PICK u : u = [c \in Categories |-> SumOver({e \in E : e.amount > 0 /\ e.category = c}, v)]
  OBVIOUS
<1>8. ASSUME NEW c \in Categories PROVE u[c] = SetSum(v, Had(X, c, R)) /\ u[c] \in Int
  <2>1. PICK S : S = Had(X, c, R)
    OBVIOUS
  <2>2. S = {e \in E : e.amount > 0 /\ e.category = c} /\ S \subseteq X
    BY <1>2, <1>6, <2>1 DEF Had
  <2>3. IsFiniteSet(S) /\ \A e \in S : v[e] \in Int
    BY <1>4, <2>2, FS_Subset
  <2>4. SumOver(S, v) = SetSum(v, S) /\ SetSum(v, S) \in Int
    BY <2>3, SumOverIsSum, SumType
  <2>. QED
    BY <1>7, <2>1, <2>2, <2>4
<1>9. ASSUME NEW e \in X PROVE v[e] = v[e] * Cardinality(Having(Categories, e, R))
  <2>1. e.category \in Categories
    BY <1>4 DEF Expenses
  <2>2. Having(Categories, e, R) = {e.category}
    BY <1>6, <2>1 DEF Having
  <2>3. Cardinality({e.category}) = 1
    BY FS_Singleton
  <2>4. v[e] = v[e] * 1
    BY <1>4
  <2>. QED
    BY <2>2, <2>3, <2>4
<1>10. SetSum(u, Categories) = SetSum(v, X)
  <2>1. Exchange(Categories, X, R, v, v, u)
    BY <1>4, <1>8, <1>9 DEF Exchange
  <2>. QED
    BY <2>1, SumsExchange
<1>11. PICK report : report = ActualsReport(E)
  OBVIOUS
<1>12. /\ DOMAIN report.lines = Categories
       /\ \A c \in Categories : report.lines[c].actual = u[c]
       /\ report.wear \in Int
  <2>1. report.lines = [c \in Categories |-> [estimated |-> Estimate[c], actual |-> u[c]]]
    BY <1>3, <1>7, <1>11 DEF ActualsReport
  <2>2. report.wear = IF \E e \in E : e.amount > 0 THEN Estimate["wear"] ELSE 0
    BY <1>11 DEF ActualsReport
  <2>3. Estimate["wear"] \in Nat
    BY LedgerAssumption
  <2>. QED
    BY <2>1, <2>2, <2>3
<1>13. PICK z : z = [c \in DOMAIN report.lines |-> report.lines[c].actual]
  OBVIOUS
<1>14. \A c \in Categories : z[c] = u[c] /\ u[c] \in Int /\ z[c] \in Int
  BY <1>8, <1>12, <1>13
<1>15. SumOver(Categories, z) = SetSum(v, X) /\ SumOver(Categories, z) \in Int
  <2>1. SumOver(Categories, z) = SetSum(z, Categories) /\ SetSum(z, Categories) \in Int
    BY <1>4, <1>14, SumOverIsSum, SumType
  <2>2. SetSum(z, Categories) = SetSum(u, Categories)
    BY <1>4, <1>14, SumSame
  <2>. QED
    BY <1>10, <2>1, <2>2
<1>16. ReportedTotal(report) = SumOver(Categories, z) + report.wear
  BY <1>12, <1>13 DEF ReportedTotal
<1>17. ReportedTotal(report) - report.wear = SetSum(v, X)
  BY <1>12, <1>15, <1>16
<1>18. PICK p : p = [t \in Range(group) |-> Paid(t, E, group)]
  OBVIOUS
<1>19. SetSum(p, Range(group)) = SetSum(v, X)
  BY <1>1, <1>3, <1>18, AllIsPaid
<1>20. SumOver(Range(group), p) = SetSum(p, Range(group))
  <2>1. IsFiniteSet(Range(group))
    BY GroupHasMembers
  <2>2. \A t \in Range(group) : p[t] \in Int
    <3>1. \A t \in Range(group) : Paid(t, E, group) \in Nat
      BY PaidAndOwed
    <3>. QED
      BY <1>18, <3>1
  <2>. QED
    BY <2>1, <2>2, SumOverIsSum
<1>. QED
  BY <1>11, <1>17, <1>18, <1>19, <1>20

-----------------------------------------------------------------------------
(* The notebooks of the pages.                                             *)

Notebook(j) == /\ j = [tripId |-> j.tripId, checkIns |-> j.checkIns, expenses |-> j.expenses]
               /\ Expenses(j.expenses)
FlightFields == {"kind", "place", "photo", "seen", "old", "done"}
Flight(f)   == /\ f = [x \in FlightFields |-> f[x]]
               /\ f.kind \in {"attach", "drop", "clear"}
               /\ Notebook(f.seen)
Grouped(i)  == i.group \in Groups
\* Of what is carried, the group, if it is there at all.
GroupedPart(part) == "group" \in DOMAIN part => part["group"] \in Groups

GroupsAreGroups == /\ Grouped(input)
                   /\ draft = Undefined \/ Grouped(draft)
                   /\ \A t \in trips : Grouped(t.input)
                   /\ carried = Undefined \/ GroupedPart(carried.part)
NotesAreNotebooks == /\ \A id \in DOMAIN journals : Notebook(journals[id])
                     /\ PlanShown => Notebook(book)
                     /\ \A f \in flights : Flight(f)

LEMMA DebtsAreSettled == GroupsAreGroups /\ NotesAreNotebooks => DebtsSettled
<1>. SUFFICES ASSUME GroupsAreGroups, NotesAreNotebooks, PlanShown PROVE DebtsSettled
  BY DEF DebtsSettled
<1>1. PICK group \in Groups : group = input.group
  BY DEF GroupsAreGroups, Grouped
<1>2. PICK E : E = book.expenses /\ Expenses(E)
  BY DEF NotesAreNotebooks, Notebook
<1>3. PICK M : M = Range(group)
  OBVIOUS
<1>4. PICK net : net = ComputeBalances(E, group)
  OBVIOUS
<1>5. PICK q : q = Settle(group, net)
  OBVIOUS
<1>6. Nets(M, group, net) /\ Cardinality(M) = Len(group) /\ M # {}
  BY <1>2, <1>3, <1>4, BalancesAreNets, GroupHasMembers
<1>7. /\ \A i, j \in DOMAIN q : q[i].from # q[j].to
      /\ Len(q) <= Len(group) - 1
      /\ SetSum(net, M) = 0 => \A t \in M : Size(HoldsAfter(t, net, q)) <= Tolerance * (Len(group) - 1)
  BY <1>5, <1>6, TransfersSettle
<1>8. ASSUME \A e \in E : e.paidBy \in M /\ e.sharedWith \subseteq M
      PROVE  /\ \A t \in M : Size(HoldsAfter(t, net, q)) <= Tolerance * (Len(group) - 1)
             /\ \A t \in M : (\A e \in E : t \notin Sharers(e, group)) => net[t] >= 0
             /\ ReportedTotal(ActualsReport(E)) - ActualsReport(E).wear =
                  SumOver(M, [t \in M |-> Paid(t, E, group)])
  <2>1. SetSum(net, M) = 0
    BY <1>2, <1>3, <1>4, <1>8, BalancesAddUp
  <2>2. \A t \in M : (\A e \in E : t \notin Sharers(e, group)) => net[t] >= 0
    BY <1>2, <1>3, <1>4, NoShareNoDebt
  <2>3. ReportedTotal(ActualsReport(E)) - ActualsReport(E).wear = SumOver(M, [t \in M |-> Paid(t, E, group)])
    BY <1>2, <1>3, <1>8, ReportIsOfAll
  <2>. QED
    BY <1>7, <2>1, <2>2, <2>3
<1>. QED
  BY <1>1, <1>2, <1>3, <1>4, <1>5, <1>7, <1>8 DEF DebtsSettled

-----------------------------------------------------------------------------
(* Groups stay groups.                                                     *)

LEMMA DefaultIsGrouped ==
  ASSUME NEW id, NEW day
  PROVE  Grouped(DefaultInput(id, day))
<1>1. DefaultInput(id, day).group = <<"t1", "t2">>
  BY DEF DefaultInput
<1>2. <<"t1", "t2">> \in Groups
  BY DEF Groups, Travellers, IsInjective
<1>. QED
  BY <1>1, <1>2 DEF Grouped

LEMMA JoinedIsAGroup ==
  ASSUME NEW g \in Groups, NEW t \in People \ Range(g)
  PROVE  Append(g, t) \in Groups
<1>1. g \in Seq(Travellers) /\ IsInjective(g) /\ t \in Travellers
  BY DEF Groups, Travellers
<1>2. PICK n \in Nat : n = Len(g)
  BY <1>1
<1>3. PICK h : h = Append(g, t)
  OBVIOUS
<1>4. h \in Seq(Travellers) /\ h # <<>> /\ DOMAIN h = 1 .. n + 1 /\ h[n + 1] = t /\ \A i \in 1 .. n : h[i] = g[i]
  BY <1>1, <1>2, <1>3
<1>5. \A i \in 1 .. n : g[i] # t
  BY <1>1, <1>2 DEF Range
<1>6. \A i, j \in 1 .. n : g[i] = g[j] => i = j
  BY <1>1, <1>2 DEF IsInjective
<1>7. \A i \in 1 .. n + 1 : i \in 1 .. n \/ i = n + 1
  BY <1>2
<1>8. \A i, j \in 1 .. n + 1 : h[i] = h[j] => i = j
  BY <1>4, <1>5, <1>6, <1>7
<1>. QED
  BY <1>3, <1>4, <1>8 DEF Groups, IsInjective

LEMMA LeftIsAGroup ==
  ASSUME NEW g \in Groups, NEW k \in DOMAIN g, Len(g) # 1
  PROVE  RemoveAt(g, k) \in Groups
<1>1. g \in Seq(Travellers) /\ IsInjective(g) /\ g # <<>>
  BY DEF Groups
<1>2. PICK n \in Nat \ {0} : n = Len(g)
  BY <1>1
<1>3. k \in 1 .. n /\ n >= 2
  BY <1>1, <1>2
<1>4. PICK a : a = SubSeq(g, 1, k - 1)
  OBVIOUS
<1>5. PICK b : b = SubSeq(g, k + 1, n)
  OBVIOUS
<1>6. a \in Seq(Travellers) /\ Len(a) = k - 1 /\ \A i \in 1 .. k - 1 : a[i] = g[i]
  BY <1>1, <1>2, <1>3, <1>4
<1>7. b \in Seq(Travellers) /\ Len(b) = n - k /\ \A i \in 1 .. n - k : b[i] = g[k + i]
  BY <1>1, <1>2, <1>3, <1>5
<1>8. PICK h : h = a \o b
  OBVIOUS
<1>9. h \in Seq(Travellers) /\ Len(h) = n - 1
  <2>1. h \in Seq(Travellers) /\ Len(h) = Len(a) + Len(b)
    <3>1. a \in Seq(Travellers) /\ b \in Seq(Travellers)
      BY <1>6, <1>7
    <3>2. a \o b \in Seq(Travellers)
      BY <3>1
    <3>3. Len(a \o b) = Len(a) + Len(b)
      BY <3>1
    <3>. QED
      BY <1>8, <3>2, <3>3
  <2>2. (k - 1) + (n - k) = n - 1
    BY <1>2, <1>3
  <2>. QED
    BY <1>6, <1>7, <2>1, <2>2
<1>10. ASSUME NEW i \in 1 .. n - 1
       PROVE  h[i] = g[IF i < k THEN i ELSE i + 1]
  <2>1. CASE i < k
    <3>1. i \in 1 .. k - 1 /\ i \in 1 .. Len(a)
      BY <1>3, <1>6, <2>1
    <3>2. h[i] = a[i]
      BY <1>6, <1>7, <1>8, <3>1
    <3>. QED
      BY <1>6, <2>1, <3>1, <3>2
  <2>2. CASE ~(i < k)
    <3>1. i - (k - 1) \in 1 .. n - k /\ i \in Len(a) + 1 .. Len(a) + Len(b)
      BY <1>3, <1>6, <1>7, <2>2
    <3>2. h[i] = b[i - (k - 1)]
      BY <1>6, <1>7, <1>8, <2>2, <3>1
    <3>3. b[i - (k - 1)] = g[k + (i - (k - 1))] /\ k + (i - (k - 1)) = i + 1
      BY <1>3, <1>7, <3>1
    <3>. QED
      BY <2>2, <3>2, <3>3
  <2>. QED
    BY <2>1, <2>2
<1>11. \A i, j \in 1 .. n : g[i] = g[j] => i = j
  BY <1>1, <1>2 DEF IsInjective
<1>12. ASSUME NEW i \in 1 .. n - 1, NEW j \in 1 .. n - 1, h[i] = h[j]
       PROVE  i = j
  <2>1. PICK x, y : x = (IF i < k THEN i ELSE i + 1) /\ y = (IF j < k THEN j ELSE j + 1)
    OBVIOUS
  <2>2. x \in 1 .. n /\ y \in 1 .. n
    BY <1>3, <2>1
  <2>3. g[x] = g[y]
    BY <1>10, <1>12, <2>1
  <2>4. x = y
    BY <1>11, <2>2, <2>3
  <2>. QED
    BY <1>3, <2>1, <2>4
<1>13. DOMAIN h = 1 .. n - 1 /\ h # <<>>
  BY <1>3, <1>9
<1>14. h \in Groups
  BY <1>9, <1>12, <1>13 DEF Groups, IsInjective
<1>15. RemoveAt(g, k) = h
  BY <1>2, <1>4, <1>5, <1>8 DEF RemoveAt
<1>. QED
  BY <1>14, <1>15

LEMMA StepsKeepGroups ==
  ASSUME NEW i, Trip(i), Grouped(i), NEW s \in 0 .. 4, NEW e \in OnStep(i, s)
  PROVE  Grouped(e)
<1>1. \A j \in EditRoute(i) : j.group = i.group
  BY DEF EditRoute, Trip, Fields
<1>2. \A j \in EditTime(i) : j.group = i.group
  BY DEF EditTime, Trip, Fields
<1>3. \A j \in EditGroup(i) : Grouped(j)
  <2>1. ASSUME NEW g PROVE [i EXCEPT !.group = g].group = g
    BY DEF Trip, Fields
  <2>2. \A t \in People \ Range(i.group) : Append(i.group, t) \in Groups
    <3>1. PICK g : g = i.group
      OBVIOUS
    <3>2. \A t \in People \ Range(g) : Append(g, t) \in Groups
      BY <3>1, JoinedIsAGroup DEF Grouped
    <3>. QED
      BY <3>1, <3>2
  <2>3. \A k \in DOMAIN i.group : Len(i.group) # 1 => RemoveAt(i.group, k) \in Groups
    <3>1. PICK g : g = i.group
      OBVIOUS
    <3>2. \A k \in DOMAIN g : Len(g) # 1 => RemoveAt(g, k) \in Groups
      BY <3>1, LeftIsAGroup DEF Grouped
    <3>. QED
      BY <3>1, <3>2
  <2>4. ASSUME NEW j \in EditGroup(i) PROVE \E g \in Groups : j = [i EXCEPT !.group = g]
    <3>1. PICK A : A = {[i EXCEPT !.group = Append(@, t)] : t \in People \ Range(i.group)}
      OBVIOUS
    <3>2. PICK B : B = {[i EXCEPT !.group = RemoveAt(@, k)] :
                            k \in IF Len(i.group) = 1 THEN {} ELSE DOMAIN i.group}
      OBVIOUS
    <3>3. EditGroup(i) = A \cup B
      BY <3>1, <3>2, Zenon DEF EditGroup
    <3>4. \A x \in A : \E g \in Groups : x = [i EXCEPT !.group = g]
      BY <2>2, <3>1
    <3>5. \A x \in B : \E g \in Groups : x = [i EXCEPT !.group = g]
      BY <2>3, <3>2
    <3>. QED
      BY <2>4, <3>3, <3>4, <3>5
  <2>5. ASSUME NEW j \in EditGroup(i) PROVE j.group \in Groups
    <3>1. PICK g \in Groups : j = [i EXCEPT !.group = g]
      BY <2>4
    <3>2. j.group = g
      BY <2>1, <3>1
    <3>. QED
      BY <3>2
  <2>. QED
    BY <2>5 DEF Grouped
<1>4. \A j \in EditCar(i) : j.group = i.group
  BY DEF EditCar, Trip, Fields
<1>5. \A j \in EditTaste(i) : j.group = i.group
  BY DEF EditTaste, Trip, Fields
<1>. QED
  BY <1>1, <1>2, <1>3, <1>4, <1>5 DEF OnStep, Grouped

LEMMA PlanKeepsGroups ==
  ASSUME NEW i, Trip(i), NEW e \in OnPlan(i)
  PROVE  e.group = i.group
<1>1. \A j \in Block(i) : j.group = i.group
  BY DEF Block, Trip, Fields
<1>2. \A j \in Move(i) : j.group = i.group
  <2>1. ASSUME NEW j \in Move(i) PROVE \E v : j = [i EXCEPT !.assigned = v]
    BY <2>1 DEF Move
  <2>. QED
    BY <2>1 DEF Trip, Fields
<1>3. \A j \in Pin(i) : j.group = i.group
  BY DEF Pin, Trip, Fields
<1>4. \A j \in Unblock(i) : j.group = i.group
  BY DEF Unblock, Trip, Fields
<1>5. \A j \in RemoveStop(i) : j.group = i.group
  BY DEF RemoveStop, Trip, Fields
<1>6. \A j \in Reprice(i) : j.group = i.group
  BY DEF Reprice, Trip, Fields
<1>7. \A j \in Lever(i) : j.group = i.group
  BY DEF Lever, Trip, Fields
<1>. QED
  BY <1>1, <1>2, <1>3, <1>4, <1>5, <1>6, <1>7 DEF OnPlan

LEMMA OthersKeepGroups ==
  ASSUME NEW i, Trip(i), NEW id
  PROVE  AddStop(i, id).group = i.group /\ [i EXCEPT !.title = "named"].group = i.group
BY DEF AddStop, Trip, Fields

LEMMA ReadIsGrouped ==
  ASSUME NEW part, GroupedPart(part), NEW id, NEW day
  PROVE  Grouped(OverDefault(part, id, day))
<1>1. PICK base : base = DefaultInput(id, day)
  OBVIOUS
<1>2. "group" \in DOMAIN base /\ base.group \in Groups
  BY <1>1, DefaultIsGrouped DEF DefaultInput, Grouped
<1>3. OverDefault(part, id, day) = [f \in DOMAIN base |-> IF f \in DOMAIN part THEN part[f] ELSE base[f]]
  BY <1>1 DEF OverDefault
<1>. QED
  BY <1>2, <1>3 DEF Grouped, GroupedPart

LEMMA SentIsGrouped ==
  ASSUME NEW i, Grouped(i), NEW day
  PROVE  GroupedPart(EncodeTrip(i, day)) /\ GroupedPart(FileOf(i))
BY DEF EncodeTrip, FileOf, GroupedPart, Grouped

-----------------------------------------------------------------------------
(* Notebooks stay notebooks.                                               *)

LEMMA LoadedIsANotebook ==
  ASSUME NotesAreNotebooks, NEW id
  PROVE  Notebook(LoadJournal(id))
<1>1. CASE id \in DOMAIN journals
  BY <1>1 DEF NotesAreNotebooks, LoadJournal
<1>2. Notebook(EmptyJournal(id))
  BY FS_EmptySet DEF Notebook, EmptyJournal, Expenses
<1>. QED
  BY <1>1, <1>2 DEF LoadJournal

LEMMA OlderFlights ==
  ASSUME NEW f, Flight(f)
  PROVE  Flight([f EXCEPT !.old = TRUE]) /\ Flight([f EXCEPT !.done = TRUE])
<1>1. PICK g : g = [f EXCEPT !.old = TRUE]
  OBVIOUS
<1>2. PICK h : h = [f EXCEPT !.done = TRUE]
  OBVIOUS
<1>3. g = [x \in FlightFields |-> g[x]] /\ g.seen = f.seen /\ g.kind = f.kind
  BY <1>1 DEF Flight, FlightFields
<1>4. h = [x \in FlightFields |-> h[x]] /\ h.seen = f.seen /\ h.kind = f.kind
  BY <1>2 DEF Flight, FlightFields
<1>5. Flight(g) /\ Flight(h)
  BY <1>3, <1>4 DEF Flight
<1>. QED
  BY <1>1, <1>2, <1>5

LEMMA RenderKeepsNotes ==
  ASSUME NotesAreNotebooks, NEW i, NEW open, Render(i, open), journals' = journals
  PROVE  NotesAreNotebooks'
<1>1. PlanShown' <=> Shown(i, open)
  BY DEF PlanShown, Shown, Render
<1>2. PlanShown' => Notebook(book')
  <2>1. CASE Shown(i, open) /\ WizardShown
    <3>1. book' = LoadJournal(i.id)
      BY <2>1 DEF Render
    <3>. QED
      BY <3>1, LoadedIsANotebook
  <2>2. CASE Shown(i, open) /\ ~WizardShown
    BY <2>2 DEF Render, WizardShown, NotesAreNotebooks
  <2>. QED
    BY <1>1, <2>1, <2>2
<1>3. \A f \in flights' : Flight(f)
  <2>1. CASE flights' = flights
    BY <2>1 DEF NotesAreNotebooks
  <2>2. CASE flights' = {[f EXCEPT !.old = TRUE] : f \in flights}
    BY <2>2, OlderFlights DEF NotesAreNotebooks
  <2>3. flights' = flights \/ flights' = {[f EXCEPT !.old = TRUE] : f \in flights}
    BY DEF Render
  <2>. QED
    BY <2>1, <2>2, <2>3
<1>. QED
  BY <1>2, <1>3 DEF NotesAreNotebooks, Notebook, Flight, FlightFields, Expenses

LEMMA NoteIsANotebook ==
  ASSUME NotesAreNotebooks, NEW j, Notebook(j), NEW old, UpdateJournal(j, old),
         flights' \subseteq flights, UNCHANGED <<input, showPlan>>
  PROVE  NotesAreNotebooks'
<1>1. PlanShown' <=> PlanShown
  BY DEF PlanShown, Shown, HasPlan
<1>2. PlanShown' => Notebook(book')
  BY <1>1 DEF UpdateJournal, NotesAreNotebooks
<1>3. journals' = Assign(journals, j.tripId, j) \/ journals' = journals
  BY DEF UpdateJournal
<1>4. \A id \in DOMAIN journals' : Notebook(journals'[id])
  BY <1>3 DEF Assign, NotesAreNotebooks
<1>5. \A f \in flights' : Flight(f)
  BY DEF NotesAreNotebooks
<1>. QED
  BY <1>2, <1>4, <1>5 DEF NotesAreNotebooks, Notebook, Flight, FlightFields, Expenses

LEMMA MarkedIsANotebook ==
  ASSUME NEW j, Notebook(j), NEW p, NEW v
  PROVE  Notebook(SetCheckIn(j, p, v)) /\ Notebook(ClearCheckIn(j, p))
<1>1. SetCheckIn(j, p, v).expenses = j.expenses /\ ClearCheckIn(j, p).expenses = j.expenses
  BY DEF SetCheckIn, ClearCheckIn, Notebook
<1>. QED
  BY <1>1 DEF SetCheckIn, ClearCheckIn, Notebook

LEMMA SpentIsANotebook ==
  ASSUME NEW j, Notebook(j), NEW E, Expenses(E)
  PROVE  Notebook([j EXCEPT !.expenses = E])
<1>1. [j EXCEPT !.expenses = E].expenses = E
  BY DEF Notebook
<1>. QED
  BY <1>1 DEF Notebook

LEMMA NotesStayNotebooks ==
  ASSUME NotesAreNotebooks, UNCHANGED <<journals, book, flights, input, showPlan>>
  PROVE  NotesAreNotebooks'
BY DEF NotesAreNotebooks, PlanShown, Shown, HasPlan, Notebook, Flight, FlightFields, Expenses

LEMMA TheRoadKeepsNotebooks ==
  ASSUME NotesAreNotebooks, Road
  PROVE  NotesAreNotebooks'
<1>1. ASSUME NEW p \in Sights, CheckIn(p) PROVE NotesAreNotebooks'
  <2>1. Notebook(SetCheckIn(book, p, [mark |-> 0, photo |-> Undefined]))
    BY <1>1, MarkedIsANotebook DEF CheckIn, NotesAreNotebooks
  <2>. QED
    BY <1>1, <2>1, NoteIsANotebook DEF CheckIn
<1>2. ASSUME NEW p \in Sights, Mark(p) PROVE NotesAreNotebooks'
  <2>1. Notebook(SetCheckIn(book, p, [book.checkIns[p] EXCEPT !.mark = 1]))
    BY <1>2, MarkedIsANotebook DEF Mark, NotesAreNotebooks
  <2>. QED
    BY <1>2, <2>1, NoteIsANotebook DEF Mark
<1>3. ASSUME NEW p \in Sights, Clear(p) PROVE NotesAreNotebooks'
  <2>1. Notebook(ClearCheckIn(book, p))
    BY <1>3, MarkedIsANotebook DEF Clear, NotesAreNotebooks
  <2>. QED
    BY <1>3, <2>1, NoteIsANotebook DEF Clear
<1>4. ASSUME NEW p, NEW kind \in {"attach", "drop", "clear"}, StartFlight(p, kind) PROVE NotesAreNotebooks'
  <2>1. Notebook(book) /\ UNCHANGED <<journals, book, input, showPlan>>
    BY <1>4 DEF StartFlight, storage, NotesAreNotebooks
  <2>2. PICK id : flights' = flights \cup {[kind |-> kind, place |-> p, photo |-> id, seen |-> book,
                                            old |-> FALSE, done |-> FALSE]}
    BY <1>4 DEF StartFlight
  <2>3. Flight([kind |-> kind, place |-> p, photo |-> id, seen |-> book, old |-> FALSE, done |-> FALSE])
    BY <2>1 DEF Flight, FlightFields
  <2>4. \A f \in flights' : Flight(f)
    BY <2>2, <2>3 DEF NotesAreNotebooks
  <2>. QED
    BY <2>1, <2>4 DEF NotesAreNotebooks, PlanShown, Shown, HasPlan, Notebook, Flight, FlightFields, Expenses
<1>5. ASSUME NEW f \in flights, FlightStored(f) PROVE NotesAreNotebooks'
  <2>1. UNCHANGED <<journals, book, input, showPlan>>
    BY <1>5 DEF FlightStored
  <2>2. Flight([f EXCEPT !.done = TRUE])
    BY OlderFlights DEF NotesAreNotebooks
  <2>3. flights' \subseteq flights \cup {[f EXCEPT !.done = TRUE]}
    BY <1>5 DEF FlightStored
  <2>4. \A g \in flights' : Flight(g)
    BY <2>2, <2>3 DEF NotesAreNotebooks
  <2>. QED
    BY <2>1, <2>4 DEF NotesAreNotebooks, PlanShown, Shown, HasPlan, Notebook, Flight, FlightFields, Expenses
<1>6. ASSUME NEW f \in flights, FlightLanded(f) PROVE NotesAreNotebooks'
  <2>1. Notebook(f.seen) /\ f.kind \in {"attach", "drop", "clear"}
    BY DEF NotesAreNotebooks, Flight
  <2>2. PICK was : was = f.seen.checkIns[f.place]
    OBVIOUS
  <2>3. PICK j : /\ UpdateJournal(j, f.old)
                 /\ j = CASE f.kind = "attach" -> SetCheckIn(f.seen, f.place, [was EXCEPT !.photo = f.photo])
                          [] f.kind = "drop"   -> SetCheckIn(f.seen, f.place, [was EXCEPT !.photo = Undefined])
                          [] f.kind = "clear"  -> ClearCheckIn(f.seen, f.place)
    BY <1>6, <2>2 DEF FlightLanded
  <2>4. Notebook(j)
    BY <2>1, <2>3, MarkedIsANotebook
  <2>5. flights' \subseteq flights /\ UNCHANGED <<input, showPlan>>
    BY <1>6 DEF FlightLanded
  <2>. QED
    BY <2>3, <2>4, <2>5, NoteIsANotebook
<1>7. ASSUME NEW a \in Amounts, NEW t, NEW S, NEW c \in Categories, AddExpense(a, t, S, c)
      PROVE  NotesAreNotebooks'
  <2>1. PICK e : e = [id |-> nextId, amount |-> a, paidBy |-> t, sharedWith |-> S, category |-> c, day |-> 1]
    OBVIOUS
  <2>2. Notebook(book)
    BY <1>7 DEF AddExpense, NotesAreNotebooks
  <2>3. PICK E : E = book.expenses \cup {e}
    OBVIOUS
  <2>4. e.amount = a /\ e.category = c
    BY <2>1
  <2>5. IsFiniteSet(book.expenses \cup {e})
    BY <2>2, FS_AddElement DEF Notebook, Expenses
  <2>6. Expenses(E)
    BY <2>2, <2>3, <2>4, <2>5 DEF Notebook, Expenses
  <2>7. Notebook([book EXCEPT !.expenses = E])
    BY <2>2, <2>6, SpentIsANotebook
  <2>8. UpdateJournal([book EXCEPT !.expenses = E], FALSE)
    BY <1>7, <2>1, <2>3 DEF AddExpense
  <2>. QED
    BY <1>7, <2>7, <2>8, NoteIsANotebook DEF AddExpense
<1>8. ASSUME NEW e, RemoveExpense(e) PROVE NotesAreNotebooks'
  <2>1. Notebook(book)
    BY <1>8 DEF RemoveExpense, NotesAreNotebooks
  <2>2. PICK E : E = book.expenses \ {e}
    OBVIOUS
  <2>3. IsFiniteSet(E)
    BY <2>1, <2>2, FS_Subset DEF Notebook, Expenses
  <2>4. Expenses(E)
    BY <2>1, <2>2, <2>3 DEF Notebook, Expenses
  <2>5. Notebook([book EXCEPT !.expenses = E])
    BY <2>1, <2>4, SpentIsANotebook
  <2>6. UpdateJournal([book EXCEPT !.expenses = E], FALSE)
    BY <1>8, <2>2 DEF RemoveExpense
  <2>. QED
    BY <1>8, <2>5, <2>6, NoteIsANotebook DEF RemoveExpense
<1>. QED
  BY <1>1, <1>2, <1>3, <1>4, <1>5, <1>6, <1>7, <1>8 DEF Road

-----------------------------------------------------------------------------
(* Each step of the pages keeps the groups and the notebooks.              *)

MoneyInv == PageInv /\ GroupsAreGroups /\ NotesAreNotebooks

\* A trip that is edited, loaded or begun, stored or not.
LEMMA ShownIsGrouped ==
  ASSUME GroupsAreGroups, NEW i, Grouped(i), input' = i \/ input' = input,
         draft' = i \/ draft' = draft, UNCHANGED <<trips, carried>>
  PROVE  GroupsAreGroups'
BY DEF GroupsAreGroups, Grouped, GroupedPart

LEMMA EditKeepsMoney ==
  ASSUME MoneyInv, NEW i, Grouped(i), Render(i, showPlan), SaveDraft(i),
         UNCHANGED <<trips, journals, carried>>
  PROVE  GroupsAreGroups' /\ NotesAreNotebooks'
<1>1. GroupsAreGroups'
  BY ShownIsGrouped DEF MoneyInv, Render, SaveDraft, Store
<1>. QED
  BY <1>1, RenderKeepsNotes DEF MoneyInv

LEMMA ListIsGrouped ==
  ASSUME MoneyInv, Save \/ \E t \in trips : CopyTrip(t) \/ DeleteTrip(t)
  PROVE  GroupsAreGroups' /\ NotesAreNotebooks'
<1>1. UNCHANGED <<input, draft, carried, journals, book, flights, showPlan>>
  BY DEF Save, CopyTrip, DeleteTrip, page
<1>2. \A t \in trips' : Grouped(t.input)
  <2>1. CASE Save
    <3>1. PICK named : named = [input EXCEPT !.title = "named"]
      OBVIOUS
    <3>2. Grouped(named)
      BY <3>1, OthersKeepGroups DEF MoneyInv, PageInv, GroupsAreGroups, Grouped
    <3>3. trips' \subseteq trips \cup {[id |-> nextId, input |-> named]}
      BY <2>1, <3>1 DEF Save
    <3>. QED
      BY <3>2, <3>3 DEF MoneyInv, GroupsAreGroups
  <2>2. ASSUME NEW t \in trips, CopyTrip(t) PROVE \A u \in trips' : Grouped(u.input)
    <3>1. t = [id |-> t.id, input |-> t.input] /\ Grouped(t.input)
      BY DEF MoneyInv, PageInv, Stored, GroupsAreGroups
    <3>2. PICK copy : copy = [t EXCEPT !.id = nextId]
      OBVIOUS
    <3>3. copy.input = t.input
      BY <3>1, <3>2
    <3>4. trips' \subseteq trips \cup {copy}
      BY <2>2, <3>2 DEF CopyTrip
    <3>. QED
      BY <3>1, <3>3, <3>4 DEF MoneyInv, GroupsAreGroups
  <2>3. ASSUME NEW t \in trips, DeleteTrip(t) PROVE \A u \in trips' : Grouped(u.input)
    BY <2>3 DEF DeleteTrip, MoneyInv, GroupsAreGroups
  <2>. QED
    BY <2>1, <2>2, <2>3
<1>3. GroupsAreGroups'
  BY <1>1, <1>2 DEF MoneyInv, GroupsAreGroups, Grouped, GroupedPart
<1>. QED
  BY <1>1, <1>3, NotesStayNotebooks DEF MoneyInv

LEMMA CarriedIsGrouped ==
  ASSUME MoneyInv, CopyLink \/ DownloadJson
  PROVE  GroupsAreGroups' /\ NotesAreNotebooks'
<1>1. PICK kind, part : /\ part = EncodeTrip(input, today) \/ part = FileOf(input)
                        /\ Carry(kind, part)
  BY DEF CopyLink, DownloadJson
<1>2. GroupedPart(part)
  BY <1>1, SentIsGrouped DEF MoneyInv, GroupsAreGroups
<1>3. UNCHANGED <<input, draft, trips, journals, book, flights, showPlan>> /\ carried'.part = part
  BY <1>1 DEF Carry, storage, page
<1>4. GroupsAreGroups'
  BY <1>2, <1>3 DEF MoneyInv, GroupsAreGroups, Grouped, GroupedPart
<1>. QED
  BY <1>3, <1>4, NotesStayNotebooks DEF MoneyInv

LEMMA BeginsGrouped ==
  ASSUME MoneyInv, NEW i, Grouped(i), NEW open, NEW lost, Begin(i, open, lost), UNCHANGED carried
  PROVE  GroupsAreGroups' /\ NotesAreNotebooks'
<1>1. UNCHANGED <<draft, trips, journals>> /\ input' = i /\ showPlan' = open /\ flights' = {}
  BY DEF Begin, storage
<1>2. GroupsAreGroups'
  BY <1>1, ShownIsGrouped DEF MoneyInv
<1>3. PlanShown' => Notebook(book')
  BY <1>1, LoadedIsANotebook DEF Begin, PlanShown, Shown, MoneyInv
<1>. QED
  BY <1>1, <1>2, <1>3 DEF MoneyInv, NotesAreNotebooks, Notebook, Expenses

LEMMA PageBeginsGrouped ==
  ASSUME MoneyInv, Reload \/ OpenLink
  PROVE  GroupsAreGroups' /\ NotesAreNotebooks'
<1>1. CASE Reload /\ draft = Undefined
  <2>1. PICK i : i = DefaultInput(nextId, today)
    OBVIOUS
  <2>2. Begin(i, openFlag, {"draft"}) /\ UNCHANGED carried
    BY <1>1, <2>1 DEF Reload
  <2>3. Grouped(i)
    BY <2>1, DefaultIsGrouped
  <2>. QED
    BY <2>2, <2>3, BeginsGrouped
<1>2. CASE Reload /\ draft # Undefined
  <2>1. Begin(draft, openFlag, {}) /\ UNCHANGED carried
    BY <1>2 DEF Reload
  <2>. QED
    BY <1>2, <2>1, BeginsGrouped DEF MoneyInv, GroupsAreGroups
<1>3. CASE OpenLink
  <2>1. PICK i : i = DecodeTrip(carried.part, today)
    OBVIOUS
  <2>2. Begin(i, TRUE, {"draft", "flag"}) /\ UNCHANGED carried
    BY <1>3, <2>1 DEF OpenLink
  <2>3. Grouped(i)
    BY <1>3, <2>1, ReadIsGrouped DEF OpenLink, DecodeTrip, MoneyInv, GroupsAreGroups
  <2>. QED
    BY <2>2, <2>3, BeginsGrouped
<1>. QED
  BY <1>1, <1>2, <1>3

LEMMA MoneyStep ==
  ASSUME MoneyInv, [Next]_vars
  PROVE  MoneyInv'
<1>. SUFFICES GroupsAreGroups' /\ NotesAreNotebooks'
  BY PageStep DEF MoneyInv
<1>1. ASSUME NEW open, SetShowPlan(open) PROVE GroupsAreGroups' /\ NotesAreNotebooks'
  <2>1. UNCHANGED <<input, draft, trips, journals, carried>> /\ Render(input, open)
    BY <1>1 DEF SetShowPlan, Render
  <2>2. GroupsAreGroups'
    BY <2>1, ShownIsGrouped DEF MoneyInv, GroupsAreGroups
  <2>. QED
    BY <2>1, <2>2, RenderKeepsNotes DEF MoneyInv
<1>2. ASSUME NEW i, Grouped(i), Patch(i) PROVE GroupsAreGroups' /\ NotesAreNotebooks'
  BY <1>2, EditKeepsMoney DEF Patch
<1>3. CASE EditWizard
  <2>1. PICK s \in 0 .. 4 : \E i \in OnStep(input, s) : Patch(i)
    BY <1>3 DEF EditWizard
  <2>. QED
    BY <1>2, <2>1, StepsKeepGroups DEF MoneyInv, PageInv, GroupsAreGroups
<1>4. CASE EditPlan
  <2>1. PICK i \in OnPlan(input) : Patch(i)
    BY <1>4 DEF EditPlan
  <2>2. i.group = input.group
    BY PlanKeepsGroups DEF MoneyInv, PageInv
  <2>. QED
    BY <1>2, <2>1, <2>2 DEF MoneyInv, GroupsAreGroups, Grouped
<1>5. CASE AddCustomStop
  <2>1. PICK i : i = AddStop(input, nextId)
    OBVIOUS
  <2>2. Render(i, showPlan) /\ SaveDraft(i) /\ UNCHANGED <<trips, journals, carried>>
    BY <1>5, <2>1 DEF AddCustomStop
  <2>3. i.group = input.group
    BY <2>1, OthersKeepGroups DEF MoneyInv, PageInv
  <2>4. Grouped(i)
    BY <2>3 DEF MoneyInv, GroupsAreGroups, Grouped
  <2>. QED
    BY <2>2, <2>4, EditKeepsMoney
<1>6. ASSUME NEW i, Grouped(i), Load(i) PROVE GroupsAreGroups' /\ NotesAreNotebooks'
  BY <1>6, EditKeepsMoney DEF Load
<1>7. CASE OpenTrip
  BY <1>6, <1>7 DEF OpenTrip, MoneyInv, GroupsAreGroups
<1>8. CASE Import
  <2>1. PICK i : i = ReadJsonFile(carried.part, today)
    OBVIOUS
  <2>2. Load(i)
    BY <1>8, <2>1 DEF Import
  <2>3. Grouped(i)
    BY <1>8, <2>1, ReadIsGrouped DEF Import, ReadJsonFile, MoneyInv, GroupsAreGroups
  <2>. QED
    BY <1>6, <2>2, <2>3
<1>9. CASE Road
  <2>1. UNCHANGED <<input, draft, trips, carried>>
    BY <1>9 DEF Road, CheckIn, Mark, Clear, StartFlight, FlightStored, FlightLanded,
                AddExpense, RemoveExpense, storage
  <2>2. GroupsAreGroups'
    BY <2>1, ShownIsGrouped DEF MoneyInv, GroupsAreGroups
  <2>. QED
    BY <1>9, <2>2, TheRoadKeepsNotebooks DEF MoneyInv
<1>10. CASE NextDay \/ Fill \/ UNCHANGED vars
  <2>1. UNCHANGED <<input, draft, trips, carried, journals, book, flights, showPlan>>
    BY <1>10 DEF NextDay, Fill, vars, storage, page
  <2>2. GroupsAreGroups'
    BY <2>1, ShownIsGrouped DEF MoneyInv, GroupsAreGroups
  <2>. QED
    BY <2>1, <2>2, NotesStayNotebooks DEF MoneyInv
<1>11. CASE Header \/ Edit \/ Submit
  BY <1>1, <1>11 DEF Header, Edit, Submit
<1>. QED
  BY <1>3, <1>4, <1>5, <1>7, <1>8, <1>9, <1>10, <1>11,
     ListIsGrouped, CarriedIsGrouped, PageBeginsGrouped DEF Next

LEMMA MoneyInitInv ==
  ASSUME Init
  PROVE  MoneyInv
<1>1. Grouped(input)
  BY DefaultIsGrouped DEF Init
<1>2. carried = Undefined \/ GroupedPart(carried.part)
  <2>1. \A i \in Foreign : GroupedPart(EncodeTrip(i, 0)) /\ GroupedPart(FileOf(i))
    BY PageAssumption, SentIsGrouped DEF Grouped
  <2>. QED
    BY <2>1 DEF Init
<1>3. GroupsAreGroups
  BY <1>1, <1>2 DEF Init, GroupsAreGroups
<1>4. NotesAreNotebooks
  BY DEF Init, NotesAreNotebooks, PlanShown, Shown
<1>. QED
  BY <1>3, <1>4, PageInitInv DEF MoneyInv

\* The debts of the road are settled (ExpensePanel.tsx, settlement.ts,
\* actuals.ts), for every group, every notebook and every tolerance: nobody
\* both gives and gets, the transfers are fewer than the people, and with
\* everybody who paid or shared still in the group nobody is left with more
\* than the dust of the others, nobody owes for what others shared, and the
\* report has all the money that was paid.
THEOREM DebtsAlwaysSettled == Spec => []DebtsSettled
<1>1. MoneyInv => DebtsSettled
  BY DebtsAreSettled DEF MoneyInv
<1>. QED
  BY <1>1, MoneyInitInv, MoneyStep, PTL DEF Spec

-----------------------------------------------------------------------------
(* THE SERVICES. No answer to a trip that was edited or closed reaches     *)
(* another, and a plan says that it waits exactly while it does.           *)

LiveOf(requests) == {r \in requests : r.live}

(* Requests are records, and of those on their way one at most has not     *)
(* been cancelled, which asks for what the effect last ran for.            *)
WeatherRequest(r) == r = [for |-> r.for, hits |-> r.hits, live |-> r.live,
                          seen |-> r.seen, missing |-> r.missing]
PointRequest(r)   == r = [for |-> r.for, seen |-> r.seen, live |-> r.live]

OneFor(requests, key) ==
    /\ \A r \in requests : r.live \in BOOLEAN
    /\ \A r \in LiveOf(requests) : r.for = key
    /\ \A r, s \in LiveOf(requests) : r = s

OneAsked ==
    /\ \A r \in weatherAsks : WeatherRequest(r)
    /\ \A r \in roadAsks : PointRequest(r)
    /\ \A r \in heightAsks : PointRequest(r)
    /\ OneFor(weatherAsks, ranNights)
    /\ OneFor(roadAsks, ranPoints) /\ OneFor(heightAsks, ranPoints)
    /\ ranNights # {} => (weatherStatus = "loading" <=> LiveOf(weatherAsks) # {})

-----------------------------------------------------------------------------
(* Cancelling, asking and being answered.                                  *)

LEMMA CancelledWeather ==
  ASSUME NEW requests, \A r \in requests : WeatherRequest(r)
  PROVE  \A r \in Cancelled(requests) : WeatherRequest(r) /\ r.live = FALSE
<1>1. ASSUME NEW q \in requests, NEW r, r = [q EXCEPT !.live = FALSE]
      PROVE  WeatherRequest(r) /\ r.live = FALSE
  <2>1. q = [for |-> q.for, hits |-> q.hits, live |-> q.live, seen |-> q.seen,
             missing |-> q.missing]
    BY DEF WeatherRequest
  <2>2. r = [for |-> q.for, hits |-> q.hits, live |-> FALSE, seen |-> q.seen,
             missing |-> q.missing]
    BY <1>1, <2>1
  <2>. QED
    BY <2>2 DEF WeatherRequest
<1>. QED
  BY <1>1 DEF Cancelled

LEMMA CancelledPoints ==
  ASSUME NEW requests, \A r \in requests : PointRequest(r)
  PROVE  \A r \in Cancelled(requests) : PointRequest(r) /\ r.live = FALSE
<1>1. ASSUME NEW q \in requests, NEW r, r = [q EXCEPT !.live = FALSE]
      PROVE  PointRequest(r) /\ r.live = FALSE
  <2>1. q = [for |-> q.for, seen |-> q.seen, live |-> q.live]
    BY DEF PointRequest
  <2>2. r = [for |-> q.for, seen |-> q.seen, live |-> FALSE]
    BY <1>1, <2>1
  <2>. QED
    BY <2>2 DEF PointRequest
<1>. QED
  BY <1>1 DEF Cancelled

\* A run of an effect cancels all, and asks for its key or for nothing.
LEMMA AskedNone ==
  ASSUME NEW old, \A r \in old : r.live = FALSE, NEW key
  PROVE  OneFor(old, key)
BY DEF OneFor, LiveOf

LEMMA AskedOne ==
  ASSUME NEW old, \A r \in old : r.live = FALSE, NEW q, q.live = TRUE
  PROVE  OneFor(old \cup {q}, q.for) /\ LiveOf(old \cup {q}) = {q}
BY DEF OneFor, LiveOf

\* An answer that is taken leaves nothing to wait for.
LEMMA OneLess ==
  ASSUME NEW requests, NEW key, OneFor(requests, key), NEW q \in requests
  PROVE  /\ OneFor(requests \ {q}, key)
         /\ q.live => LiveOf(requests \ {q}) = {}
         /\ ~q.live => LiveOf(requests \ {q}) = LiveOf(requests)
BY DEF OneFor, LiveOf

LEMMA ServicesBegin == ServicesInit => OneAsked
BY DEF ServicesInit, OneAsked, OneFor, LiveOf

-----------------------------------------------------------------------------
(* The steps.                                                              *)

LEMMA EffectsKeep == OneAsked /\ RunEffects => OneAsked'
<1>. SUFFICES ASSUME OneAsked, RunEffects PROVE OneAsked'
  OBVIOUS
<1>1. WeatherEffect /\ RoadEffect /\ ranNights' = PlanNights /\ ranPoints' = RouteKey
  BY DEF RunEffects
<1>2. /\ \A r \in weatherAsks' : WeatherRequest(r)
      /\ OneFor(weatherAsks', ranNights')
      /\ ranNights' # {} => (weatherStatus' = "loading" <=> LiveOf(weatherAsks') # {})
  <2>0. \A r \in Cancelled(weatherAsks) : WeatherRequest(r) /\ r.live = FALSE
    BY CancelledWeather DEF OneAsked
  <2>1. CASE ranNights = PlanNights
    BY <1>1, <2>1 DEF WeatherEffect, OneAsked
  <2>2. CASE ranNights # PlanNights /\ PlanNights = {}
    <3>1. weatherAsks' = Cancelled(weatherAsks) /\ ranNights' = {}
      BY <1>1, <2>2 DEF WeatherEffect
    <3>. QED
      BY <2>0, <3>1, AskedNone
  <2>3. CASE ranNights # PlanNights /\ PlanNights # {}
    <3>1. PICK q : q = FetchWeather(PlanNights)
      OBVIOUS
    <3>2. q.live = TRUE /\ q.for = PlanNights /\ WeatherRequest(q)
      BY <3>1 DEF FetchWeather, WeatherRequest
    <3>3. weatherAsks' = Cancelled(weatherAsks) \cup {q} /\ weatherStatus' = "loading"
      BY <1>1, <2>3, <3>1 DEF WeatherEffect
    <3>4. OneFor(weatherAsks', PlanNights) /\ LiveOf(weatherAsks') # {}
      <4>1. PICK old : old = Cancelled(weatherAsks)
        OBVIOUS
      <4>2. OneFor(old \cup {q}, q.for) /\ LiveOf(old \cup {q}) = {q}
        BY <2>0, <3>2, <4>1, AskedOne
      <4>. QED
        BY <3>2, <3>3, <4>1, <4>2
    <3>. QED
      BY <1>1, <2>0, <3>2, <3>3, <3>4
  <2>. QED
    BY <2>1, <2>2, <2>3
<1>3. /\ \A r \in roadAsks' : PointRequest(r)
      /\ \A r \in heightAsks' : PointRequest(r)
      /\ OneFor(roadAsks', ranPoints') /\ OneFor(heightAsks', ranPoints')
  <2>0. /\ \A r \in Cancelled(roadAsks) : PointRequest(r) /\ r.live = FALSE
        /\ \A r \in Cancelled(heightAsks) : PointRequest(r) /\ r.live = FALSE
    BY CancelledPoints DEF OneAsked
  <2>1. CASE ranPoints = RouteKey
    BY <1>1, <2>1 DEF RoadEffect, OneAsked
  <2>2. CASE ranPoints # RouteKey
    <3>1. PICK p : p = FetchRouteMatrix(RouteKey)
      OBVIOUS
    <3>2. PICK q : q = FetchElevation(RouteKey)
      OBVIOUS
    <3>3. /\ p.live = TRUE /\ p.for = RouteKey /\ PointRequest(p)
          /\ q.live = TRUE /\ q.for = RouteKey /\ PointRequest(q)
      BY <3>1, <3>2 DEF FetchRouteMatrix, FetchElevation, PointRequest
    <3>4. /\ roadAsks' = Cancelled(roadAsks) \cup (IF RouteKey = {} THEN {} ELSE {p})
          /\ heightAsks' = Cancelled(heightAsks) \cup (IF RouteKey = {} THEN {} ELSE {q})
      BY <1>1, <2>2, <3>1, <3>2 DEF RoadEffect
    <3>5. PICK oldRoads, oldHeights :
              oldRoads = Cancelled(roadAsks) /\ oldHeights = Cancelled(heightAsks)
      OBVIOUS
    <3>6. OneFor(roadAsks', RouteKey) /\ OneFor(heightAsks', RouteKey)
      <4>1. CASE RouteKey = {}
        BY <2>0, <3>4, <4>1, AskedNone
      <4>2. CASE RouteKey # {}
        <5>1. OneFor(oldRoads \cup {p}, p.for) /\ OneFor(oldHeights \cup {q}, q.for)
          BY <2>0, <3>3, <3>5, AskedOne
        <5>. QED
          BY <3>3, <3>4, <3>5, <4>2, <5>1
      <4>. QED
        BY <4>1, <4>2
    <3>. QED
      BY <1>1, <2>0, <3>3, <3>4, <3>6
  <2>. QED
    BY <2>1, <2>2
<1>. QED
  BY <1>2, <1>3 DEF OneAsked

LEMMA AnswersKeep == OneAsked /\ AnyAnswer => OneAsked'
<1>. SUFFICES ASSUME OneAsked, AnyAnswer PROVE OneAsked'
  OBVIOUS
<1>1. ASSUME NEW r \in weatherAsks, AnswerWeather(r)
      PROVE  OneAsked'
  <2>1. /\ weatherAsks' = weatherAsks \ {r}
        /\ UNCHANGED <<ranNights, ranPoints, roadAsks, heightAsks>>
        /\ IF r.live THEN weatherStatus' \in {"unavailable", "ok"} ELSE UNCHANGED weatherStatus
    BY <1>1 DEF AnswerWeather, ran
  <2>2. /\ OneFor(weatherAsks', ranNights)
        /\ r.live => LiveOf(weatherAsks') = {}
        /\ ~r.live => LiveOf(weatherAsks') = LiveOf(weatherAsks)
    BY <2>1, OneLess DEF OneAsked
  <2>. QED
    BY <2>1, <2>2 DEF OneAsked
<1>2. ASSUME NEW r \in roadAsks, AnswerRoads(r)
      PROVE  OneAsked'
  <2>1. /\ roadAsks' = roadAsks \ {r}
        /\ UNCHANGED <<ranNights, ranPoints, weatherStatus, weatherAsks, heightAsks>>
    BY <1>2 DEF AnswerRoads, ran
  <2>2. OneFor(roadAsks', ranPoints)
    BY <2>1, OneLess DEF OneAsked
  <2>. QED
    BY <2>1, <2>2 DEF OneAsked
<1>3. ASSUME NEW r \in heightAsks, AnswerHeights(r)
      PROVE  OneAsked'
  <2>1. /\ heightAsks' = heightAsks \ {r}
        /\ UNCHANGED <<ranNights, ranPoints, weatherStatus, weatherAsks, roadAsks>>
    BY <1>3 DEF AnswerHeights, ran
  <2>2. OneFor(heightAsks', ranPoints)
    BY <2>1, OneLess DEF OneAsked
  <2>. QED
    BY <2>1, <2>2 DEF OneAsked
<1>. QED
  BY <1>1, <1>2, <1>3 DEF AnyAnswer

LEMMA UserKeeps ==
  ASSUME OneAsked, (\E w \in Wishes : EditWish(w)) \/ (\E open \in BOOLEAN : SetOpened(open)) \/ ReloadPage
  PROVE  OneAsked'
<1>1. CASE (\E w \in Wishes : EditWish(w)) \/ (\E open \in BOOLEAN : SetOpened(open))
  BY <1>1 DEF EditWish, SetOpened, ran, asks, OneAsked
<1>2. CASE ReloadPage
  BY <1>2 DEF ReloadPage, OneAsked, OneFor, LiveOf
<1>. QED
  BY <1>1, <1>2

LEMMA ServicesStep == OneAsked /\ [ServicesNext]_servicesVars => OneAsked'
<1>1. OneAsked /\ UNCHANGED servicesVars => OneAsked'
  BY DEF servicesVars, app, ran, asks, OneAsked
<1>. QED
  BY <1>1, EffectsKeep, AnswersKeep, UserKeeps DEF ServicesNext

-----------------------------------------------------------------------------
LEMMA OneAtMost ==
  ASSUME NEW S, \A r, s \in S : r = s
  PROVE  Cardinality(S) <= 1
<1>1. CASE S = {}
  BY <1>1, FS_EmptySet
<1>2. CASE S # {}
  <2>1. PICK r : S = {r}
    BY <1>2
  <2>. QED
    BY <2>1, FS_Singleton
<1>. QED
  BY <1>1, <1>2

LEMMA AnswersFollow == OneAsked => AnswersAreForThePlan
<1>. SUFFICES ASSUME OneAsked, Flushed PROVE
          /\ PlanOpen => (weatherStatus = "loading" <=> LiveOf(weatherAsks) # {})
          /\ \A r \in LiveOf(weatherAsks) : r.for = PlanNights
          /\ \A r \in LiveOf(roadAsks) : r.for = RouteKey
          /\ \A r \in LiveOf(heightAsks) : r.for = RouteKey
          /\ Cardinality(LiveOf(weatherAsks)) <= 1 /\ Cardinality(LiveOf(roadAsks)) <= 1
  BY DEF AnswersAreForThePlan, LiveOf
<1>1. ranNights = PlanNights /\ ranPoints = RouteKey
  BY DEF Flushed
<1>. QED
  BY <1>1, OneAtMost DEF OneAsked, OneFor, PlanOpen

(* App.tsx, the cancelled flags of the two effects: however late an answer *)
(* comes, and whatever the user edits, closes and reloads meanwhile, the   *)
(* page takes it only for the nights and points it asked for, and the plan *)
(* says that it waits for the weather exactly while it does.               *)
THEOREM AnswersReachTheirPlan == ServicesSpec => []AnswersAreForThePlan
BY ServicesBegin, ServicesStep, AnswersFollow, PTL DEF ServicesSpec

-----------------------------------------------------------------------------
(* THE PLANNER. A plan is made step by step, and at every step the days    *)
(* that are full, the totals, the route and what is left of it agree.      *)

-----------------------------------------------------------------------------
(* Sequences and the sets of their elements.                               *)
LEMMA AppendedSet ==
  ASSUME NEW B, NEW s \in Seq(B), NEW e \in B
  PROVE  ToSet(Append(s, e)) = ToSet(s) \cup {e}
<1>1. PICK t : t = Append(s, e)
  OBVIOUS
<1>2. /\ DOMAIN t = 1 .. Len(s) + 1 /\ DOMAIN s = 1 .. Len(s) /\ Len(s) \in Nat
      /\ t[Len(s) + 1] = e /\ \A i \in 1 .. Len(s) : t[i] = s[i]
  BY <1>1
<1>3. DOMAIN t = DOMAIN s \cup {Len(s) + 1}
  BY <1>2
<1>. QED
  BY <1>1, <1>2, <1>3 DEF ToSet

LEMMA AppendedInjective ==
  ASSUME NEW B, NEW s \in Seq(B), NEW e \in B
  PROVE  IsInjective(Append(s, e)) <=> IsInjective(s) /\ e \notin ToSet(s)
<1>1. PICK t : t = Append(s, e)
  OBVIOUS
<1>2. PICK n : n = Len(s)
  OBVIOUS
<1>3. /\ DOMAIN t = 1 .. n + 1 /\ DOMAIN s = 1 .. n /\ n \in Nat
      /\ t[n + 1] = e /\ \A i \in 1 .. n : t[i] = s[i]
  BY <1>1, <1>2
<1>4. DOMAIN t = DOMAIN s \cup {n + 1} /\ n + 1 \notin DOMAIN s
  BY <1>3
<1>. QED
  BY <1>1, <1>3, <1>4 DEF ToSet, IsInjective

(* Where, one element after the other.                                     *)
Keeps(B, S) == [e \in Seq(B) \X B |-> IF e[2] \in S THEN Append(e[1], e[2]) ELSE e[1]]

LEMMA WhereFolds ==
  ASSUME NEW B, NEW S, NEW s \in Seq(B)
  PROVE  /\ Foldable(Seq(B), B, Keeps(B, S), <<>>, s)
         /\ Where(s, S) = Folded(Seq(B), Keeps(B, S), <<>>, s)
<1>. DEFINE Dom == DOMAIN s
            After(t, x) == IF x \in S THEN Append(t, x) ELSE t
            Eqn(f) == f = [T \in SUBSET Dom |->
                        IF T = {} THEN <<>> ELSE After(f[T \ {Max(T)}], s[Max(T)])]
            F == CHOOSE f : Eqn(f)
<1>1. Where(s, S) = F[Dom]
  BY DEF Where, FoldLeft, MapThenFoldSet
<1>2. Dom = 1 .. Len(s) /\ Len(s) \in Nat /\ \A i \in Dom : s[i] \in B
  OBVIOUS
<1>. HIDE DEF Dom
<1>3. PICK g : g = Keeps(B, S)
  OBVIOUS
<1>4. \A t \in Seq(B), x \in B : After(t, x) \in Seq(B)
  OBVIOUS
<1>5. g \in [Seq(B) \X B -> Seq(B)] /\ \A t \in Seq(B), x \in B : g[<<t, x>>] = After(t, x)
  BY <1>3, <1>4 DEF Keeps
<1>. HIDE DEF After
<1>6. <<>> \in Seq(B)
  OBVIOUS
<1>7. Foldable(Seq(B), B, g, <<>>, s)
  BY <1>5, <1>6 DEF Foldable
<1>8. \A T \in SUBSET Dom : T # {} => s[Max(T)] \in B
  <2>1. \A T \in SUBSET Dom : T # {} => Max(T) \in T
    BY <1>2, MaxIsOne
  <2>. QED
    BY <1>2, <2>1
<1>9. \E f : Eqn(f)
  <2>1. PICK f : IsLeftFold(Seq(B), g, <<>>, s, f)
    BY <1>7, LeftFoldExists
  <2>2. /\ f \in [SUBSET Dom -> Seq(B)] /\ f[{}] = <<>>
        /\ \A T \in SUBSET Dom : T # {} => f[T] = g[<<f[T \ {Max(T)}], s[Max(T)]>>]
    BY <1>2, <2>1 DEF IsLeftFold
  <2>3. ASSUME NEW T \in SUBSET Dom, T # {} PROVE f[T] = After(f[T \ {Max(T)}], s[Max(T)])
    <3>1. f[T \ {Max(T)}] \in Seq(B) /\ s[Max(T)] \in B
      BY <1>8, <2>2, <2>3
    <3>2. f[T] = g[<<f[T \ {Max(T)}], s[Max(T)]>>]
      BY <2>2, <2>3
    <3>. QED
      BY <1>5, <3>1, <3>2
  <2>4. Eqn(f)
    BY <2>2, <2>3
  <2>. QED
    BY <2>4
<1>10. Eqn(F)
  BY <1>9
<1>. HIDE DEF F
<1>11. ASSUME NEW T \in SUBSET Dom, T # {}, F[T \ {Max(T)}] \in Seq(B)
       PROVE  F[T] = g[<<F[T \ {Max(T)}], s[Max(T)]>>]
  <2>1. F[T] = After(F[T \ {Max(T)}], s[Max(T)])
    BY <1>10, <1>11
  <2>. QED
    BY <1>5, <1>8, <1>11, <2>1
<1>12. F[{}] = <<>>
  BY <1>10
<1>13. FoldsLeft(Seq(B), g, <<>>, s, F)
  BY <1>2, <1>11, <1>12 DEF FoldsLeft
<1>14. F[1 .. Len(s)] = Folded(Seq(B), g, <<>>, s)
  BY <1>7, <1>13, LeftFoldRuns
<1>. QED
  BY <1>1, <1>2, <1>3, <1>7, <1>14

LEMMA WhereOfNone ==
  ASSUME NEW S
  PROVE  Where(<<>>, S) = <<>>
<1>1. PICK B : B = {}
  OBVIOUS
<1>2. <<>> \in Seq(B)
  OBVIOUS
<1>3. Foldable(Seq(B), B, Keeps(B, S), <<>>, <<>>) /\ Where(<<>>, S) = Folded(Seq(B), Keeps(B, S), <<>>, <<>>)
  BY <1>2, WhereFolds
<1>. QED
  BY <1>3, FoldedEmpty DEF Foldable

LEMMA WhereAppend ==
  ASSUME NEW B, NEW S, NEW s \in Seq(B), NEW e \in B
  PROVE  /\ Where(s, S) \in Seq(B)
         /\ Where(Append(s, e), S) = IF e \in S THEN Append(Where(s, S), e) ELSE Where(s, S)
<1>1. PICK g : g = Keeps(B, S)
  OBVIOUS
<1>2. Append(s, e) \in Seq(B)
  OBVIOUS
<1>3. /\ Foldable(Seq(B), B, g, <<>>, s)
      /\ Where(s, S) = Folded(Seq(B), g, <<>>, s)
      /\ Where(Append(s, e), S) = Folded(Seq(B), g, <<>>, Append(s, e))
  BY <1>1, <1>2, WhereFolds
<1>4. Where(s, S) \in Seq(B)
  BY <1>3, FoldedType
<1>5. Where(Append(s, e), S) = g[<<Where(s, S), e>>]
  BY <1>3, FoldedAppend
<1>. QED
  BY <1>1, <1>4, <1>5 DEF Keeps

LEMMA NoElements ==
  ASSUME NEW B
  PROVE  <<>> \in Seq(B) /\ ToSet(<<>>) = {} /\ IsInjective(<<>>)
<1>1. DOMAIN <<>> = {}
  OBVIOUS
<1>2. <<>> \in Seq(B)
  OBVIOUS
<1>. QED
  BY <1>1, <1>2 DEF ToSet, IsInjective

LEMMA NothingIsEmpty ==
  ASSUME NEW B, NEW s \in Seq(B)
  PROVE  /\ ToSet(s) = {} <=> s = <<>>
         /\ ToSet(s) \subseteq B /\ \A i \in DOMAIN s : s[i] \in ToSet(s)
<1>1. DOMAIN s = 1 .. Len(s) /\ Len(s) \in Nat /\ \A i \in 1 .. Len(s) : s[i] \in B
  OBVIOUS
<1>2. Len(s) = 0 <=> s = <<>>
  OBVIOUS
<1>3. Len(s) # 0 => 1 \in DOMAIN s
  BY <1>1
<1>4. Len(s) = 0 => DOMAIN s = {}
  BY <1>1
<1>. QED
  BY <1>1, <1>2, <1>3, <1>4 DEF ToSet

LEMMA WhereChooses ==
  ASSUME NEW B, NEW S, NEW s \in Seq(B)
  PROVE  /\ Where(s, S) \in Seq(B)
         /\ ToSet(Where(s, S)) = ToSet(s) \cap S
         /\ IsInjective(s) => IsInjective(Where(s, S))
<1>. DEFINE Fine(t) == /\ Where(t, S) \in Seq(B)
                       /\ ToSet(Where(t, S)) = ToSet(t) \cap S
                       /\ IsInjective(t) => IsInjective(Where(t, S))
            G == {t \in Seq(B) : Fine(t)}
<1>1. <<>> \in G
  <2>1. PICK e : e = <<>>
    OBVIOUS
  <2>2. e \in Seq(B) /\ ToSet(e) = {} /\ IsInjective(e) /\ Where(e, S) = e
    BY <2>1, NoElements, WhereOfNone, Zenon
  <2>3. Fine(e)
    BY <2>2
  <2>. HIDE DEF Fine
  <2>. QED
    BY <2>1, <2>2, <2>3
<1>2. ASSUME NEW t \in Seq(B), NEW e \in B, t \in G PROVE Append(t, e) \in G
  <2>1. PICK u : u = Append(t, e)
    OBVIOUS
  <2>2. PICK w : w = Where(t, S)
    OBVIOUS
  <2>3. /\ u \in Seq(B) /\ w \in Seq(B) /\ ToSet(w) = ToSet(t) \cap S
        /\ IsInjective(t) => IsInjective(w)
        /\ Where(u, S) = IF e \in S THEN Append(w, e) ELSE w
    BY <1>2, <2>1, <2>2, WhereAppend
  <2>4. ToSet(u) = ToSet(t) \cup {e} /\ ToSet(Append(w, e)) = ToSet(w) \cup {e}
    BY <2>1, <2>3, AppendedSet
  <2>5. IsInjective(u) => IsInjective(t) /\ e \notin ToSet(t)
    BY <2>1, AppendedInjective
  <2>6. IsInjective(w) /\ e \notin ToSet(w) => IsInjective(Append(w, e))
    BY <2>3, AppendedInjective
  <2>7. PICK v : v = Append(w, e)
    OBVIOUS
  <2>8. v \in Seq(B)
    BY <2>3, <2>7
  <2>9. Fine(u)
    <3>1. Where(u, S) \in Seq(B)
      BY <2>3, <2>7, <2>8
    <3>2. ToSet(Where(u, S)) = ToSet(u) \cap S
      BY <2>3, <2>4, Zenon
    <3>3. IsInjective(u) => IsInjective(Where(u, S))
      BY <2>3, <2>4, <2>5, <2>6
    <3>. QED
      BY <3>1, <3>2, <3>3
  <2>. HIDE DEF Fine
  <2>. QED
    BY <2>1, <2>3, <2>9
<1>3. Seq(B) \subseteq G
  <2>. HIDE DEF G
  <2>. QED
    BY <1>1, <1>2, InductionOnSeq
<1>. QED
  BY <1>3

\* All of them, or all but the first.
LEMMA WhereAll ==
  ASSUME NEW B, NEW S, NEW s \in Seq(B), ToSet(s) \subseteq S
  PROVE  Where(s, S) = s
<1>. DEFINE G == {t \in Seq(B) : ToSet(t) \subseteq S => Where(t, S) = t}
<1>1. <<>> \in G
  BY WhereOfNone
<1>2. ASSUME NEW t \in Seq(B), NEW e \in B, t \in G PROVE Append(t, e) \in G
  <2>1. Where(Append(t, e), S) = IF e \in S THEN Append(Where(t, S), e) ELSE Where(t, S)
    BY WhereAppend
  <2>2. ToSet(Append(t, e)) = ToSet(t) \cup {e}
    BY AppendedSet
  <2>. QED
    BY <1>2, <2>1, <2>2
<1>3. Seq(B) \subseteq G
  <2>. HIDE DEF G
  <2>. QED
    BY <1>1, <1>2, InductionOnSeq
<1>. QED
  BY <1>3

LEMMA WhereNone ==
  ASSUME NEW B, NEW S, NEW s \in Seq(B), ToSet(s) \cap S = {}
  PROVE  Where(s, S) = <<>>
BY WhereChooses, NothingIsEmpty

LEMMA WhereRest ==
  ASSUME NEW B, NEW S, NEW h \in B, h \notin S, NEW s \in Seq(B), ToSet(s) \subseteq S
  PROVE  Where(<<h>> \o s, S) = s
<1>. DEFINE G == {t \in Seq(B) : ToSet(t) \subseteq S => Where(<<h>> \o t, S) = t}
<1>1. <<>> \in G
  <2>1. PICK e : e = <<>>
    OBVIOUS
  <2>2. e \in Seq(B) /\ Where(e, S) = e
    BY <2>1, NoElements, WhereOfNone
  <2>3. <<h>> \o e = Append(e, h)
    BY <2>1
  <2>4. Where(Append(e, h), S) = Where(e, S)
    BY <2>2, WhereAppend
  <2>. QED
    BY <2>1, <2>2, <2>3, <2>4
<1>2. ASSUME NEW t \in Seq(B), NEW e \in B, t \in G PROVE Append(t, e) \in G
  <2>1. PICK u : u = <<h>> \o t
    OBVIOUS
  <2>2. PICK v : v = Append(t, e)
    OBVIOUS
  <2>3. u \in Seq(B) /\ v \in Seq(B) /\ <<h>> \o v = Append(u, e)
    BY <2>1, <2>2
  <2>4. Where(Append(u, e), S) = IF e \in S THEN Append(Where(u, S), e) ELSE Where(u, S)
    BY <2>3, WhereAppend
  <2>5. ToSet(v) = ToSet(t) \cup {e}
    BY <2>2, AppendedSet
  <2>6. ToSet(v) \subseteq S => Where(<<h>> \o v, S) = v
    <3>. SUFFICES ASSUME ToSet(v) \subseteq S PROVE Where(<<h>> \o v, S) = v
      OBVIOUS
    <3>1. ToSet(t) \subseteq S /\ e \in S
      BY <2>5
    <3>2. Where(u, S) = t
      BY <1>2, <2>1, <3>1
    <3>. QED
      BY <2>2, <2>3, <2>4, <3>1, <3>2
  <2>. QED
    BY <2>2, <2>3, <2>6
<1>3. Seq(B) \subseteq G
  <2>. HIDE DEF G
  <2>. QED
    BY <1>1, <1>2, InductionOnSeq
<1>. QED
  BY <1>3

(* Sums of a sequence.                                                     *)
Adds == [e \in Int \X Int |-> e[1] + e[2]]

LEMMA SumFolds ==
  ASSUME NEW s \in Seq(Int)
  PROVE  /\ Foldable(Int, Int, Adds, 0, s)
         /\ Sum(s) = Folded(Int, Adds, 0, s)
<1>. DEFINE Dom == DOMAIN s
            A == Int
            After(t, x) == t + x
            Eqn(f) == f = [T \in SUBSET Dom |->
                        IF T = {} THEN 0 ELSE After(f[T \ {Max(T)}], s[Max(T)])]
            F == CHOOSE f : Eqn(f)
<1>1. Sum(s) = F[Dom]
  BY DEF Sum, FoldLeft, MapThenFoldSet
<1>2. Dom = 1 .. Len(s) /\ Len(s) \in Nat /\ \A i \in Dom : s[i] \in Int
  OBVIOUS
<1>. HIDE DEF Dom
<1>3. PICK g : g = Adds
  OBVIOUS
<1>4. \A t \in A, x \in Int : After(t, x) \in A
  OBVIOUS
<1>5. g \in [A \X Int -> A] /\ \A t \in A, x \in Int : g[<<t, x>>] = After(t, x)
  BY <1>3, <1>4 DEF Adds
<1>. HIDE DEF After
<1>6. PICK b : b = 0
  OBVIOUS
<1>7. b \in A
  BY <1>6
<1>8. Foldable(A, Int, g, b, s)
  BY <1>5, <1>7 DEF Foldable
<1>. HIDE DEF A
<1>9. \A T \in SUBSET Dom : T # {} => s[Max(T)] \in Int
  <2>1. \A T \in SUBSET Dom : T # {} => Max(T) \in T
    BY <1>2, MaxIsOne
  <2>. QED
    BY <1>2, <2>1
<1>10. \E f : Eqn(f)
  <2>1. PICK f : IsLeftFold(A, g, b, s, f)
    BY <1>8, LeftFoldExists
  <2>2. /\ f \in [SUBSET Dom -> A] /\ f[{}] = b
        /\ \A T \in SUBSET Dom : T # {} => f[T] = g[<<f[T \ {Max(T)}], s[Max(T)]>>]
    BY <1>2, <2>1 DEF IsLeftFold
  <2>3. ASSUME NEW T \in SUBSET Dom, T # {} PROVE f[T] = After(f[T \ {Max(T)}], s[Max(T)])
    BY <1>5, <1>9, <2>2, <2>3
  <2>4. Eqn(f)
    BY <1>6, <2>2, <2>3
  <2>. QED
    BY <2>4
<1>11. Eqn(F)
  BY <1>10
<1>. HIDE DEF F
<1>12. ASSUME NEW T \in SUBSET Dom, T # {}, F[T \ {Max(T)}] \in A
       PROVE  F[T] = g[<<F[T \ {Max(T)}], s[Max(T)]>>]
  <2>1. F[T] = After(F[T \ {Max(T)}], s[Max(T)])
    BY <1>11, <1>12
  <2>. QED
    BY <1>5, <1>9, <1>12, <2>1
<1>13. F[{}] = b
  BY <1>6, <1>11
<1>14. FoldsLeft(A, g, b, s, F)
  BY <1>2, <1>12, <1>13 DEF FoldsLeft
<1>15. F[1 .. Len(s)] = Folded(A, g, b, s)
  BY <1>8, <1>14, LeftFoldRuns
<1>. QED
  BY <1>1, <1>2, <1>3, <1>6, <1>8, <1>15 DEF A

LEMMA SumGrows ==
  ASSUME NEW s \in Seq(Int), NEW e \in Int
  PROVE  /\ Sum(s) \in Int
         /\ Sum(Append(s, e)) = Sum(s) + e
<1>1. PICK g : g = Adds
  OBVIOUS
<1>2. Append(s, e) \in Seq(Int)
  OBVIOUS
<1>3. /\ Foldable(Int, Int, g, 0, s)
      /\ Sum(s) = Folded(Int, g, 0, s)
      /\ Sum(Append(s, e)) = Folded(Int, g, 0, Append(s, e))
  BY <1>1, <1>2, SumFolds
<1>4. Sum(s) \in Int
  BY <1>3, FoldedType
<1>5. Sum(Append(s, e)) = g[<<Sum(s), e>>]
  BY <1>3, FoldedAppend
<1>. QED
  BY <1>1, <1>4, <1>5 DEF Adds

LEMMA SumOfNone == Sum(<<>>) = 0
<1>1. PICK e : e = <<>>
  OBVIOUS
<1>2. e \in Seq(Int)
  BY <1>1
<1>3. Foldable(Int, Int, Adds, 0, e) /\ Sum(e) = Folded(Int, Adds, 0, e)
  BY <1>2, SumFolds
<1>. QED
  BY <1>1, <1>3, FoldedEmpty DEF Foldable

LEMMA SumOfNumbers ==
  ASSUME NEW s \in Seq(Nat)
  PROVE  Sum(s) \in Nat
<1>. DEFINE G == {t \in Seq(Nat) : Sum(t) \in Nat}
<1>1. <<>> \in G
  BY SumOfNone
<1>2. ASSUME NEW t \in Seq(Nat), NEW e \in Nat, t \in G PROVE Append(t, e) \in G
  <2>1. t \in Seq(Int) /\ e \in Int /\ Append(t, e) \in Seq(Nat)
    OBVIOUS
  <2>2. Sum(Append(t, e)) = Sum(t) + e
    BY <2>1, SumGrows
  <2>. QED
    BY <1>2, <2>1, <2>2
<1>3. Seq(Nat) \subseteq G
  <2>. HIDE DEF G
  <2>. QED
    BY <1>1, <1>2, InductionOnSeq
<1>. QED
  BY <1>3

(* The best of a list is one of it.                                        *)
Nearer(B, v) == [e \in B \X B |-> IF v[e[2]] < v[e[1]] THEN e[2] ELSE e[1]]

LEMMA FirstBestFolds ==
  ASSUME NEW B, NEW v, NEW s \in Seq(B), s # <<>>
  PROVE  /\ Foldable(B, B, Nearer(B, v), Head(s), s)
         /\ FirstBest(s, v) = Folded(B, Nearer(B, v), Head(s), s)
<1>. DEFINE Dom == DOMAIN s
            A == B
            After(t, x) == IF v[x] < v[t] THEN x ELSE t
            Eqn(f) == f = [T \in SUBSET Dom |->
                        IF T = {} THEN Head(s) ELSE After(f[T \ {Max(T)}], s[Max(T)])]
            F == CHOOSE f : Eqn(f)
<1>1. FirstBest(s, v) = F[Dom]
  BY DEF FirstBest, FoldLeft, MapThenFoldSet
<1>2. Dom = 1 .. Len(s) /\ Len(s) \in Nat /\ \A i \in Dom : s[i] \in B
  OBVIOUS
<1>. HIDE DEF Dom
<1>3. PICK g : g = Nearer(B, v)
  OBVIOUS
<1>4. \A t \in A, x \in B : After(t, x) \in A
  OBVIOUS
<1>5. g \in [A \X B -> A] /\ \A t \in A, x \in B : g[<<t, x>>] = After(t, x)
  BY <1>3, <1>4 DEF Nearer
<1>. HIDE DEF After
<1>6. PICK b : b = Head(s)
  OBVIOUS
<1>7. b \in A
  BY <1>6
<1>8. Foldable(A, B, g, b, s)
  BY <1>5, <1>7 DEF Foldable
<1>. HIDE DEF A
<1>9. \A T \in SUBSET Dom : T # {} => s[Max(T)] \in B
  <2>1. \A T \in SUBSET Dom : T # {} => Max(T) \in T
    BY <1>2, MaxIsOne
  <2>. QED
    BY <1>2, <2>1
<1>10. \E f : Eqn(f)
  <2>1. PICK f : IsLeftFold(A, g, b, s, f)
    BY <1>8, LeftFoldExists
  <2>2. /\ f \in [SUBSET Dom -> A] /\ f[{}] = b
        /\ \A T \in SUBSET Dom : T # {} => f[T] = g[<<f[T \ {Max(T)}], s[Max(T)]>>]
    BY <1>2, <2>1 DEF IsLeftFold
  <2>3. ASSUME NEW T \in SUBSET Dom, T # {} PROVE f[T] = After(f[T \ {Max(T)}], s[Max(T)])
    BY <1>5, <1>9, <2>2, <2>3
  <2>4. Eqn(f)
    BY <1>6, <2>2, <2>3
  <2>. QED
    BY <2>4
<1>11. Eqn(F)
  BY <1>10
<1>. HIDE DEF F
<1>12. ASSUME NEW T \in SUBSET Dom, T # {}, F[T \ {Max(T)}] \in A
       PROVE  F[T] = g[<<F[T \ {Max(T)}], s[Max(T)]>>]
  <2>1. F[T] = After(F[T \ {Max(T)}], s[Max(T)])
    BY <1>11, <1>12
  <2>. QED
    BY <1>5, <1>9, <1>12, <2>1
<1>13. F[{}] = b
  BY <1>6, <1>11
<1>14. FoldsLeft(A, g, b, s, F)
  BY <1>2, <1>12, <1>13 DEF FoldsLeft
<1>15. F[1 .. Len(s)] = Folded(A, g, b, s)
  BY <1>8, <1>14, LeftFoldRuns
<1>. QED
  BY <1>1, <1>2, <1>3, <1>6, <1>8, <1>15 DEF A

LEMMA BestIsOne ==
  ASSUME NEW B, NEW v, NEW s \in Seq(B), s # <<>>
  PROVE  FirstBest(s, v) \in ToSet(s)
<1>1. PICK D : D = ToSet(s)
  OBVIOUS
<1>2. s \in Seq(D)
  BY <1>1 DEF ToSet
<1>3. Foldable(D, D, Nearer(D, v), Head(s), s) /\ FirstBest(s, v) = Folded(D, Nearer(D, v), Head(s), s)
  BY <1>2, FirstBestFolds
<1>. QED
  BY <1>1, <1>3, FoldedType

Better(B) == [e \in B \X B |-> IF e[2].score * e[1].added > e[1].score * e[2].added THEN e[2] ELSE e[1]]

LEMMA InsertionFolds ==
  ASSUME NEW B, NEW s \in Seq(B), s # <<>>
  PROVE  /\ Foldable(B, B, Better(B), Head(s), s)
         /\ BestInsertion(s) = Folded(B, Better(B), Head(s), s)
<1>. DEFINE Dom == DOMAIN s
            A == B
            After(t, x) == IF x.score * t.added > t.score * x.added THEN x ELSE t
            Eqn(f) == f = [T \in SUBSET Dom |->
                        IF T = {} THEN Head(s) ELSE After(f[T \ {Max(T)}], s[Max(T)])]
            F == CHOOSE f : Eqn(f)
<1>1. BestInsertion(s) = F[Dom]
  BY DEF BestInsertion, FoldLeft, MapThenFoldSet
<1>2. Dom = 1 .. Len(s) /\ Len(s) \in Nat /\ \A i \in Dom : s[i] \in B
  OBVIOUS
<1>. HIDE DEF Dom
<1>3. PICK g : g = Better(B)
  OBVIOUS
<1>4. \A t \in A, x \in B : After(t, x) \in A
  OBVIOUS
<1>5. g \in [A \X B -> A] /\ \A t \in A, x \in B : g[<<t, x>>] = After(t, x)
  BY <1>3, <1>4 DEF Better
<1>. HIDE DEF After
<1>6. PICK b : b = Head(s)
  OBVIOUS
<1>7. b \in A
  BY <1>6
<1>8. Foldable(A, B, g, b, s)
  BY <1>5, <1>7 DEF Foldable
<1>. HIDE DEF A
<1>9. \A T \in SUBSET Dom : T # {} => s[Max(T)] \in B
  <2>1. \A T \in SUBSET Dom : T # {} => Max(T) \in T
    BY <1>2, MaxIsOne
  <2>. QED
    BY <1>2, <2>1
<1>10. \E f : Eqn(f)
  <2>1. PICK f : IsLeftFold(A, g, b, s, f)
    BY <1>8, LeftFoldExists
  <2>2. /\ f \in [SUBSET Dom -> A] /\ f[{}] = b
        /\ \A T \in SUBSET Dom : T # {} => f[T] = g[<<f[T \ {Max(T)}], s[Max(T)]>>]
    BY <1>2, <2>1 DEF IsLeftFold
  <2>3. ASSUME NEW T \in SUBSET Dom, T # {} PROVE f[T] = After(f[T \ {Max(T)}], s[Max(T)])
    BY <1>5, <1>9, <2>2, <2>3
  <2>4. Eqn(f)
    BY <1>6, <2>2, <2>3
  <2>. QED
    BY <2>4
<1>11. Eqn(F)
  BY <1>10
<1>. HIDE DEF F
<1>12. ASSUME NEW T \in SUBSET Dom, T # {}, F[T \ {Max(T)}] \in A
       PROVE  F[T] = g[<<F[T \ {Max(T)}], s[Max(T)]>>]
  <2>1. F[T] = After(F[T \ {Max(T)}], s[Max(T)])
    BY <1>11, <1>12
  <2>. QED
    BY <1>5, <1>9, <1>12, <2>1
<1>13. F[{}] = b
  BY <1>6, <1>11
<1>14. FoldsLeft(A, g, b, s, F)
  BY <1>2, <1>12, <1>13 DEF FoldsLeft
<1>15. F[1 .. Len(s)] = Folded(A, g, b, s)
  BY <1>8, <1>14, LeftFoldRuns
<1>. QED
  BY <1>1, <1>2, <1>3, <1>6, <1>8, <1>15 DEF A

LEMMA InsertionIsOne ==
  ASSUME NEW B, NEW s \in Seq(B), s # <<>>
  PROVE  BestInsertion(s) \in ToSet(s)
<1>1. PICK D : D = ToSet(s)
  OBVIOUS
<1>2. s \in Seq(D)
  BY <1>1 DEF ToSet
<1>3. Foldable(D, D, Better(D), Head(s), s) /\ BestInsertion(s) = Folded(D, Better(D), Head(s), s)
  BY <1>2, InsertionFolds
<1>. QED
  BY <1>1, <1>3, FoldedType

(* The points in some order: each of them once.                            *)
Tours(P) == {o \in Seq(P) : IsInjective(o) /\ ToSet(o) = P}
Paths(P) == {o \in Seq(P) : IsInjective(o)}

LEMMA PathCounts ==
  ASSUME NEW B, NEW s \in Seq(B)
  PROVE  /\ IsFiniteSet(ToSet(s))
         /\ IsInjective(s) => Cardinality(ToSet(s)) = Len(s)
<1>. DEFINE Fine(t) == IsFiniteSet(ToSet(t)) /\ (IsInjective(t) => Cardinality(ToSet(t)) = Len(t))
            G == {t \in Seq(B) : Fine(t)}
<1>1. <<>> \in G
  <2>1. PICK e : e = <<>>
    OBVIOUS
  <2>2. e \in Seq(B) /\ ToSet(e) = {} /\ Len(e) = 0
    BY <2>1, NoElements
  <2>3. Fine(e)
    BY <2>2, FS_EmptySet
  <2>. HIDE DEF Fine
  <2>. QED
    BY <2>1, <2>2, <2>3
<1>2. ASSUME NEW t \in Seq(B), NEW e \in B, t \in G PROVE Append(t, e) \in G
  <2>1. PICK u : u = Append(t, e)
    OBVIOUS
  <2>2. u \in Seq(B) /\ Len(u) = Len(t) + 1 /\ ToSet(u) = ToSet(t) \cup {e}
    BY <2>1, AppendedSet
  <2>3. IsInjective(u) => IsInjective(t) /\ e \notin ToSet(t)
    BY <2>1, AppendedInjective
  <2>4. Fine(u)
    <3>1. IsFiniteSet(ToSet(t)) /\ (IsInjective(t) => Cardinality(ToSet(t)) = Len(t))
      BY <1>2
    <3>2. /\ IsFiniteSet(ToSet(t) \cup {e})
          /\ e \notin ToSet(t) => Cardinality(ToSet(t) \cup {e}) = Cardinality(ToSet(t)) + 1
      BY <3>1, FS_AddElement
    <3>. QED
      BY <2>2, <2>3, <3>1, <3>2
  <2>. HIDE DEF Fine
  <2>. QED
    BY <2>1, <2>2, <2>4
<1>3. Seq(B) \subseteq G
  <2>. HIDE DEF G
  <2>. QED
    BY <1>1, <1>2, InductionOnSeq
<1>. QED
  BY <1>3

(* Always on to the nearest.                                               *)
NextStop(start, points, t) ==
    LET cur  == IF t = <<>> THEN start ELSE Last(t)
        left == Where(points, ToSet(points) \ ToSet(t))
    IN  IF left = <<>> THEN t ELSE Append(t, FirstBest(left, Straight[cur]))

\* Nothing is left, or one that was left comes next.
GoesOn(points, t, n) ==
    \/ n = t /\ ToSet(points) \subseteq ToSet(t)
    \/ \E e \in ToSet(points) \ ToSet(t) : n = Append(t, e)

Onward(P, start, points) == [e \in Paths(P) \X P |-> NextStop(start, points, e[1])]

LEMMA NextStopIsNew ==
  ASSUME NEW P, NEW start, NEW points \in Seq(P), NEW t \in Paths(P)
  PROVE  GoesOn(points, t, NextStop(start, points, t))
<1>1. PICK left : left = Where(points, ToSet(points) \ ToSet(t))
  OBVIOUS
<1>2. PICK cur : cur = IF t = <<>> THEN start ELSE Last(t)
  OBVIOUS
<1>3. NextStop(start, points, t) = IF left = <<>> THEN t ELSE Append(t, FirstBest(left, Straight[cur]))
  BY <1>1, <1>2 DEF NextStop
<1>4. left \in Seq(P) /\ ToSet(left) = ToSet(points) \cap (ToSet(points) \ ToSet(t))
  BY <1>1, WhereChooses
<1>5. CASE left = <<>>
  <2>1. ToSet(left) = {}
    BY <1>4, <1>5, NothingIsEmpty
  <2>. QED
    BY <1>3, <1>4, <1>5, <2>1 DEF GoesOn
<1>6. CASE left # <<>>
  <2>1. FirstBest(left, Straight[cur]) \in ToSet(left)
    BY <1>4, <1>6, BestIsOne
  <2>. QED
    BY <1>3, <1>4, <1>6, <2>1 DEF GoesOn
<1>. QED
  BY <1>5, <1>6

LEMMA NextStopIsAPath ==
  ASSUME NEW P, NEW start, NEW points \in Seq(P), NEW t \in Paths(P)
  PROVE  NextStop(start, points, t) \in Paths(P)
<1>1. ASSUME NEW e \in ToSet(points) \ ToSet(t) PROVE Append(t, e) \in Paths(P)
  <2>1. e \in P /\ t \in Seq(P) /\ IsInjective(t)
    BY NothingIsEmpty DEF Paths
  <2>2. PICK u : u = Append(t, e)
    OBVIOUS
  <2>3. u \in Seq(P) /\ IsInjective(u)
    BY <2>1, <2>2, AppendedInjective
  <2>. QED
    BY <2>2, <2>3 DEF Paths
<1>2. PICK n : n = NextStop(start, points, t)
  OBVIOUS
<1>3. GoesOn(points, t, n)
  BY <1>2, NextStopIsNew
<1>. QED
  BY <1>1, <1>2, <1>3 DEF GoesOn

LEMMA OnwardFolds ==
  ASSUME NEW P, NEW start, NEW s \in Seq(P)
  PROVE  /\ Foldable(Paths(P), P, Onward(P, start, s), <<>>, s)
         /\ NearestNeighbor(start, s) = Folded(Paths(P), Onward(P, start, s), <<>>, s)
<1>. DEFINE Dom == DOMAIN s
            A == Paths(P)
            After(t, x) == NextStop(start, s, t)
            Eqn(f) == f = [T \in SUBSET Dom |->
                        IF T = {} THEN <<>> ELSE After(f[T \ {Max(T)}], s[Max(T)])]
            F == CHOOSE f : Eqn(f)
<1>1. NearestNeighbor(start, s) = F[Dom]
  BY DEF NearestNeighbor, NextStop, FoldLeft, MapThenFoldSet
<1>2. Dom = 1 .. Len(s) /\ Len(s) \in Nat /\ \A i \in Dom : s[i] \in P
  OBVIOUS
<1>. HIDE DEF Dom
<1>3. PICK g : g = Onward(P, start, s)
  OBVIOUS
<1>4. \A t \in A, x \in P : After(t, x) \in A
  BY NextStopIsAPath
<1>5. g \in [A \X P -> A] /\ \A t \in A, x \in P : g[<<t, x>>] = After(t, x)
  BY <1>3, <1>4 DEF Onward
<1>. HIDE DEF After
<1>6. PICK b : b = <<>>
  OBVIOUS
<1>7. b \in A
  BY <1>6, NoElements DEF Paths
<1>8. Foldable(A, P, g, b, s)
  BY <1>5, <1>7 DEF Foldable
<1>. HIDE DEF A
<1>9. \A T \in SUBSET Dom : T # {} => s[Max(T)] \in P
  <2>1. \A T \in SUBSET Dom : T # {} => Max(T) \in T
    BY <1>2, MaxIsOne
  <2>. QED
    BY <1>2, <2>1
<1>10. \E f : Eqn(f)
  <2>1. PICK f : IsLeftFold(A, g, b, s, f)
    BY <1>8, LeftFoldExists
  <2>2. /\ f \in [SUBSET Dom -> A] /\ f[{}] = b
        /\ \A T \in SUBSET Dom : T # {} => f[T] = g[<<f[T \ {Max(T)}], s[Max(T)]>>]
    BY <1>2, <2>1 DEF IsLeftFold
  <2>3. ASSUME NEW T \in SUBSET Dom, T # {} PROVE f[T] = After(f[T \ {Max(T)}], s[Max(T)])
    BY <1>5, <1>9, <2>2, <2>3
  <2>4. Eqn(f)
    BY <1>6, <2>2, <2>3
  <2>. QED
    BY <2>4
<1>11. Eqn(F)
  BY <1>10
<1>. HIDE DEF F
<1>12. ASSUME NEW T \in SUBSET Dom, T # {}, F[T \ {Max(T)}] \in A
       PROVE  F[T] = g[<<F[T \ {Max(T)}], s[Max(T)]>>]
  <2>1. F[T] = After(F[T \ {Max(T)}], s[Max(T)])
    BY <1>11, <1>12
  <2>. QED
    BY <1>5, <1>9, <1>12, <2>1
<1>13. F[{}] = b
  BY <1>6, <1>11
<1>14. FoldsLeft(A, g, b, s, F)
  BY <1>2, <1>12, <1>13 DEF FoldsLeft
<1>15. F[1 .. Len(s)] = Folded(A, g, b, s)
  BY <1>8, <1>14, LeftFoldRuns
<1>. QED
  BY <1>1, <1>2, <1>3, <1>6, <1>8, <1>15 DEF A

LEMMA NeighborsAreATour ==
  ASSUME NEW P, NEW start, NEW points \in Tours(P)
  PROVE  NearestNeighbor(start, points) \in Tours(P)
<1>1. PICK g : g = Onward(P, start, points)
  OBVIOUS
<1>2. points \in Seq(P) /\ IsFiniteSet(P) /\ Cardinality(P) = Len(points) /\ ToSet(points) = P
  BY PathCounts DEF Tours
<1>3. /\ Foldable(Paths(P), P, g, <<>>, points)
      /\ NearestNeighbor(start, points) = Folded(Paths(P), g, <<>>, points)
  BY <1>1, <1>2, OnwardFolds
<1>. DEFINE After(t) == Folded(Paths(P), g, <<>>, t)
            Fine(t) == Len(t) <= Cardinality(P) => Len(After(t)) = Len(t)
            G == {t \in Seq(P) : Fine(t)}
<1>4. \A t \in Seq(P) : Foldable(Paths(P), P, g, <<>>, t)
  BY <1>3 DEF Foldable
<1>5. \A t \in Seq(P) : After(t) \in Paths(P)
  BY <1>4, FoldedType
<1>6. \A t \in Seq(P), e \in P : After(Append(t, e)) = NextStop(start, points, After(t))
  <2>1. ASSUME NEW t \in Seq(P), NEW e \in P PROVE After(Append(t, e)) = g[<<After(t), e>>]
    BY <1>4, FoldedAppend
  <2>2. \A t \in Paths(P), e \in P : g[<<t, e>>] = NextStop(start, points, t)
    BY <1>1 DEF Onward
  <2>. HIDE DEF After
  <2>. QED
    BY <1>5, <2>1, <2>2
<1>7. <<>> \in G
  <2>1. PICK e : e = <<>>
    OBVIOUS
  <2>2. e \in Seq(P)
    BY <2>1, NoElements
  <2>3. After(e) = e
    BY <1>3, <2>1, FoldedEmpty DEF Foldable
  <2>. QED
    BY <2>1, <2>2, <2>3
<1>. HIDE DEF After
<1>8. ASSUME NEW t \in Seq(P), NEW e \in P, t \in G PROVE Append(t, e) \in G
  <2>1. PICK u : u = Append(t, e)
    OBVIOUS
  <2>2. u \in Seq(P) /\ Len(u) = Len(t) + 1 /\ Len(t) \in Nat
    BY <2>1
  <2>3. PICK o : o = After(t)
    OBVIOUS
  <2>4. o \in Paths(P) /\ o \in Seq(P) /\ IsInjective(o) /\ After(u) = NextStop(start, points, o)
    BY <1>5, <1>6, <2>1, <2>3 DEF Paths
  <2>5. SUFFICES ASSUME Len(u) <= Cardinality(P) PROVE Len(After(u)) = Len(u)
    BY <2>1, <2>2
  <2>6. Cardinality(P) \in Nat
    BY <1>2, FS_CardinalityType
  <2>7. Len(o) = Len(t) /\ Len(t) < Cardinality(P)
    BY <1>8, <2>2, <2>3, <2>5, <2>6
  <2>8. ~ (P \subseteq ToSet(o))
    <3>1. IsFiniteSet(ToSet(o)) /\ Cardinality(ToSet(o)) = Len(o) /\ ToSet(o) \subseteq P
      BY <2>4, PathCounts, NothingIsEmpty
    <3>2. SUFFICES ASSUME P \subseteq ToSet(o) PROVE FALSE
      OBVIOUS
    <3>3. ToSet(o) = P
      BY <3>1, <3>2
    <3>. QED
      BY <2>4, <2>6, <2>7, <3>1, <3>3
  <2>a. points \in Seq(P) /\ o \in Paths(P)
    BY <1>2, <2>4
  <2>b. PICK n : n = NextStop(start, points, o)
    OBVIOUS
  <2>9. GoesOn(points, o, n)
    BY <2>a, <2>b, NextStopIsNew
  <2>10. PICK d \in P : After(u) = Append(o, d)
    BY <1>2, <2>b, <2>4, <2>8, <2>9 DEF GoesOn
  <2>. QED
    BY <2>2, <2>4, <2>7, <2>10
<1>9. Seq(P) \subseteq G
  <2>. HIDE DEF G
  <2>. QED
    BY <1>7, <1>8, InductionOnSeq
<1>10. PICK o : o = After(points)
  OBVIOUS
<1>11. o \in Seq(P) /\ IsInjective(o) /\ Len(o) = Cardinality(P)
  <2>1. Fine(points)
    BY <1>2, <1>9
  <2>. QED
    BY <1>2, <1>5, <1>10, <2>1, FS_CardinalityType DEF Paths
<1>12. ToSet(o) = P
  <2>1. Cardinality(ToSet(o)) = Cardinality(P) /\ ToSet(o) \subseteq P
    BY <1>11, PathCounts, NothingIsEmpty
  <2>. QED
    BY <1>2, <2>1, FS_Subset
<1>. QED
  BY <1>3, <1>10, <1>11, <1>12 DEF Tours, After

(* 2-opt: a tour with a stretch turned round is a tour.                    *)
LEMMA TurnedIsATour ==
  ASSUME NEW P, NEW o \in Tours(P), NEW i \in 1 .. Len(o), NEW j \in i .. Len(o)
  PROVE  Turned(o, i, j) \in Tours(P)
<1>1. PICK n : n = Len(o)
  OBVIOUS
<1>2. o \in Seq(P) /\ IsInjective(o) /\ ToSet(o) = P /\ n \in Nat /\ DOMAIN o = 1 .. n
  BY <1>1 DEF Tours
<1>3. i \in 1 .. n /\ j \in i .. n /\ i \in Int /\ j \in Int /\ i <= j /\ 1 <= i /\ j <= n
  BY <1>1, <1>2
<1>4. PICK a : a = SubSeq(o, 1, i - 1)
  OBVIOUS
<1>5. PICK b : b = SubSeq(o, i, j)
  OBVIOUS
<1>6. PICK c : c = SubSeq(o, j + 1, n)
  OBVIOUS
<1>7. a \in Seq(P) /\ Len(a) = i - 1 /\ \A k \in 1 .. i - 1 : a[k] = o[k]
  BY <1>2, <1>3, <1>4
<1>8. b \in Seq(P) /\ Len(b) = j - i + 1 /\ \A k \in 1 .. j - i + 1 : b[k] = o[i + k - 1]
  BY <1>2, <1>3, <1>5
<1>9. c \in Seq(P) /\ Len(c) = n - j /\ \A k \in 1 .. n - j : c[k] = o[j + k]
  BY <1>2, <1>3, <1>6
<1>10. PICK r : r = Reverse(b)
  OBVIOUS
<1>11. r \in Seq(P) /\ Len(r) = j - i + 1 /\ \A k \in 1 .. j - i + 1 : r[k] = o[j - k + 1]
  <2>1. r = [k \in 1 .. Len(b) |-> b[(Len(b) - k) + 1]]
    BY <1>10 DEF Reverse
  <2>2. \A k \in 1 .. j - i + 1 : (j - i + 1 - k) + 1 \in 1 .. j - i + 1
    BY <1>3
  <2>a. PICK m : m = j - i + 1
    OBVIOUS
  <2>b. \A k \in 1 .. m : r[k] = b[(m - k) + 1] /\ (m - k) + 1 \in 1 .. m
    BY <1>8, <2>1, <2>2, <2>a
  <2>c. \A k \in 1 .. m : b[k] \in P
    BY <1>8, <2>a
  <2>3. \A k \in 1 .. j - i + 1 : r[k] = b[(j - i + 1 - k) + 1] /\ b[(j - i + 1 - k) + 1] \in P
    BY <2>a, <2>b, <2>c
  <2>4. \A k \in 1 .. j - i + 1 : b[(j - i + 1 - k) + 1] = o[i + ((j - i + 1 - k) + 1) - 1]
    BY <1>8, <2>2
  <2>5. \A k \in 1 .. j - i + 1 : i + ((j - i + 1 - k) + 1) - 1 = j - k + 1
    BY <1>3
  <2>6. j - i + 1 \in Nat
    BY <1>3
  <2>7. r \in Seq(P) /\ Len(r) = j - i + 1
    BY <1>8, <2>1, <2>3, <2>6
  <2>. QED
    BY <2>3, <2>4, <2>5, <2>7
<1>12. PICK t : t = a \o r \o c
  OBVIOUS
<1>13. t = Turned(o, i, j)
  BY <1>1, <1>4, <1>5, <1>6, <1>10, <1>12 DEF Turned
<1>14. PICK u : u = a \o r
  OBVIOUS
<1>15. /\ u \in Seq(P) /\ Len(u) = j
       /\ \A k \in 1 .. j : u[k] = IF k < i THEN o[k] ELSE o[i + j - k]
  <2>a. a \in Seq(P) /\ r \in Seq(P)
    BY <1>7, <1>11
  <2>b. u \in Seq(P) /\ Len(u) = Len(a) + Len(r)
    BY <1>14, <2>a
  <2>1. u \in Seq(P) /\ Len(u) = j
    BY <1>3, <1>7, <1>11, <2>b
  <2>2. ASSUME NEW k \in 1 .. j, k < i PROVE u[k] = o[k]
    BY <1>3, <1>7, <1>11, <1>14, <2>2
  <2>3. ASSUME NEW k \in 1 .. j, ~ (k < i) PROVE u[k] = o[i + j - k]
    <3>1. u[k] = r[k - (i - 1)] /\ k - (i - 1) \in 1 .. j - i + 1
      BY <1>3, <1>7, <1>11, <1>14, <2>3
    <3>2. r[k - (i - 1)] = o[j - (k - (i - 1)) + 1]
      BY <1>11, <3>1
    <3>3. j - (k - (i - 1)) + 1 = i + j - k
      BY <1>3
    <3>. QED
      BY <3>1, <3>2, <3>3
  <2>. QED
    BY <2>1, <2>2, <2>3
<1>16. /\ t \in Seq(P) /\ Len(t) = n
       /\ \A k \in 1 .. n : t[k] = IF i <= k /\ k <= j THEN o[i + j - k] ELSE o[k]
  <2>a. t = u \o c
    BY <1>12, <1>14
  <2>b. u \in Seq(P) /\ c \in Seq(P)
    BY <1>9, <1>15
  <2>c. t \in Seq(P) /\ Len(t) = Len(u) + Len(c)
    BY <2>a, <2>b
  <2>1. t = u \o c /\ t \in Seq(P) /\ Len(t) = n
    BY <1>2, <1>3, <1>9, <1>15, <2>a, <2>c
  <2>2. ASSUME NEW k \in 1 .. n, k <= j PROVE t[k] = u[k] /\ k \in 1 .. j
    BY <1>3, <1>9, <1>15, <2>1, <2>2
  <2>3. ASSUME NEW k \in 1 .. n, ~ (k <= j) PROVE t[k] = o[k]
    <3>1. t[k] = c[k - j] /\ k - j \in 1 .. n - j
      BY <1>2, <1>3, <1>9, <1>15, <2>1, <2>3
    <3>2. c[k - j] = o[j + (k - j)] /\ j + (k - j) = k
      BY <1>3, <1>9, <3>1
    <3>. QED
      BY <3>1, <3>2
  <2>4. ASSUME NEW k \in 1 .. n, k <= j PROVE t[k] = IF i <= k THEN o[i + j - k] ELSE o[k]
    <3>1. t[k] = IF k < i THEN o[k] ELSE o[i + j - k]
      BY <1>15, <2>2, <2>4
    <3>. QED
      BY <1>3, <3>1
  <2>. QED
    BY <2>1, <2>3, <2>4
<1>17. DOMAIN t = 1 .. n
  BY <1>16
<1>. DEFINE m(k) == IF i <= k /\ k <= j THEN i + j - k ELSE k
<1>18. \A k \in 1 .. n : m(k) \in 1 .. n /\ m(m(k)) = k /\ t[k] = o[m(k)]
  <2>1. \A k \in 1 .. n : m(k) \in 1 .. n /\ m(m(k)) = k
    BY <1>2, <1>3
  <2>. QED
    BY <1>16, <2>1
<1>. HIDE DEF m
<1>19. IsInjective(t)
  <2>. SUFFICES ASSUME NEW k \in 1 .. n, NEW l \in 1 .. n, t[k] = t[l] PROVE k = l
    BY <1>17 DEF IsInjective
  <2>1. o[m(k)] = o[m(l)] /\ m(k) \in 1 .. n /\ m(l) \in 1 .. n
    BY <1>18
  <2>2. m(k) = m(l)
    BY <1>2, <2>1 DEF IsInjective
  <2>. QED
    BY <1>18, <2>2
<1>20. ToSet(t) = P
  <2>1. \A k \in 1 .. n : t[k] \in P
    BY <1>16
  <2>2. ASSUME NEW p \in P PROVE \E k \in 1 .. n : t[k] = p
    <3>1. PICK k \in 1 .. n : o[k] = p
      BY <1>2 DEF ToSet
    <3>2. m(k) \in 1 .. n /\ t[m(k)] = o[m(m(k))] /\ m(m(k)) = k
      BY <1>18
    <3>. QED
      BY <3>1, <3>2
  <2>. QED
    BY <1>17, <2>1, <2>2 DEF ToSet
<1>. QED
  BY <1>13, <1>16, <1>19, <1>20 DEF Tours

(* A pass over all stretches, and passes one after the other.              *)
Stretches(n) == {x \in (1 .. n) \X (1 .. n) : x[1] < x[2]}

ShorterOf(start, end, best, x) ==
    LET turned == Turned(best, x[1], x[2])
    IN  IF TourLength(start, turned, end) < TourLength(start, best, end) THEN turned ELSE best

Shortens(P, B, start, end) == [e \in Tours(P) \X B |-> ShorterOf(start, end, e[1], e[2])]

PairsUpTo(n) == FlattenSeq([i \in 1 .. n |-> [k \in 1 .. n - i |-> <<i, i + k>>]])

LEMMA PairsAreStretches ==
  ASSUME NEW n \in Nat
  PROVE  PairsUpTo(n) \in Seq(Stretches(n))
<1>1. PICK B : B = Stretches(n)
  OBVIOUS
<1>2. PICK ss : ss = [i \in 1 .. n |-> [k \in 1 .. n - i |-> <<i, i + k>>]]
  OBVIOUS
<1>3. ASSUME NEW i \in 1 .. n PROVE [k \in 1 .. n - i |-> <<i, i + k>>] \in Seq(B)
  <2>1. n - i \in Nat
    OBVIOUS
  <2>2. \A k \in 1 .. n - i : i + k \in 1 .. n /\ i < i + k
    OBVIOUS
  <2>3. \A k \in 1 .. n - i : <<i, i + k>> \in B
    BY <1>1, <2>2 DEF Stretches
  <2>. QED
    BY <2>1, <2>3
<1>4. ss \in Seq(Seq(B))
  <2>1. PICK Q : Q = Seq(B)
    OBVIOUS
  <2>2. ss \in [1 .. n -> Q]
    BY <1>2, <1>3, <2>1
  <2>3. ss \in Seq(Q)
    BY <2>2
  <2>. QED
    BY <2>1, <2>3
<1>5. PairsUpTo(n) = FlattenSeq(ss)
  BY <1>2 DEF PairsUpTo
<1>6. FlattenSeq(ss) \in Seq(B)
  <2>1. <<>> \in Seq(B)
    OBVIOUS
  <2>. QED
    BY <1>4, <2>1, FlattenAppend
<1>. QED
  BY <1>1, <1>5, <1>6

LEMMA ShorterIsATour ==
  ASSUME NEW P, NEW start, NEW end, NEW n, NEW best \in Tours(P), Len(best) = n,
         NEW x \in Stretches(n)
  PROVE  ShorterOf(start, end, best, x) \in Tours(P)
<1>1. best \in Seq(P) /\ Len(best) \in Nat
  BY DEF Tours
<1>2. x[1] \in 1 .. n /\ x[2] \in x[1] .. n
  BY <1>1 DEF Stretches
<1>3. Turned(best, x[1], x[2]) \in Tours(P)
  BY <1>2, TurnedIsATour
<1>. QED
  BY <1>3 DEF ShorterOf

LEMMA PassFolds ==
  ASSUME NEW P, NEW start, NEW end, NEW order \in Tours(P),
         NEW B, \A o \in Tours(P), x \in B : ShorterOf(start, end, o, x) \in Tours(P),
         NEW s \in Seq(B), s = PairsUpTo(Len(order))
  PROVE  /\ Foldable(Tours(P), B, Shortens(P, B, start, end), order, s)
         /\ TwoOptPass(start, order, end) = Folded(Tours(P), Shortens(P, B, start, end), order, s)
<1>. DEFINE Dom == DOMAIN s
            A == Tours(P)
            After(t, x) == ShorterOf(start, end, t, x)
            Eqn(f) == f = [T \in SUBSET Dom |->
                        IF T = {} THEN order ELSE After(f[T \ {Max(T)}], s[Max(T)])]
            F == CHOOSE f : Eqn(f)
<1>1. TwoOptPass(start, order, end) = F[Dom]
  BY DEF TwoOptPass, ShorterOf, PairsUpTo, FoldLeft, MapThenFoldSet
<1>2. Dom = 1 .. Len(s) /\ Len(s) \in Nat /\ \A i \in Dom : s[i] \in B
  OBVIOUS
<1>. HIDE DEF Dom
<1>3. PICK g : g = Shortens(P, B, start, end)
  OBVIOUS
<1>4. \A t \in A, x \in B : After(t, x) \in A
  OBVIOUS
<1>5. g \in [A \X B -> A] /\ \A t \in A, x \in B : g[<<t, x>>] = After(t, x)
  BY <1>3, <1>4 DEF Shortens
<1>. HIDE DEF After
<1>6. PICK b : b = order
  OBVIOUS
<1>7. b \in A
  BY <1>6
<1>8. Foldable(A, B, g, b, s)
  BY <1>5, <1>7 DEF Foldable
<1>. HIDE DEF A
<1>9. \A T \in SUBSET Dom : T # {} => s[Max(T)] \in B
  <2>1. \A T \in SUBSET Dom : T # {} => Max(T) \in T
    BY <1>2, MaxIsOne
  <2>. QED
    BY <1>2, <2>1
<1>10. \E f : Eqn(f)
  <2>1. PICK f : IsLeftFold(A, g, b, s, f)
    BY <1>8, LeftFoldExists
  <2>2. /\ f \in [SUBSET Dom -> A] /\ f[{}] = b
        /\ \A T \in SUBSET Dom : T # {} => f[T] = g[<<f[T \ {Max(T)}], s[Max(T)]>>]
    BY <1>2, <2>1 DEF IsLeftFold
  <2>3. ASSUME NEW T \in SUBSET Dom, T # {} PROVE f[T] = After(f[T \ {Max(T)}], s[Max(T)])
    BY <1>5, <1>9, <2>2, <2>3
  <2>4. Eqn(f)
    BY <1>6, <2>2, <2>3
  <2>. QED
    BY <2>4
<1>11. Eqn(F)
  BY <1>10
<1>. HIDE DEF F
<1>12. ASSUME NEW T \in SUBSET Dom, T # {}, F[T \ {Max(T)}] \in A
       PROVE  F[T] = g[<<F[T \ {Max(T)}], s[Max(T)]>>]
  <2>1. F[T] = After(F[T \ {Max(T)}], s[Max(T)])
    BY <1>11, <1>12
  <2>. QED
    BY <1>5, <1>9, <1>12, <2>1
<1>13. F[{}] = b
  BY <1>6, <1>11
<1>14. FoldsLeft(A, g, b, s, F)
  BY <1>2, <1>12, <1>13 DEF FoldsLeft
<1>15. F[1 .. Len(s)] = Folded(A, g, b, s)
  BY <1>8, <1>14, LeftFoldRuns
<1>. QED
  BY <1>1, <1>2, <1>3, <1>6, <1>8, <1>15 DEF A

LEMMA PassIsATour ==
  ASSUME NEW P, NEW start, NEW end, NEW order \in Tours(P)
  PROVE  TwoOptPass(start, order, end) \in Tours(P)
<1>1. PICK n : n = Len(order)
  OBVIOUS
<1>2. PICK B : B = Stretches(n)
  OBVIOUS
<1>3. PICK s : s = PairsUpTo(n)
  OBVIOUS
<1>4. n \in Nat /\ IsFiniteSet(P) /\ Cardinality(P) = n
  <2>1. order \in Seq(P) /\ IsInjective(order) /\ ToSet(order) = P
    BY DEF Tours
  <2>. QED
    BY <1>1, <2>1, PathCounts
<1>5. s \in Seq(B)
  BY <1>2, <1>3, <1>4, PairsAreStretches
<1>6. ASSUME NEW o \in Tours(P), NEW x \in B PROVE ShorterOf(start, end, o, x) \in Tours(P)
  <2>1. Len(o) = n
    <3>1. o \in Seq(P) /\ IsInjective(o) /\ ToSet(o) = P
      BY DEF Tours
    <3>. QED
      BY <1>4, <3>1, PathCounts
  <2>. QED
    BY <1>2, <2>1, ShorterIsATour
<1>7. /\ Foldable(Tours(P), B, Shortens(P, B, start, end), order, s)
      /\ TwoOptPass(start, order, end) = Folded(Tours(P), Shortens(P, B, start, end), order, s)
  BY <1>1, <1>3, <1>5, <1>6, PassFolds
<1>. QED
  BY <1>7, FoldedType

Passes(P) == [best : Tours(P), improved : BOOLEAN]
PassAfter(start, end, last) ==
    LET next == TwoOptPass(start, last.best, end)
    IN  IF last.improved THEN [best |-> next, improved |-> next # last.best] ELSE last

LEMMA PassAfterIsOne ==
  ASSUME NEW P, NEW start, NEW end, NEW last \in Passes(P)
  PROVE  PassAfter(start, end, last) \in Passes(P)
<1>1. last.best \in Tours(P)
  BY DEF Passes
<1>2. TwoOptPass(start, last.best, end) \in Tours(P)
  BY <1>1, PassIsATour
<1>. QED
  BY <1>2 DEF PassAfter, Passes

LEMMA TwoOptIsATour ==
  ASSUME NEW P, NEW start, NEW end, NEW order \in Tours(P)
  PROVE  TwoOpt(start, order, end) \in Tours(P)
<1>1. PICK m : m = MaxIterations
  OBVIOUS
<1>2. m \in Nat
  BY <1>1 DEF MaxIterations
<1>3. PICK base : base = [best |-> order, improved |-> TRUE]
  OBVIOUS
<1>4. base \in Passes(P)
  BY <1>3 DEF Passes
<1>. DEFINE Then(last) == PassAfter(start, end, last)
            Eqn(f) == f = [k \in 0 .. m |-> IF k = 0 THEN base ELSE Then(f[k - 1])]
            after == CHOOSE f : Eqn(f)
<1>5. TwoOpt(start, order, end) = IF Len(order) < 3 THEN order ELSE after[m].best
  BY <1>1, <1>3 DEF TwoOpt, PassAfter
<1>6. \A a \in Passes(P) : Then(a) \in Passes(P)
  BY PassAfterIsOne
<1>. HIDE DEF Then
<1>7. \E f : Eqn(f)
  <2>1. PICK B : B = 1 .. m
    OBVIOUS
  <2>2. PICK s : s = [k \in 1 .. m |-> k]
    OBVIOUS
  <2>3. s \in Seq(B) /\ Len(s) = m
    BY <1>2, <2>1, <2>2
  <2>4. PICK g : g = [e \in Passes(P) \X B |-> Then(e[1])]
    OBVIOUS
  <2>5. g \in [Passes(P) \X B -> Passes(P)] /\ \A a \in Passes(P), b \in B : g[<<a, b>>] = Then(a)
    BY <1>6, <2>4
  <2>6. PICK r : IsRun(Passes(P), g, base, s, r)
    BY <1>4, <2>3, <2>5, RunExists
  <2>7. /\ r \in [0 .. m -> Passes(P)] /\ r[0] = base
        /\ \A k \in 1 .. m : r[k] = g[<<r[k - 1], s[k]>>]
    BY <2>3, <2>6 DEF IsRun
  <2>8. ASSUME NEW k \in 0 .. m PROVE r[k] = IF k = 0 THEN base ELSE Then(r[k - 1])
    <3>1. CASE k = 0
      BY <2>7, <3>1
    <3>2. CASE k # 0
      <4>1. k \in 1 .. m /\ k - 1 \in 0 .. m
        BY <1>2, <3>2
      <4>2. r[k - 1] \in Passes(P) /\ s[k] \in B /\ r[k] = g[<<r[k - 1], s[k]>>]
        BY <2>1, <2>2, <2>7, <4>1
      <4>. QED
        BY <2>5, <3>2, <4>2
    <3>. QED
      BY <3>1, <3>2
  <2>9. r = [k \in 0 .. m |-> r[k]]
    BY <2>7
  <2>10. Eqn(r)
    BY <2>8, <2>9
  <2>. QED
    BY <2>10
<1>8. Eqn(after)
  BY <1>7
<1>. HIDE DEF after
<1>. DEFINE Fine == {n \in Nat : n <= m => after[n] \in Passes(P)}
<1>9. 0 \in Fine
  BY <1>2, <1>4, <1>8
<1>10. ASSUME NEW n \in Nat, n \in Fine PROVE n + 1 \in Fine
  <2>. SUFFICES ASSUME n + 1 <= m PROVE after[n + 1] \in Passes(P)
    OBVIOUS
  <2>1. n + 1 \in 0 .. m /\ n + 1 # 0 /\ n + 1 - 1 = n /\ n <= m
    BY <1>2
  <2>2. after[n + 1] = Then(after[n])
    BY <1>8, <2>1
  <2>. QED
    BY <1>6, <1>10, <2>1, <2>2
<1>11. Nat \subseteq Fine
  <2>. HIDE DEF Fine
  <2>. QED
    BY <1>9, <1>10, InductionOnNat
<1>12. after[m] \in Passes(P)
  BY <1>2, <1>11
<1>13. after[m].best \in Tours(P)
  BY <1>12 DEF Passes
<1>. QED
  BY <1>5, <1>13

(* router.ts: the way to the points is a way to all of them.               *)
LEMMA OptimizedIsATour ==
  ASSUME NEW P, NEW start, NEW end, NEW points \in Tours(P)
  PROVE  OptimizeOrder(start, points, end) \in Tours(P)
BY NeighborsAreATour, TwoOptIsATour DEF OptimizeOrder

-----------------------------------------------------------------------------
(* The candidates: those that are kept, each once, with its score.         *)
Entry(t, p)   == [poi |-> p, score |-> Score(p, t)]
Entries(t, P) == {Entry(t, p) : p \in P}
Ranks(t, P)   == [e \in Seq(Entries(t, P)) \X P |-> Placed(e[1], Entry(t, e[2]))]

LEMMA JoinedSet ==
  ASSUME NEW B, NEW s \in Seq(B), NEW t \in Seq(B)
  PROVE  /\ s \o t \in Seq(B) /\ Len(s \o t) = Len(s) + Len(t)
         /\ ToSet(s \o t) = ToSet(s) \cup ToSet(t)
<1>1. PICK u : u = s \o t
  OBVIOUS
<1>2. PICK n : n = Len(s)
  OBVIOUS
<1>3. PICK m : m = Len(t)
  OBVIOUS
<1>4. /\ u \in Seq(B) /\ DOMAIN u = 1 .. n + m /\ DOMAIN s = 1 .. n /\ DOMAIN t = 1 .. m
      /\ n \in Nat /\ m \in Nat /\ Len(u) = n + m
      /\ \A k \in 1 .. n : u[k] = s[k]
      /\ \A k \in 1 .. m : u[n + k] = t[k]
  BY <1>1, <1>2, <1>3
<1>5. \A k \in 1 .. n + m : k \in 1 .. n \/ \E l \in 1 .. m : k = n + l
  <2>1. \A k \in 1 .. n + m : k \in 1 .. n \/ (k - n \in 1 .. m /\ k = n + (k - n))
    BY <1>4
  <2>. QED
    BY <2>1
<1>6. \A k \in 1 .. n : k \in 1 .. n + m
  BY <1>4
<1>7. \A k \in 1 .. m : n + k \in 1 .. n + m
  BY <1>4
<1>8. ToSet(u) \subseteq ToSet(s) \cup ToSet(t)
  <2>. SUFFICES ASSUME NEW k \in 1 .. n + m PROVE u[k] \in ToSet(s) \cup ToSet(t)
    BY <1>4 DEF ToSet
  <2>1. CASE k \in 1 .. n
    BY <1>4, <2>1 DEF ToSet
  <2>2. ASSUME NEW l \in 1 .. m, k = n + l PROVE u[k] \in ToSet(t)
    BY <1>4, <2>2 DEF ToSet
  <2>. QED
    BY <1>5, <2>1, <2>2
<1>9. ToSet(s) \subseteq ToSet(u) /\ ToSet(t) \subseteq ToSet(u)
  BY <1>4, <1>6, <1>7 DEF ToSet
<1>. QED
  BY <1>1, <1>2, <1>3, <1>4, <1>8, <1>9

LEMMA JoinedInjective ==
  ASSUME NEW B, NEW s \in Seq(B), NEW t \in Seq(B),
         IsInjective(s), IsInjective(t), ToSet(s) \cap ToSet(t) = {}
  PROVE  IsInjective(s \o t)
<1>1. PICK u : u = s \o t
  OBVIOUS
<1>2. PICK n : n = Len(s)
  OBVIOUS
<1>3. PICK m : m = Len(t)
  OBVIOUS
<1>a. /\ DOMAIN u = 1 .. n + m /\ DOMAIN s = 1 .. n /\ DOMAIN t = 1 .. m
      /\ n \in Nat /\ m \in Nat
      /\ \A k \in 1 .. n : u[k] = s[k]
      /\ \A k \in 1 .. m : u[n + k] = t[k]
  BY <1>1, <1>2, <1>3
<1>4. /\ DOMAIN u = 1 .. n + m /\ DOMAIN s = 1 .. n /\ DOMAIN t = 1 .. m
      /\ n \in Nat /\ m \in Nat
      /\ \A k \in 1 .. n : u[k] = s[k] /\ s[k] \in ToSet(s)
      /\ \A k \in 1 .. m : u[n + k] = t[k] /\ t[k] \in ToSet(t)
  BY <1>a DEF ToSet
<1>5. \A k \in 1 .. n + m : k \in 1 .. n \/ (k - n \in 1 .. m /\ k = n + (k - n))
  BY <1>4
<1>6. ASSUME NEW k \in 1 .. n + m, NEW l \in 1 .. n + m, u[k] = u[l] PROVE k = l
  <2>1. CASE k \in 1 .. n /\ l \in 1 .. n
    BY <1>4, <1>6, <2>1 DEF IsInjective
  <2>2. CASE k - n \in 1 .. m /\ l - n \in 1 .. m
    <3>1. u[n + (k - n)] = t[k - n] /\ u[n + (l - n)] = t[l - n] /\ n + (k - n) = k /\ n + (l - n) = l
      BY <1>4, <2>2
    <3>2. PICK a, b : a = k - n /\ b = l - n
      OBVIOUS
    <3>3. a \in DOMAIN t /\ b \in DOMAIN t /\ t[a] = t[b]
      BY <1>4, <1>6, <2>2, <3>1, <3>2
    <3>4. a = b
      BY <3>3 DEF IsInjective
    <3>5. k - n = l - n
      BY <3>2, <3>4
    <3>. QED
      BY <1>4, <3>5
  <2>3. CASE k \in 1 .. n /\ l - n \in 1 .. m
    <3>1. u[k] \in ToSet(s) /\ u[n + (l - n)] \in ToSet(t) /\ n + (l - n) = l
      BY <1>4, <2>3
    <3>. QED
      BY <1>6, <3>1
  <2>4. CASE l \in 1 .. n /\ k - n \in 1 .. m
    <3>1. u[l] \in ToSet(s) /\ u[n + (k - n)] \in ToSet(t) /\ n + (k - n) = k
      BY <1>4, <2>4
    <3>. QED
      BY <1>6, <3>1
  <2>. QED
    BY <1>5, <2>1, <2>2, <2>3, <2>4
<1>. QED
  BY <1>1, <1>4, <1>6 DEF IsInjective

LEMMA SingleOne ==
  ASSUME NEW B, NEW x \in B
  PROVE  <<x>> \in Seq(B) /\ ToSet(<<x>>) = {x} /\ IsInjective(<<x>>) /\ Len(<<x>>) = 1
<1>1. PICK s : s = <<x>>
  OBVIOUS
<1>2. s \in Seq(B) /\ DOMAIN s = {1} /\ s[1] = x /\ Len(s) = 1
  BY <1>1
<1>. QED
  BY <1>1, <1>2 DEF ToSet, IsInjective

LEMMA PlacedIsIn ==
  ASSUME NEW E, NEW list \in Seq(E), NEW x \in E
  PROVE  /\ Placed(list, x) \in Seq(E)
         /\ ToSet(Placed(list, x)) = ToSet(list) \cup {x}
         /\ IsInjective(list) /\ x \notin ToSet(list) => IsInjective(Placed(list, x))
<1>1. PICK ahead : ahead = {y \in ToSet(list) : y.score >= x.score}
  OBVIOUS
<1>2. PICK a : a = Where(list, ahead)
  OBVIOUS
<1>3. PICK b : b = Where(list, ToSet(list) \ ahead)
  OBVIOUS
<1>4. PICK c : c = <<x>>
  OBVIOUS
<1>5. Placed(list, x) = a \o c \o b
  BY <1>1, <1>2, <1>3, <1>4 DEF Placed
<1>6. ahead \subseteq ToSet(list)
  BY <1>1
<1>7. /\ a \in Seq(E) /\ ToSet(a) = ToSet(list) \cap ahead /\ (IsInjective(list) => IsInjective(a))
  BY <1>2, WhereChooses
<1>8. /\ b \in Seq(E) /\ ToSet(b) = ToSet(list) \cap (ToSet(list) \ ahead)
      /\ (IsInjective(list) => IsInjective(b))
  BY <1>3, WhereChooses
<1>9. c \in Seq(E) /\ ToSet(c) = {x} /\ IsInjective(c)
  BY <1>4, SingleOne
<1>10. PICK d : d = a \o c
  OBVIOUS
<1>11. d \in Seq(E) /\ ToSet(d) = ToSet(a) \cup {x}
  BY <1>7, <1>9, <1>10, JoinedSet
<1>12. PICK f : f = d \o b
  OBVIOUS
<1>13. f \in Seq(E) /\ ToSet(f) = ToSet(d) \cup ToSet(b)
  BY <1>8, <1>11, <1>12, JoinedSet
<1>14. ASSUME IsInjective(list), x \notin ToSet(list) PROVE IsInjective(f)
  <2>1. ToSet(a) \cap ToSet(c) = {} /\ IsInjective(a) /\ IsInjective(b)
    BY <1>7, <1>8, <1>9, <1>14
  <2>2. IsInjective(d)
    BY <1>7, <1>9, <1>10, <2>1, JoinedInjective
  <2>3. ToSet(d) \cap ToSet(b) = {}
    BY <1>7, <1>8, <1>11, <1>14
  <2>. QED
    BY <1>8, <1>11, <1>12, <2>1, <2>2, <2>3, JoinedInjective
<1>15. ToSet(f) = ToSet(list) \cup {x}
  BY <1>6, <1>7, <1>8, <1>11, <1>13
<1>16. Placed(list, x) = f
  BY <1>5, <1>10, <1>12
<1>. QED
  BY <1>13, <1>14, <1>15, <1>16

LEMMA RanksFold ==
  ASSUME NEW q, NEW P, NEW s \in Seq(P)
  PROVE  /\ Foldable(Seq(Entries(q, P)), P, Ranks(q, P), <<>>, s)
         /\ Ranked(q, s) = Folded(Seq(Entries(q, P)), Ranks(q, P), <<>>, s)
<1>. DEFINE Dom == DOMAIN s
            A == Seq(Entries(q, P))
            After(t, x) == Placed(t, Entry(q, x))
            Eqn(f) == f = [T \in SUBSET Dom |->
                        IF T = {} THEN <<>> ELSE After(f[T \ {Max(T)}], s[Max(T)])]
            F == CHOOSE f : Eqn(f)
<1>1. Ranked(q, s) = F[Dom]
  BY DEF Ranked, Entry, FoldLeft, MapThenFoldSet
<1>2. Dom = 1 .. Len(s) /\ Len(s) \in Nat /\ \A i \in Dom : s[i] \in P
  OBVIOUS
<1>. HIDE DEF Dom
<1>3. PICK g : g = Ranks(q, P)
  OBVIOUS
<1>4. \A t \in A, x \in P : After(t, x) \in A
  BY PlacedIsIn DEF Entries
<1>5. g \in [A \X P -> A] /\ \A t \in A, x \in P : g[<<t, x>>] = After(t, x)
  BY <1>3, <1>4 DEF Ranks
<1>. HIDE DEF After
<1>6. PICK b : b = <<>>
  OBVIOUS
<1>7. b \in A
  BY <1>6, NoElements
<1>8. Foldable(A, P, g, b, s)
  BY <1>5, <1>7 DEF Foldable
<1>. HIDE DEF A
<1>9. \A T \in SUBSET Dom : T # {} => s[Max(T)] \in P
  <2>1. \A T \in SUBSET Dom : T # {} => Max(T) \in T
    BY <1>2, MaxIsOne
  <2>. QED
    BY <1>2, <2>1
<1>10. \E f : Eqn(f)
  <2>1. PICK f : IsLeftFold(A, g, b, s, f)
    BY <1>8, LeftFoldExists
  <2>2. /\ f \in [SUBSET Dom -> A] /\ f[{}] = b
        /\ \A T \in SUBSET Dom : T # {} => f[T] = g[<<f[T \ {Max(T)}], s[Max(T)]>>]
    BY <1>2, <2>1 DEF IsLeftFold
  <2>3. ASSUME NEW T \in SUBSET Dom, T # {} PROVE f[T] = After(f[T \ {Max(T)}], s[Max(T)])
    BY <1>5, <1>9, <2>2, <2>3
  <2>4. Eqn(f)
    BY <1>6, <2>2, <2>3
  <2>. QED
    BY <2>4
<1>11. Eqn(F)
  BY <1>10
<1>. HIDE DEF F
<1>12. ASSUME NEW T \in SUBSET Dom, T # {}, F[T \ {Max(T)}] \in A
       PROVE  F[T] = g[<<F[T \ {Max(T)}], s[Max(T)]>>]
  <2>1. F[T] = After(F[T \ {Max(T)}], s[Max(T)])
    BY <1>11, <1>12
  <2>. QED
    BY <1>5, <1>9, <1>12, <2>1
<1>13. F[{}] = b
  BY <1>6, <1>11
<1>14. FoldsLeft(A, g, b, s, F)
  BY <1>2, <1>12, <1>13 DEF FoldsLeft
<1>15. F[1 .. Len(s)] = Folded(A, g, b, s)
  BY <1>8, <1>14, LeftFoldRuns
<1>. QED
  BY <1>1, <1>2, <1>3, <1>6, <1>8, <1>15 DEF A

LEMMA ScoredAreKept ==
  ASSUME NEW q, NEW vehicle, NEW P, P = {p \in Places : Kept(p, q, vehicle)}
  PROVE  /\ Scored(q, vehicle) \in Seq(Entries(q, P))
         /\ IsInjective(Scored(q, vehicle))
         /\ ToSet(Scored(q, vehicle)) = Entries(q, P)
<1>1. PICK s : s = Where(Listing, P)
  OBVIOUS
<1>2. s \in Seq(Places) /\ IsInjective(s) /\ ToSet(s) = P
  <2>1. Listing \in Seq(Places) /\ IsInjective(Listing) /\ ToSet(Listing) = Places
    BY CatalogueAssumption DEF Places
  <2>2. s \in Seq(Places) /\ IsInjective(s) /\ ToSet(s) = Places \cap P
    BY <1>1, <2>1, WhereChooses
  <2>. QED
    BY <2>2
<1>3. s \in Seq(P)
  BY <1>2 DEF ToSet
<1>4. PICK E : E = Entries(q, P)
  OBVIOUS
<1>5. PICK g : g = Ranks(q, P)
  OBVIOUS
<1>6. Foldable(Seq(E), P, g, <<>>, s) /\ Scored(q, vehicle) = Folded(Seq(E), g, <<>>, s)
  BY <1>1, <1>3, <1>4, <1>5, RanksFold DEF Scored
<1>7. \A u \in Seq(P) : Foldable(Seq(E), P, g, <<>>, u)
  BY <1>6 DEF Foldable
<1>. DEFINE After(u) == Folded(Seq(E), g, <<>>, u)
<1>8. \A u \in Seq(P) : After(u) \in Seq(E)
  BY <1>7, FoldedType
<1>9. \A u \in Seq(P), e \in P : After(Append(u, e)) = Placed(After(u), Entry(q, e))
  <2>1. ASSUME NEW u \in Seq(P), NEW e \in P PROVE After(Append(u, e)) = g[<<After(u), e>>]
    BY <1>7, FoldedAppend
  <2>2. \A l \in Seq(E), e \in P : g[<<l, e>>] = Placed(l, Entry(q, e))
    BY <1>4, <1>5 DEF Ranks
  <2>. HIDE DEF After
  <2>. QED
    BY <1>8, <2>1, <2>2
<1>10. \A e \in P : Entry(q, e) \in E
  BY <1>4 DEF Entries
<1>11. \A d, e \in P : Entry(q, d) = Entry(q, e) => d = e
  <2>1. \A e \in P : Entry(q, e).poi = e
    BY DEF Entry
  <2>. QED
    BY <2>1
<1>. DEFINE Fine(u) == /\ ToSet(After(u)) = Entries(q, ToSet(u))
                       /\ IsInjective(u) => IsInjective(After(u))
            G == {u \in Seq(P) : Fine(u)}
<1>12. <<>> \in G
  <2>1. PICK e : e = <<>>
    OBVIOUS
  <2>2. e \in Seq(P) /\ ToSet(e) = {} /\ IsInjective(e)
    BY <2>1, NoElements
  <2>3. After(e) = e
    <3>1. PICK A : A = Seq(E)
      OBVIOUS
    <3>2. g \in [A \X P -> A] /\ e \in A
      BY <1>6, <2>1, <3>1 DEF Foldable
    <3>3. Folded(A, g, e, e) = e
      BY <2>1, <3>2, FoldedEmpty
    <3>. QED
      BY <2>1, <3>1, <3>3
  <2>4. Entries(q, {}) = {}
    BY DEF Entries
  <2>5. Fine(e)
    BY <2>2, <2>3, <2>4
  <2>. HIDE DEF Fine
  <2>. QED
    BY <2>1, <2>2, <2>5
<1>. HIDE DEF After
<1>13. ASSUME NEW u \in Seq(P), NEW e \in P, u \in G PROVE Append(u, e) \in G
  <2>1. PICK v : v = Append(u, e)
    OBVIOUS
  <2>2. v \in Seq(P) /\ ToSet(v) = ToSet(u) \cup {e} /\ ToSet(u) \subseteq P
    BY <2>1, AppendedSet, NothingIsEmpty
  <2>3. IsInjective(v) => IsInjective(u) /\ e \notin ToSet(u)
    BY <2>1, AppendedInjective
  <2>4. PICK l : l = After(u)
    OBVIOUS
  <2>5. PICK x : x = Entry(q, e)
    OBVIOUS
  <2>6. l \in Seq(E) /\ x \in E /\ ToSet(l) = Entries(q, ToSet(u)) /\ (IsInjective(u) => IsInjective(l))
    BY <1>8, <1>10, <1>13, <2>4, <2>5
  <2>7. After(v) = Placed(l, x)
    BY <1>9, <2>1, <2>4, <2>5
  <2>8. /\ ToSet(After(v)) = ToSet(l) \cup {x}
        /\ IsInjective(l) /\ x \notin ToSet(l) => IsInjective(After(v))
    BY <2>6, <2>7, PlacedIsIn
  <2>9. e \notin ToSet(u) => x \notin ToSet(l)
    BY <1>11, <2>2, <2>5, <2>6 DEF Entries
  <2>10. Entries(q, ToSet(v)) = Entries(q, ToSet(u)) \cup {x}
    BY <2>2, <2>5 DEF Entries
  <2>11. Fine(v)
    BY <2>3, <2>6, <2>8, <2>9, <2>10
  <2>. HIDE DEF Fine
  <2>. QED
    BY <2>1, <2>2, <2>11
<1>14. Seq(P) \subseteq G
  <2>. HIDE DEF G
  <2>. QED
    BY <1>12, <1>13, InductionOnSeq
<1>15. Fine(s)
  BY <1>3, <1>14
<1>16. Scored(q, vehicle) = After(s)
  BY <1>6 DEF After
<1>. QED
  BY <1>2, <1>3, <1>4, <1>8, <1>15, <1>16

LEMMA PlacesOfEntries ==
  ASSUME NEW q, NEW P, NEW list \in Seq(Entries(q, P)), IsInjective(list)
  PROVE  /\ PlacesOf(list) \in Seq(P) /\ IsInjective(PlacesOf(list))
         /\ \A i \in DOMAIN list : list[i].poi \in P
<1>1. PICK v : v = PlacesOf(list)
  OBVIOUS
<1>2. PICK n : n = Len(list)
  OBVIOUS
<1>3. DOMAIN list = 1 .. n /\ n \in Nat /\ \A i \in 1 .. n : list[i] \in Entries(q, P)
  BY <1>2
<1>4. v = [i \in 1 .. n |-> list[i].poi]
  BY <1>1, <1>3 DEF PlacesOf
<1>5. \A x \in Entries(q, P) : x.poi \in P /\ x = Entry(q, x.poi)
  BY DEF Entries, Entry
<1>6. \A i \in 1 .. n : list[i].poi \in P /\ list[i] = Entry(q, list[i].poi)
  BY <1>3, <1>5
<1>7. v \in Seq(P) /\ DOMAIN v = 1 .. n
  BY <1>3, <1>4, <1>6
<1>8. IsInjective(v)
  <2>. SUFFICES ASSUME NEW i \in 1 .. n, NEW j \in 1 .. n, v[i] = v[j] PROVE i = j
    BY <1>7 DEF IsInjective
  <2>1. list[i] = list[j]
    BY <1>4, <1>6
  <2>. QED
    BY <1>3, <2>1 DEF IsInjective
<1>. QED
  BY <1>1, <1>3, <1>6, <1>7, <1>8

(* A place more in a way is a way.                                         *)
LEMMA PartIsAPath ==
  ASSUME NEW P, NEW o \in Paths(P), NEW i \in 1 .. Len(o) + 1, NEW j \in 0 .. Len(o)
  PROVE  /\ SubSeq(o, i, j) \in Paths(P)
         /\ ToSet(SubSeq(o, i, j)) = {o[k] : k \in i .. j}
<1>1. o \in Seq(P) /\ IsInjective(o) /\ Len(o) \in Nat /\ DOMAIN o = 1 .. Len(o)
  BY DEF Paths
<1>2. PICK s : s = SubSeq(o, i, j)
  OBVIOUS
<1>3. PICK n : n = IF i <= j THEN j - i + 1 ELSE 0
  OBVIOUS
<1>4. /\ s \in Seq(P) /\ DOMAIN s = 1 .. n /\ n \in Nat
      /\ \A k \in 1 .. n : s[k] = o[i + k - 1] /\ i + k - 1 \in i .. j /\ i + k - 1 \in 1 .. Len(o)
  <2>1. i \in Int /\ j \in Int /\ 1 <= i /\ j <= Len(o)
    BY <1>1
  <2>2. CASE i <= j
    <3>1. n = j - i + 1
      BY <1>3, <2>2
    <3>2. s \in Seq(P) /\ Len(s) = n
      BY <1>1, <1>2, <2>1, <2>2, <3>1
    <3>3. \A k \in 1 .. n : s[k] = o[i + k - 1]
      BY <1>1, <1>2, <2>1, <2>2, <3>1
    <3>4. n \in Nat /\ \A k \in 1 .. n : i + k - 1 \in i .. j /\ i + k - 1 \in 1 .. Len(o)
      BY <1>1, <2>1, <2>2, <3>1
    <3>. QED
      BY <3>2, <3>3, <3>4
  <2>3. CASE ~ (i <= j)
    <3>1. s = <<>> /\ n = 0
      BY <1>1, <1>2, <1>3, <2>1, <2>3
    <3>. QED
      BY <3>1
  <2>. QED
    BY <2>2, <2>3
<1>5. IsInjective(s)
  <2>. SUFFICES ASSUME NEW k \in 1 .. n, NEW l \in 1 .. n, s[k] = s[l] PROVE k = l
    BY <1>4 DEF IsInjective
  <2>1. i + k - 1 = i + l - 1
    BY <1>1, <1>4 DEF IsInjective
  <2>. QED
    BY <2>1
<1>6. ToSet(s) = {o[k] : k \in i .. j}
  <2>1. \A k \in 1 .. n : s[k] \in {o[l] : l \in i .. j}
    BY <1>4
  <2>2. ASSUME NEW k \in i .. j PROVE k - i + 1 \in 1 .. n /\ s[k - i + 1] = o[k]
    <3>1. k - i + 1 \in 1 .. n /\ i + (k - i + 1) - 1 = k
      BY <1>1, <1>3
    <3>. QED
      BY <1>4, <3>1
  <2>. QED
    BY <1>4, <2>1, <2>2 DEF ToSet
<1>. QED
  BY <1>2, <1>4, <1>5, <1>6 DEF Paths

LEMMA InsertedIsAPath ==
  ASSUME NEW P, NEW o \in Paths(P), NEW pos \in 0 .. Len(o), NEW p \in P, p \notin ToSet(o)
  PROVE  Inserted(o, pos, p) \in Paths(P)
<1>1. o \in Seq(P) /\ IsInjective(o) /\ Len(o) \in Nat /\ DOMAIN o = 1 .. Len(o)
  BY DEF Paths
<1>2. 1 \in 1 .. Len(o) + 1 /\ pos + 1 \in 1 .. Len(o) + 1 /\ Len(o) \in 0 .. Len(o)
  BY <1>1
<1>3. PICK a : a = SubSeq(o, 1, pos)
  OBVIOUS
<1>4. PICK b : b = SubSeq(o, pos + 1, Len(o))
  OBVIOUS
<1>5. PICK c : c = <<p>>
  OBVIOUS
<1>6. a \in Paths(P) /\ ToSet(a) = {o[k] : k \in 1 .. pos}
  BY <1>2, <1>3, PartIsAPath
<1>7. b \in Paths(P) /\ ToSet(b) = {o[k] : k \in pos + 1 .. Len(o)}
  BY <1>2, <1>4, PartIsAPath
<1>8. c \in Seq(P) /\ ToSet(c) = {p} /\ IsInjective(c)
  BY <1>5, SingleOne
<1>9. a \in Seq(P) /\ IsInjective(a) /\ b \in Seq(P) /\ IsInjective(b)
  BY <1>6, <1>7 DEF Paths
<1>10. \A k \in 1 .. pos : k \in 1 .. Len(o)
  BY <1>1
<1>11. \A k \in pos + 1 .. Len(o) : k \in 1 .. Len(o) /\ k \notin 1 .. pos
  BY <1>1
<1>12. p \notin ToSet(a) /\ p \notin ToSet(b)
  BY <1>1, <1>6, <1>7, <1>10, <1>11 DEF ToSet
<1>13. ToSet(a) \cap ToSet(b) = {}
  <2>. SUFFICES ASSUME NEW k \in 1 .. pos, NEW l \in pos + 1 .. Len(o), o[k] = o[l] PROVE FALSE
    BY <1>6, <1>7
  <2>1. k = l
    BY <1>1, <1>10, <1>11 DEF IsInjective
  <2>. QED
    BY <1>11, <2>1
<1>14. PICK d : d = a \o c
  OBVIOUS
<1>15. d \in Seq(P) /\ ToSet(d) = ToSet(a) \cup {p} /\ IsInjective(d)
  <2>1. ToSet(a) \cap ToSet(c) = {}
    BY <1>8, <1>12
  <2>2. IsInjective(d)
    BY <1>8, <1>9, <1>14, <2>1, JoinedInjective
  <2>. QED
    BY <1>8, <1>9, <1>14, <2>2, JoinedSet
<1>16. PICK e : e = d \o b
  OBVIOUS
<1>17. e \in Seq(P) /\ IsInjective(e)
  <2>1. ToSet(d) \cap ToSet(b) = {}
    BY <1>12, <1>13, <1>15
  <2>2. IsInjective(e)
    BY <1>9, <1>15, <1>16, <2>1, JoinedInjective
  <2>. QED
    BY <1>9, <1>15, <1>16, <2>2, JoinedSet
<1>18. Inserted(o, pos, p) = e
  BY <1>3, <1>4, <1>5, <1>14, <1>16 DEF Inserted
<1>. QED
  BY <1>17, <1>18 DEF Paths

-----------------------------------------------------------------------------
(* The nights and the roads.                                               *)

LEMMA StaysExist ==
  /\ StayCities \in Seq(Cities) /\ StayCities # <<>>
<1>1. CityListing \in Seq(Cities) /\ ToSet(CityListing) = Cities
  BY CatalogueAssumption DEF Cities
<1>2. PICK S : S = {c \in Cities : City[c].amenities >= 2}
  OBVIOUS
<1>3. StayCities \in Seq(Cities) /\ ToSet(StayCities) = Cities \cap S
  BY <1>1, <1>2, WhereChooses DEF StayCities
<1>4. S # {} /\ S \subseteq Cities
  BY <1>2, CatalogueAssumption
<1>. QED
  BY <1>3, <1>4, NothingIsEmpty

LEMMA StayIsACity ==
  ASSUME NEW last, NEW next
  PROVE  PickStayCity(last, next) \in Cities
<1>. DEFINE value == [c \in Cities |-> 100 * Straight[last][c]
                          + (IF next = <<>> THEN 0 ELSE 35 * Straight[c][next[1]])]
<1>1. PICK near : near = Where(StayCities, {c \in Cities : Straight[last][c] <= 120})
  OBVIOUS
<1>2. PICK v : v = value
  OBVIOUS
<1>3. near \in Seq(Cities)
  BY <1>1, StaysExist, WhereChooses
<1>4. \A s \in Seq(Cities) : ToSet(s) \subseteq Cities
  BY NothingIsEmpty
<1>5. FirstBest(StayCities, Straight[last]) \in Cities
  BY <1>4, StaysExist, BestIsOne
<1>6. near # <<>> => FirstBest(near, v) \in Cities
  BY <1>3, <1>4, BestIsOne
<1>7. PickStayCity(last, next) = IF near = <<>> THEN FirstBest(StayCities, Straight[last]) ELSE FirstBest(near, v)
  BY <1>1, <1>2 DEF PickStayCity
<1>. QED
  BY <1>5, <1>6, <1>7

LEMMA TransferIsACity ==
  ASSUME NEW from, NEW next, NEW left, NEW fromCity \in Cities, NEW slowdown, NEW measured
  PROVE  PickTransferCity(from, next, left, fromCity, slowdown, measured) \in Cities
<1>1. PICK nearer : nearer = Where(StayCities, {c \in Cities :
            /\ LegBetween(from, c, fromCity, slowdown, measured).minutes <= left
            /\ Straight[c][next[1]] < Straight[from][next[1]]})
  OBVIOUS
<1>2. PICK v : v = [c \in Cities |-> Straight[c][next[1]]]
  OBVIOUS
<1>3. nearer \in Seq(Cities)
  BY <1>1, StaysExist, WhereChooses
<1>4. nearer # <<>> => FirstBest(nearer, v) \in Cities
  BY <1>3, NothingIsEmpty, BestIsOne
<1>5. PickTransferCity(from, next, left, fromCity, slowdown, measured)
        = IF next = <<>> \/ nearer = <<>> THEN fromCity ELSE FirstBest(nearer, v)
  BY <1>1, <1>2 DEF PickTransferCity
<1>. QED
  BY <1>4, <1>5

LegRecord == [km : Nat, terrain : {"mountain", "freeway", "plain"}, real : BOOLEAN, minutes : Nat]

(* Products and quotients of whole numbers, as minutes and prices need them. *)
LEMMA ProductIsNatural ==
  ASSUME NEW a \in Nat, NEW b \in Nat
  PROVE  a * b \in Nat
OBVIOUS

LEMMA QuotientIsNatural ==
  ASSUME NEW a \in Nat, NEW b \in Nat, b > 0
  PROVE  a \div b \in Nat
OBVIOUS

LEMMA SpeedIsPositive ==
  ASSUME NEW x \in Nat, x >= 8, NEW y \in {75, 100, 110}, NEW z \in Nat, z >= 63
  PROVE  (x * y * z) \div 100 \in Nat /\ (x * y * z) \div 100 > 0
<1>1. PICK w : w = x * y
  OBVIOUS
<1>2. w \in Nat /\ w >= 600
  BY <1>1
<1>3. w * z \in Nat /\ w * z >= 600
  BY <1>2
<1>4. PICK u : u = w * z
  OBVIOUS
<1>5. u \div 100 \in Nat /\ u \div 100 > 0
  BY <1>3, <1>4
<1>. QED
  BY <1>1, <1>4, <1>5

LEMMA LegIsALeg ==
  ASSUME NEW from \in Points, NEW to \in Points, NEW fromCity, NEW slowdown \in Nat, slowdown >= 63, NEW measured
  PROVE  LegBetween(from, to, fromCity, slowdown, measured) \in LegRecord
<1>1. PICK straight : straight = Straight[from][to]
  OBVIOUS
<1>2. PICK terrain : terrain = TerrainBetween(fromCity, CityAt(to), straight)
  OBVIOUS
<1>3. PICK road : road = RoadKm(straight, terrain)
  OBVIOUS
<1>4. PICK real : real = Measured[from][to]
  OBVIOUS
<1>5. straight \in Nat /\ real.km \in Nat /\ real.minutes \in Nat
  BY <1>1, <1>4, CatalogueAssumption
<1>6. terrain \in {"mountain", "freeway", "plain"}
  BY <1>2 DEF TerrainBetween
<1>7. Detour(terrain) \in Nat /\ TerrainSpeed(terrain) \in {75, 100, 110}
  BY DEF Detour, TerrainSpeed
<1>8. road \in Nat
  <2>1. PICK x : x = straight * Detour(terrain)
    OBVIOUS
  <2>2. x \in Nat
    BY <1>5, <1>7, <2>1
  <2>. QED
    BY <1>3, <2>1, <2>2 DEF RoadKm
<1>9. DrivingMinutes(road, terrain, slowdown) \in Nat
  <2>1. PICK x : x = (85 * SpeedFactor) \div 100
    OBVIOUS
  <2>2. x \in Nat /\ x >= 8
    BY <2>1, CatalogueAssumption
  <2>3. PICK y : y = (x * TerrainSpeed(terrain) * slowdown) \div 100
    OBVIOUS
  <2>4. y \in Nat /\ y > 0
    BY <1>7, <2>2, <2>3, SpeedIsPositive
  <2>5. road * 6000 * Minute \in Nat
    <3>1. PICK r, m : r = road * 6000 /\ m = Minute
      OBVIOUS
    <3>2. r \in Nat /\ m \in Nat
      BY <1>8, <3>1, CatalogueAssumption
    <3>. QED
      BY <3>1, <3>2, ProductIsNatural
  <2>. QED
    BY <2>1, <2>3, <2>4, <2>5, QuotientIsNatural DEF DrivingMinutes
<1>10. (real.minutes * 100) \div Most(30, (SpeedFactor * slowdown) \div 100) \in Nat
  <2>1. PICK x : x = SpeedFactor * slowdown
    OBVIOUS
  <2>2. x \in Nat
    BY <2>1, CatalogueAssumption
  <2>3. Most(30, x \div 100) \in Nat /\ Most(30, x \div 100) > 0
    BY <2>2 DEF Most
  <2>4. real.minutes * 100 \in Nat
    BY <1>5
  <2>. QED
    BY <2>1, <2>3, <2>4, QuotientIsNatural
<1>11. LegBetween(from, to, fromCity, slowdown, measured) =
         IF <<from, to>> \in measured
         THEN [km |-> real.km, terrain |-> terrain, real |-> TRUE,
               minutes |-> (real.minutes * 100) \div Most(30, (SpeedFactor * slowdown) \div 100)]
         ELSE [km |-> road, terrain |-> terrain, real |-> FALSE,
               minutes |-> DrivingMinutes(road, terrain, slowdown)]
  BY <1>1, <1>2, <1>3, <1>4 DEF LegBetween
<1>. QED
  BY <1>5, <1>6, <1>8, <1>9, <1>10, <1>11 DEF LegRecord

LEMMA WeightsAreNatural ==
  ASSUME NEW group \in Seq(Traveller)
  PROVE  /\ WeightOf(group, MealWeight) \in Nat
         /\ WeightOf(group, LodgingWeight) \in Nat
         /\ WeightOf(group, TicketWeight) \in Nat
<1>1. PICK n : n = Len(group)
  OBVIOUS
<1>2. n \in Nat /\ DOMAIN group = 1 .. n
  BY <1>1
<1>3. PICK m : m = [i \in 1 .. n |-> MealWeight(group[i].age)]
  OBVIOUS
<1>4. PICK l : l = [i \in 1 .. n |-> LodgingWeight(group[i].age)]
  OBVIOUS
<1>5. PICK t : t = [i \in 1 .. n |-> TicketWeight(group[i].age)]
  OBVIOUS
<1>6. m \in Seq(Nat) /\ l \in Seq(Nat) /\ t \in Seq(Nat)
  <2>1. \A a : MealWeight(a) \in Nat /\ LodgingWeight(a) \in Nat /\ TicketWeight(a) \in Nat
    BY DEF MealWeight, LodgingWeight, TicketWeight
  <2>2. m \in [1 .. n -> Nat] /\ l \in [1 .. n -> Nat] /\ t \in [1 .. n -> Nat]
    BY <1>3, <1>4, <1>5, <2>1
  <2>. QED
    BY <1>2, <2>2
<1>7. Sum(m) \in Nat /\ Sum(l) \in Nat /\ Sum(t) \in Nat
  BY <1>6, SumOfNumbers
<1>8. WeightOf(group, MealWeight) = Sum(m)
  BY <1>2, <1>3 DEF WeightOf
<1>9. WeightOf(group, LodgingWeight) = Sum(l)
  BY <1>2, <1>4 DEF WeightOf
<1>10. WeightOf(group, TicketWeight) = Sum(t)
  BY <1>2, <1>5 DEF WeightOf
<1>. QED
  BY <1>7, <1>8, <1>9, <1>10

SnackIsWhole(m) == \E k \in Nat : m * SnackRate = 100 * k

LEMMA SnacksAddUp ==
  ASSUME NEW m \in Nat, NEW n \in Nat, SnackIsWhole(m), SnackIsWhole(n)
  PROVE  /\ SnackIsWhole(m + n) /\ Snacks(m + n) = Snacks(m) + Snacks(n)
         /\ Snacks(m) \in Nat
<1>1. PICK k \in Nat : m * SnackRate = 100 * k
  BY DEF SnackIsWhole
<1>2. PICK l \in Nat : n * SnackRate = 100 * l
  BY DEF SnackIsWhole
<1>3. SnackRate \in Nat
  BY PricesAssumption DEF PriceBook
<1>4. (m + n) * SnackRate = 100 * (k + l)
  BY <1>1, <1>2, <1>3
<1>5. \A j \in Nat : (100 * j) \div 100 = j
  OBVIOUS
<1>6. Snacks(m) = k /\ Snacks(n) = l
  BY <1>1, <1>2, <1>5 DEF Snacks
<1>7. k + l \in Nat /\ Snacks(m + n) = k + l
  BY <1>4, <1>5 DEF Snacks
<1>. QED
  BY <1>4, <1>6, <1>7 DEF SnackIsWhole

LEMMA NothingToNibble == SnackIsWhole(0) /\ Snacks(0) = 0
<1>1. SnackRate \in Nat
  BY PricesAssumption DEF PriceBook
<1>2. 0 * SnackRate = 100 * 0 /\ 0 \in Nat
  BY <1>1
<1>3. 0 \div 100 = 0
  OBVIOUS
<1>. QED
  BY <1>1, <1>2, <1>3 DEF SnackIsWhole, Snacks

LEMMA SnackOfProduct ==
  ASSUME NEW p \in Nat, (p * SnackRate) % 100 = 0, NEW w \in Nat, NEW c \in Nat
  PROVE  p * w * c \in Nat /\ SnackIsWhole(p * w * c)
<1>1. SnackRate \in Nat
  BY PricesAssumption DEF PriceBook
<1>2. PICK x : x = p * SnackRate
  OBVIOUS
<1>3. x \in Nat /\ x % 100 = 0
  BY <1>1, <1>2
<1>4. PICK k \in Nat : x = 100 * k
  <2>1. x = 100 * (x \div 100) /\ x \div 100 \in Nat
    BY <1>3
  <2>. QED
    BY <2>1
<1>5. PICK v : v = w * c
  OBVIOUS
<1>6. v \in Nat /\ k * v \in Nat /\ p * v \in Nat
  BY <1>5, ProductIsNatural
<1>7. p * w * c = p * v
  BY <1>5
<1>8. (p * v) * SnackRate = (p * SnackRate) * v
  BY <1>1, <1>6
<1>9. (100 * k) * v = 100 * (k * v)
  BY <1>6
<1>. QED
  BY <1>2, <1>4, <1>6, <1>7, <1>8, <1>9 DEF SnackIsWhole

LEMMA MealIsPriced ==
  ASSUME trip \in TripInput, NEW meal \in {"breakfast", "lunch", "dinner"}, NEW c \in Cities
  PROVE  MealCost(trip, meal, c) \in Nat /\ SnackIsWhole(MealCost(trip, meal, c))
<1>1. trip.group \in Seq(Traveller) /\ trip.style \in Styles
  BY DEF TripInput, Styles
<1>2. PICK w : w = WeightOf(trip.group, MealWeight)
  OBVIOUS
<1>3. w \in Nat
  BY <1>1, <1>2, WeightsAreNatural
<1>4. PICK p : p = MealPrice[trip.style][meal]
  OBVIOUS
<1>5. p \in Nat /\ (p * SnackRate) % 100 = 0
  <2>1. MealPrice \in [Styles -> [{"breakfast", "lunch", "dinner"} -> Nat]]
    BY PricesAssumption DEF PriceBook
  <2>2. (MealPrice[trip.style][meal] * SnackRate) % 100 = 0
    BY <1>1, PricesAssumption
  <2>3. MealPrice[trip.style][meal] \in Nat
    BY <1>1, <2>1
  <2>. QED
    BY <1>4, <2>2, <2>3
<1>6. City[c].costIndex \in Nat
  BY CatalogueAssumption DEF CityRecord
<1>7. MealCost(trip, meal, c) = p * w * City[c].costIndex
  BY <1>2, <1>4 DEF MealCost
<1>. QED
  BY <1>3, <1>5, <1>6, <1>7, SnackOfProduct

LEMMA TicketIsPriced ==
  ASSUME trip \in TripInput, NEW p \in Places
  PROVE  TicketCost(trip, p) \in Nat
<1>1. trip.group \in Seq(Traveller)
  BY DEF TripInput
<1>2. PICK w : w = WeightOf(trip.group, TicketWeight)
  OBVIOUS
<1>3. w \in Nat
  BY <1>1, <1>2, WeightsAreNatural
<1>4. Poi[p].ticket \in Nat
  BY CatalogueAssumption DEF PoiRecord
<1>. QED
  BY <1>2, <1>3, <1>4, ProductIsNatural DEF TicketCost

LEMMA NightIsPriced ==
  ASSUME trip \in TripInput, NEW c \in Cities
  PROVE  NightCost(trip, c) \in Nat
<1>1. trip.group \in Seq(Traveller) /\ trip.style \in Styles /\ trip.lodging \in LodgingKinds
  BY DEF TripInput, Styles
<1>2. PICK w : w = WeightOf(trip.group, LodgingWeight)
  OBVIOUS
<1>3. w \in Nat
  BY <1>1, <1>2, WeightsAreNatural
<1>4. PICK n : n = NightPrice[trip.style]
  OBVIOUS
<1>5. PICK i : i = City[c].costIndex
  OBVIOUS
<1>6. PICK s : s = SeasonFactor(trip.season, City[c].climate)
  OBVIOUS
<1>7. PICK f : f = LodgingFactor[trip.lodging]
  OBVIOUS
<1>8. n \in Nat /\ f \in Nat
  BY <1>1, <1>4, <1>7, PricesAssumption DEF PriceBook
<1>9. i \in Nat
  BY <1>5, CatalogueAssumption DEF CityRecord
<1>10. s \in Nat
  BY <1>6 DEF SeasonFactor
<1>11. w * n \in Nat
  BY <1>3, <1>8, ProductIsNatural
<1>12. w * n * i \in Nat
  BY <1>9, <1>11, ProductIsNatural
<1>13. w * n * i * s \in Nat
  BY <1>10, <1>12, ProductIsNatural
<1>14. PICK x : x = w * n * i * s * f
  OBVIOUS
<1>15. x \in Nat
  BY <1>8, <1>13, <1>14, ProductIsNatural
<1>16. NightCost(trip, c) = x \div 1000
  BY <1>2, <1>4, <1>5, <1>6, <1>7, <1>14 DEF NightCost
<1>. QED
  BY <1>15, <1>16

LEMMA KilometreIsPriced ==
  ASSUME trip \in TripInput
  PROVE  FuelPerKm(trip) \in Nat /\ OtherPerKm(trip) \in Nat
<1>1. /\ trip.subsidized \in 0 .. 100 /\ trip.cars \in Nat
      /\ Len(trip.group) \in Nat
  BY DEF TripInput
<1>2. PICK n : n = Cars(trip)
  OBVIOUS
<1>3. n \in Nat /\ n > 0
  BY <1>1, <1>2 DEF Cars, Most
<1>4. /\ Vehicle.consumption \in Nat /\ Vehicle.toll \in Nat /\ Vehicle.wear \in Nat
      /\ TollPerKm \in Nat /\ FuelPrice["subsidized"] \in Nat /\ FuelPrice["free"] \in Nat
  BY PricesAssumption DEF PriceBook, VehicleRecord
<1>5. PICK p : p = EffectiveFuelPrice(trip)
  OBVIOUS
<1>6. p \in Nat
  <2>a. \A s \in 0 .. 100 : s \in Nat /\ 100 - s \in Nat
    OBVIOUS
  <2>1. trip.subsidized \in Nat /\ 100 - trip.subsidized \in Nat
    BY <1>1, <2>a
  <2>2. /\ trip.subsidized * FuelPrice["subsidized"] \in Nat
        /\ (100 - trip.subsidized) * FuelPrice["free"] \in Nat
    BY <1>4, <2>1, ProductIsNatural
  <2>. QED
    BY <1>5, <2>2 DEF EffectiveFuelPrice
<1>7. PICK l : l = LoadFactor(trip)
  OBVIOUS
<1>8. l \in Nat
  <2>1. PICK x : x = 3 * Most(0, Len(trip.group) - 2 * n)
    OBVIOUS
  <2>a. \A g \in Nat : Most(0, g - 2 * n) \in Nat
    BY <1>3 DEF Most
  <2>b. Most(0, Len(trip.group) - 2 * n) \in Nat
    BY <1>1, <2>a
  <2>2. x \in Nat
    BY <2>1, <2>b
  <2>3. x \div n \in Nat
    BY <1>3, <2>2, QuotientIsNatural
  <2>4. l = Least(120, 100 + x \div n)
    BY <1>2, <1>7, <2>1 DEF LoadFactor
  <2>. QED
    BY <2>3, <2>4 DEF Least
<1>9. PICK x : x = Vehicle.consumption * p * l * n
  OBVIOUS
<1>10. x \in Nat
  <2>1. Vehicle.consumption * p \in Nat
    BY <1>4, <1>6, ProductIsNatural
  <2>2. Vehicle.consumption * p * l \in Nat
    BY <1>8, <2>1, ProductIsNatural
  <2>. QED
    BY <1>3, <1>9, <2>2, ProductIsNatural
<1>11. FuelPerKm(trip) = x \div 100
  BY <1>2, <1>5, <1>7, <1>9 DEF FuelPerKm
<1>12. OtherPerKm(trip) \in Nat
  <2>1. TollPerKm * Vehicle.toll \in Nat
    BY <1>4, ProductIsNatural
  <2>2. TollPerKm * Vehicle.toll + Vehicle.wear \in Nat
    BY <1>4, <2>1
  <2>. QED
    BY <1>2, <1>3, <2>2, ProductIsNatural DEF OtherPerKm
<1>. QED
  BY <1>10, <1>11, <1>12

(* What the roads of some kilometres cost, some of them in the mountains.  *)
RoadCost(t, km, mountainKm) ==
    FuelPerKm(t) * (100 * km + 15 * mountainKm) + 100 * km * OtherPerKm(t)

LEMMA RoadsAddUp ==
  ASSUME trip \in TripInput, NEW k \in Nat, NEW m \in Nat, NEW l \in Nat, NEW n \in Nat
  PROVE  RoadCost(trip, k, m) \in Nat /\ RoadCost(trip, k + l, m + n) = RoadCost(trip, k, m) + RoadCost(trip, l, n)
<1>1. PICK F : F = FuelPerKm(trip)
  OBVIOUS
<1>2. PICK O : O = OtherPerKm(trip)
  OBVIOUS
<1>3. F \in Nat /\ O \in Nat
  BY <1>1, <1>2, KilometreIsPriced
<1>4. PICK x : x = 100 * k + 15 * m
  OBVIOUS
<1>5. PICK y : y = 100 * l + 15 * n
  OBVIOUS
<1>6. x \in Nat /\ y \in Nat /\ 100 * (k + l) + 15 * (m + n) = x + y
  BY <1>4, <1>5
<1>7. F * (x + y) = F * x + F * y /\ F * x \in Nat
  BY <1>3, <1>6
<1>8. PICK u : u = 100 * k
  OBVIOUS
<1>9. PICK v : v = 100 * l
  OBVIOUS
<1>10. u \in Nat /\ v \in Nat /\ 100 * (k + l) = u + v
  BY <1>8, <1>9
<1>11. (u + v) * O = u * O + v * O /\ u * O \in Nat
  BY <1>3, <1>10
<1>12. RoadCost(trip, k, m) = F * x + u * O /\ RoadCost(trip, l, n) = F * y + v * O
  BY <1>1, <1>2, <1>4, <1>5, <1>8, <1>9 DEF RoadCost
<1>13. RoadCost(trip, k + l, m + n) = F * (x + y) + (u + v) * O
  BY <1>1, <1>2, <1>6, <1>10 DEF RoadCost
<1>14. F * y \in Nat /\ v * O \in Nat
  BY <1>3, <1>6, <1>10, ProductIsNatural
<1>. QED
  BY <1>7, <1>11, <1>12, <1>13, <1>14

LEMMA LegIsPriced ==
  ASSUME trip \in TripInput, NEW leg \in LegRecord
  PROVE  LegCost(trip, leg) = RoadCost(trip, leg.km, IF leg.terrain = "mountain" THEN leg.km ELSE 0)
<1>1. PICK F : F = FuelPerKm(trip)
  OBVIOUS
<1>2. PICK O : O = OtherPerKm(trip)
  OBVIOUS
<1>3. F \in Nat /\ O \in Nat
  BY <1>1, <1>2, KilometreIsPriced
<1>4. PICK k : k = leg.km
  OBVIOUS
<1>5. k \in Nat
  BY <1>4 DEF LegRecord
<1>6. LegCost(trip, leg) = k * (F * (IF leg.terrain = "mountain" THEN 115 ELSE 100) + 100 * O)
  BY <1>1, <1>2, <1>4 DEF LegCost
<1>7. RoadCost(trip, k, k) = F * (100 * k + 15 * k) + 100 * k * O
  BY <1>1, <1>2 DEF RoadCost
<1>8. RoadCost(trip, k, 0) = F * (100 * k + 15 * 0) + 100 * k * O
  BY <1>1, <1>2 DEF RoadCost
<1>9. k * (F * 115 + 100 * O) = F * (100 * k + 15 * k) + 100 * k * O
  BY <1>3, <1>5
<1>10. k * (F * 100 + 100 * O) = F * (100 * k + 15 * 0) + 100 * k * O
  BY <1>3, <1>5
<1>. QED
  BY <1>4, <1>6, <1>7, <1>8, <1>9, <1>10

(* Tickets and nights, one after the other.                                *)
TicketsOf(t, seen)  == Sum([n \in DOMAIN seen |-> TicketCost(t, seen[n])])
NightsOf(t, nights) == Sum([n \in DOMAIN nights |-> NightCost(t, nights[n])])
CostOf(past)        == Sum([i \in DOMAIN past |-> past[i].cost])

\* What the elements of s are worth by the table v.
Worth(v, s) == [n \in DOMAIN s |-> v[s[n]]]

LEMMA ValuesGrow ==
  ASSUME NEW B, NEW s \in Seq(B), NEW e \in B, NEW v, \A b \in B : v[b] \in Nat,
         NEW t, t = Append(s, e)
  PROVE  /\ Sum(Worth(v, s)) \in Nat
         /\ Sum(Worth(v, t)) = Sum(Worth(v, s)) + v[e]
<1>1. PICK u : u = [n \in DOMAIN s |-> v[s[n]]]
  OBVIOUS
<1>16. PICK w : w = [n \in DOMAIN t |-> v[t[n]]]
  OBVIOUS
<1>2. PICK m : m = Len(s)
  OBVIOUS
<1>4. /\ m \in Nat /\ DOMAIN s = 1 .. m /\ \A i \in 1 .. m : s[i] \in B /\ t[i] = s[i]
      /\ DOMAIN t = 1 .. m + 1 /\ t[m + 1] = e
  BY <1>2
<1>5. u = [n \in 1 .. m |-> v[s[n]]] /\ \A i \in 1 .. m : v[s[i]] \in Nat
  BY <1>1, <1>4
<1>6. u \in Seq(Nat) /\ Len(u) = m
  BY <1>4, <1>5
<1>7. Sum(u) \in Nat
  BY <1>6, SumOfNumbers
<1>8. w = [n \in 1 .. m + 1 |-> v[t[n]]]
  BY <1>4, <1>16
<1>9. v[e] \in Nat /\ u \in Seq(Int) /\ v[e] \in Int
  BY <1>6
<1>10. PICK x : x = Append(u, v[e])
  OBVIOUS
<1>11. x = [n \in 1 .. m + 1 |-> x[n]] /\ \A n \in 1 .. m : x[n] = u[n]
  BY <1>4, <1>6, <1>9, <1>10
<1>12. x[m + 1] = v[e]
  BY <1>6, <1>10
<1>13. ASSUME NEW n \in 1 .. m + 1 PROVE x[n] = w[n]
  <2>1. CASE n = m + 1
    BY <1>4, <1>8, <1>12, <2>1
  <2>2. CASE n # m + 1
    <3>1. n \in 1 .. m
      BY <1>4, <2>2
    <3>2. x[n] = u[n] /\ u[n] = v[s[n]] /\ s[n] = t[n]
      BY <1>4, <1>5, <1>11, <3>1
    <3>3. w[n] = v[t[n]]
      BY <1>8
    <3>. QED
      BY <3>2, <3>3
  <2>. QED
    BY <2>1, <2>2
<1>14. w = x
  BY <1>8, <1>11, <1>13
<1>15. Sum(x) = Sum(u) + v[e]
  BY <1>9, <1>10, SumGrows
<1>. QED
  BY <1>1, <1>7, <1>14, <1>15, <1>16 DEF Worth

LEMMA TicketsGrow ==
  ASSUME trip \in TripInput, NEW s \in Seq(Places), NEW p \in Places
  PROVE  /\ TicketsOf(trip, s) \in Nat
         /\ TicketsOf(trip, Append(s, p)) = TicketsOf(trip, s) + TicketCost(trip, p)
<1>1. PICK v : v = [q \in Places |-> TicketCost(trip, q)]
  OBVIOUS
<1>2. \A q \in Places : v[q] = TicketCost(trip, q) /\ v[q] \in Nat
  BY <1>1, TicketIsPriced
<1>3. PICK t : t = Append(s, p)
  OBVIOUS
<1>4. t \in Seq(Places) /\ \A n \in DOMAIN t : t[n] \in Places
  BY <1>3
<1>5. \A n \in DOMAIN s : s[n] \in Places
  OBVIOUS
<1>6. [n \in DOMAIN t |-> v[t[n]]] = [n \in DOMAIN t |-> TicketCost(trip, t[n])]
  BY <1>2, <1>4
<1>7. [n \in DOMAIN s |-> v[s[n]]] = [n \in DOMAIN s |-> TicketCost(trip, s[n])]
  BY <1>2, <1>5
<1>8. /\ Sum(Worth(v, s)) \in Nat
      /\ Sum(Worth(v, t)) = Sum(Worth(v, s)) + v[p]
  BY <1>2, <1>3, ValuesGrow
<1>. QED
  BY <1>2, <1>3, <1>6, <1>7, <1>8 DEF Worth, TicketsOf

LEMMA NightsGrow ==
  ASSUME trip \in TripInput, NEW s \in Seq(Cities), NEW c \in Cities
  PROVE  /\ NightsOf(trip, s) \in Nat
         /\ NightsOf(trip, Append(s, c)) = NightsOf(trip, s) + NightCost(trip, c)
<1>1. PICK v : v = [d \in Cities |-> NightCost(trip, d)]
  OBVIOUS
<1>2. \A d \in Cities : v[d] = NightCost(trip, d) /\ v[d] \in Nat
  BY <1>1, NightIsPriced
<1>3. PICK t : t = Append(s, c)
  OBVIOUS
<1>4. t \in Seq(Cities) /\ \A n \in DOMAIN t : t[n] \in Cities
  BY <1>3
<1>5. \A n \in DOMAIN s : s[n] \in Cities
  OBVIOUS
<1>6. [n \in DOMAIN t |-> v[t[n]]] = [n \in DOMAIN t |-> NightCost(trip, t[n])]
  BY <1>2, <1>4
<1>7. [n \in DOMAIN s |-> v[s[n]]] = [n \in DOMAIN s |-> NightCost(trip, s[n])]
  BY <1>2, <1>5
<1>8. /\ Sum(Worth(v, s)) \in Nat
      /\ Sum(Worth(v, t)) = Sum(Worth(v, s)) + v[c]
  BY <1>2, <1>3, ValuesGrow
<1>. QED
  BY <1>2, <1>3, <1>6, <1>7, <1>8 DEF Worth, NightsOf

LEMMA CostsGrow ==
  ASSUME NEW B, \A b \in B : b.cost \in Nat, NEW s \in Seq(B), NEW d \in B
  PROVE  /\ CostOf(s) \in Nat
         /\ CostOf(Append(s, d)) = CostOf(s) + d.cost
<1>1. PICK v : v = [b \in B |-> b.cost]
  OBVIOUS
<1>2. \A b \in B : v[b] = b.cost /\ v[b] \in Nat
  BY <1>1
<1>3. PICK t : t = Append(s, d)
  OBVIOUS
<1>4. t \in Seq(B) /\ \A n \in DOMAIN t : t[n] \in B
  BY <1>3
<1>5. \A n \in DOMAIN s : s[n] \in B
  OBVIOUS
<1>6. [n \in DOMAIN t |-> v[t[n]]] = [n \in DOMAIN t |-> t[n].cost]
  BY <1>2, <1>4
<1>7. [n \in DOMAIN s |-> v[s[n]]] = [n \in DOMAIN s |-> s[n].cost]
  BY <1>2, <1>5
<1>8. /\ Sum(Worth(v, s)) \in Nat
      /\ Sum(Worth(v, t)) = Sum(Worth(v, s)) + v[d]
  BY <1>2, <1>3, ValuesGrow
<1>. QED
  BY <1>2, <1>3, <1>6, <1>7, <1>8 DEF Worth, CostOf

LEMMA NothingCosts == TicketsOf(trip, <<>>) = 0 /\ NightsOf(trip, <<>>) = 0 /\ CostOf(<<>>) = 0
<1>1. /\ [n \in DOMAIN <<>> |-> TicketCost(trip, <<>>[n])] = <<>>
      /\ [n \in DOMAIN <<>> |-> NightCost(trip, <<>>[n])] = <<>>
      /\ [n \in DOMAIN <<>> |-> <<>>[n].cost] = <<>>
  OBVIOUS
<1>. QED
  BY <1>1, SumOfNone DEF TicketsOf, NightsOf, CostOf

LEMMA TicketsJoin ==
  ASSUME trip \in TripInput, NEW s \in Seq(Places), NEW t \in Seq(Places)
  PROVE  TicketsOf(trip, s \o t) = TicketsOf(trip, s) + TicketsOf(trip, t)
<1>. DEFINE G == {u \in Seq(Places) : TicketsOf(trip, s \o u) = TicketsOf(trip, s) + TicketsOf(trip, u)}
<1>1. <<>> \in G
  <2>1. s \o <<>> = s /\ <<>> \in Seq(Places)
    OBVIOUS
  <2>2. TicketsOf(trip, <<>>) = 0
    BY NothingCosts
  <2>3. ASSUME NEW p \in Places PROVE TicketsOf(trip, s) \in Nat
    BY TicketsGrow
  <2>4. TicketsOf(trip, s) \in Nat
    <3>1. CASE Places = {}
      <4>1. s = <<>>
        BY <3>1, NothingIsEmpty
      <4>. QED
        BY <4>1, <2>2
    <3>. QED
      BY <2>3, <3>1
  <2>5. TicketsOf(trip, s) = TicketsOf(trip, s) + 0
    BY <2>4
  <2>. QED
    BY <2>1, <2>2, <2>5
<1>2. ASSUME NEW u \in Seq(Places), NEW p \in Places, u \in G PROVE Append(u, p) \in G
  <2>1. PICK v : v = Append(u, p)
    OBVIOUS
  <2>2. PICK w : w = s \o u
    OBVIOUS
  <2>3. w \in Seq(Places) /\ s \o v = Append(w, p) /\ v \in Seq(Places)
    BY <2>1, <2>2
  <2>4. TicketsOf(trip, Append(w, p)) = TicketsOf(trip, w) + TicketCost(trip, p)
    BY <2>3, TicketsGrow
  <2>5. /\ TicketsOf(trip, v) = TicketsOf(trip, u) + TicketCost(trip, p)
        /\ TicketsOf(trip, u) \in Nat /\ TicketsOf(trip, s) \in Nat
    BY <2>1, TicketsGrow
  <2>6. TicketsOf(trip, w) = TicketsOf(trip, s) + TicketsOf(trip, u)
    BY <1>2, <2>2
  <2>7. TicketCost(trip, p) \in Nat
    BY TicketIsPriced
  <2>8. TicketsOf(trip, s \o v) = TicketsOf(trip, s) + TicketsOf(trip, v)
    BY <2>3, <2>4, <2>5, <2>6, <2>7
  <2>. QED
    BY <2>1, <2>3, <2>8
<1>3. Seq(Places) \subseteq G
  <2>. HIDE DEF G
  <2>. QED
    BY <1>1, <1>2, InductionOnSeq
<1>. QED
  BY <1>3

-----------------------------------------------------------------------------
(* The choice of the route.                                                *)

Chosen(t) == {p \in Places : Kept(p, t, Vehicle)}

LEMMA PathIsATour ==
  ASSUME NEW P, NEW o \in Paths(P)
  PROVE  o \in Tours(ToSet(o)) /\ ToSet(o) \subseteq P
<1>1. o \in Seq(P) /\ IsInjective(o)
  BY DEF Paths
<1>2. ToSet(o) \subseteq P /\ \A i \in DOMAIN o : o[i] \in ToSet(o)
  BY <1>1, NothingIsEmpty
<1>3. o \in Seq(ToSet(o))
  BY <1>1, <1>2
<1>. QED
  BY <1>1, <1>2, <1>3 DEF Tours

LEMMA TourIsAPath ==
  ASSUME NEW P, NEW S, S \subseteq P, NEW o \in Tours(S)
  PROVE  o \in Paths(P) /\ ToSet(o) = S
<1>1. o \in Seq(S) /\ IsInjective(o) /\ ToSet(o) = S
  BY DEF Tours
<1>2. o \in Seq(P)
  BY <1>1
<1>. QED
  BY <1>1, <1>2 DEF Paths

LEMMA OptimizedIsAPath ==
  ASSUME NEW P, NEW start, NEW end, NEW o \in Paths(P)
  PROVE  OptimizeOrder(start, o, end) \in Paths(P) /\ ToSet(OptimizeOrder(start, o, end)) = ToSet(o)
<1>1. o \in Tours(ToSet(o)) /\ ToSet(o) \subseteq P
  BY PathIsATour
<1>2. OptimizeOrder(start, o, end) \in Tours(ToSet(o))
  BY <1>1, OptimizedIsATour
<1>. QED
  BY <1>1, <1>2, TourIsAPath

LEMMA StartIsAPath ==
  ASSUME NEW t
  PROVE  PinnedRoute(t, Scored(t, Vehicle)) \in Paths(Chosen(t))
<1>1. PICK found : found = Scored(t, Vehicle)
  OBVIOUS
<1>2. PICK P : P = Chosen(t)
  OBVIOUS
<1>3. found \in Seq(Entries(t, P)) /\ IsInjective(found)
  BY <1>1, <1>2, ScoredAreKept DEF Chosen
<1>4. PlacesOf(found) \in Seq(P) /\ IsInjective(PlacesOf(found))
  BY <1>3, PlacesOfEntries
<1>5. Where(PlacesOf(found), t.pinned) \in Paths(P)
  BY <1>4, WhereChooses DEF Paths
<1>6. OptimizeOrder(t.origin, Where(PlacesOf(found), t.pinned), EndPoint(t)) \in Paths(P)
  BY <1>5, OptimizedIsAPath
<1>. QED
  BY <1>1, <1>2, <1>6 DEF PinnedRoute

(* What can be inserted: a place more on a way is a way.                   *)
LEMMA InsertionsAreWays ==
  ASSUME NEW C, NEW E, route \in Paths(C), scored \in Seq(E), \A e \in E : e.poi \in C
  PROVE  /\ Insertions \in Seq(ToSet(Insertions))
         /\ \A x \in ToSet(Insertions) : x.order \in Paths(C)
<1>. DEFINE drive == RouteDrive(trip, matrix, route)
            ways == [i \in DOMAIN scored |->
                        IF scored[i].poi \in ToSet(route) THEN <<>>
                        ELSE [k \in 1 .. Len(route) + 1 |->
                            [order |-> Inserted(route, k - 1, scored[i].poi), score |-> scored[i].score]]]
            all == FlattenSeq(ways)
            weigh(x) == LET driven == RouteDrive(trip, matrix, x.order)
                            seen   == RouteVisit(trip, x.order)
                        IN  [order |-> x.order, score |-> x.score, drive |-> driven, total |-> driven + seen,
                             added |-> Most(Minute, driven + seen - drive - RouteVisit(trip, route))]
            weighed == [i \in DOMAIN all |-> weigh(all[i])]
            fit == {x \in ToSet(weighed) : x.drive <= DriveBudget(trip) /\ x.total <= TimeBudget(trip)}
<1>1. Insertions = Where(weighed, fit)
  BY DEF Insertions
<1>2. PICK S : S = {scored[i].score : i \in DOMAIN scored}
  OBVIOUS
<1>3. PICK B : B = [order : Paths(C), score : S]
  OBVIOUS
<1>4. Len(route) \in Nat /\ Len(scored) \in Nat /\ DOMAIN scored = 1 .. Len(scored)
  BY DEF Paths
<1>5. ASSUME NEW i \in DOMAIN scored PROVE ways[i] \in Seq(B)
  <2>1. CASE scored[i].poi \in ToSet(route)
    <3>1. ways[i] = <<>>
      BY <2>1
    <3>. QED
      BY <3>1
  <2>2. CASE scored[i].poi \notin ToSet(route)
    <3>1. scored[i].poi \in C /\ scored[i].score \in S
      BY <1>2
    <3>2. PICK w : w = [k \in 1 .. Len(route) + 1 |->
                [order |-> Inserted(route, k - 1, scored[i].poi), score |-> scored[i].score]]
      OBVIOUS
    <3>3. ASSUME NEW k \in 1 .. Len(route) + 1 PROVE w[k] \in B
      <4>1. k - 1 \in 0 .. Len(route)
        BY <1>4
      <4>2. Inserted(route, k - 1, scored[i].poi) \in Paths(C)
        BY <2>2, <3>1, <4>1, InsertedIsAPath
      <4>. QED
        BY <1>3, <3>1, <3>2, <4>2
    <3>4. w \in [1 .. Len(route) + 1 -> B]
      BY <3>2, <3>3
    <3>5. w \in Seq(B)
      BY <1>4, <3>4
    <3>6. ways[i] = w
      BY <2>2, <3>2
    <3>. QED
      BY <3>5, <3>6
  <2>. QED
    BY <2>1, <2>2
<1>6. ways \in Seq(Seq(B))
  <2>1. PICK n : n = Len(scored)
    OBVIOUS
  <2>2. ways = [i \in 1 .. n |-> ways[i]] /\ n \in Nat /\ \A i \in 1 .. n : ways[i] \in Seq(B)
    BY <1>4, <1>5, <2>1
  <2>. HIDE DEF ways
  <2>3. ways \in [1 .. n -> Seq(B)]
    BY <2>2
  <2>. QED
    BY <2>2, <2>3
<1>7. all \in Seq(B)
  <2>. HIDE DEF ways
  <2>1. <<>> \in Seq(B)
    OBVIOUS
  <2>. QED
    BY <1>6, <2>1, FlattenAppend
<1>8. ASSUME NEW i \in DOMAIN all PROVE weighed[i].order \in Paths(C)
  <2>. HIDE DEF all
  <2>1. all[i] \in B
    BY <1>7
  <2>2. all[i].order \in Paths(C)
    BY <1>3, <2>1
  <2>3. weigh(all[i]).order = all[i].order
    OBVIOUS
  <2>. HIDE DEF weigh
  <2>. QED
    BY <2>2, <2>3
<1>9. weighed \in Seq(ToSet(weighed)) /\ \A x \in ToSet(weighed) : x.order \in Paths(C)
  <2>. HIDE DEF all
  <2>1. PICK n : n = Len(all)
    OBVIOUS
  <2>2. n \in Nat /\ DOMAIN all = 1 .. n
    BY <1>7, <2>1
  <2>. HIDE DEF weigh
  <2>3. DOMAIN weighed = 1 .. n /\ weighed = [i \in 1 .. n |-> weighed[i]]
    BY <2>2
  <2>4. \A i \in 1 .. n : weighed[i].order \in Paths(C)
    BY <1>8, <2>2
  <2>. HIDE DEF weighed
  <2>5. weighed \in Seq(ToSet(weighed))
    BY <2>2, <2>3 DEF ToSet
  <2>. QED
    BY <2>3, <2>4, <2>5 DEF ToSet
<1>. HIDE DEF weighed, fit
<1>10. PICK ins : ins = Where(weighed, fit)
  OBVIOUS
<1>11. ins \in Seq(ToSet(weighed)) /\ ToSet(ins) = ToSet(weighed) \cap fit
  BY <1>9, <1>10, WhereChooses
<1>12. ins \in Seq(ToSet(ins))
  BY <1>11, NothingIsEmpty
<1>. QED
  BY <1>1, <1>9, <1>10, <1>11, <1>12

LEMMA InsertIsAPath ==
  ASSUME NEW C, NEW E, route \in Paths(C), scored \in Seq(E), \A e \in E : e.poi \in C,
         Insertions # <<>>
  PROVE  BestInsertion(Insertions).order \in Paths(C)
<1>1. /\ Insertions \in Seq(ToSet(Insertions))
      /\ \A x \in ToSet(Insertions) : x.order \in Paths(C)
  BY InsertionsAreWays
<1>2. BestInsertion(Insertions) \in ToSet(Insertions)
  BY <1>1, InsertionIsOne
<1>. QED
  BY <1>1, <1>2

-----------------------------------------------------------------------------
(* A lever leaves a trip that can be asked for.                            *)

LEMMA LeastLikedArePlaces ==
  ASSUME NEW E, scored \in Seq(E), \A e \in E : e.poi \in Places
  PROVE  LeastLiked \subseteq Places
<1>1. PICK w : w = Where(PlacesOf(scored), ToSet(totals.visited))
  OBVIOUS
<1>2. PICK all : all = PlacesOf(scored)
  OBVIOUS
<1>3. all \in Seq(Places)
  <2>1. PICK n : n = Len(scored)
    OBVIOUS
  <2>2. n \in Nat /\ DOMAIN scored = 1 .. n /\ \A i \in 1 .. n : scored[i].poi \in Places
    BY <2>1
  <2>3. all = [i \in 1 .. n |-> scored[i].poi]
    BY <1>2, <2>2 DEF PlacesOf
  <2>4. all \in [1 .. n -> Places]
    BY <2>2, <2>3
  <2>. QED
    BY <2>2, <2>4
<1>4. w \in Seq(Places)
  BY <1>1, <1>2, <1>3, WhereChooses
<1>5. LeastLiked = IF Len(w) < 3 THEN {} ELSE {w[Len(w)], w[Len(w) - 1]}
  BY <1>1 DEF LeastLiked
<1>6. CASE Len(w) < 3
  BY <1>5, <1>6
<1>7. CASE ~ (Len(w) < 3)
  <2>1. Len(w) \in DOMAIN w /\ Len(w) - 1 \in DOMAIN w
    BY <1>4, <1>7
  <2>2. w[Len(w)] \in Places /\ w[Len(w) - 1] \in Places
    BY <1>4, <2>1
  <2>. QED
    BY <1>5, <1>7, <2>2
<1>. QED
  BY <1>6, <1>7

LEMMA PulledIsATrip ==
  ASSUME trip \in TripInput, NEW E, scored \in Seq(E), \A e \in E : e.poi \in Places,
         NEW cheaper \in Levers
  PROVE  [cheaper EXCEPT !.ratings = <<>>, !.heights = FALSE] \in TripInput
<1>1. cheaper \in TripInput
  <2>1. CASE cheaper = trip
    BY <2>1
  <2>2. CASE cheaper = [trip EXCEPT !.style = Cheaper(@)] /\ Cheaper(trip.style) # "none"
    <3>1. Cheaper(trip.style) \in {"budget", "balanced", "comfort", "luxury"}
      BY <2>2 DEF Cheaper
    <3>. QED
      BY <2>2, <3>1 DEF TripInput
  <2>3. CASE cheaper = [trip EXCEPT !.lodging = "camp"]
    <3>1. "camp" \in LodgingKinds
      BY DEF LodgingKinds
    <3>. QED
      BY <2>3, <3>1 DEF TripInput
  <2>4. CASE cheaper = [trip EXCEPT !.blocked = @ \cup LeastLiked]
    <3>1. LeastLiked \subseteq Places
      BY LeastLikedArePlaces
    <3>2. trip.blocked \cup LeastLiked \in SUBSET Places
      BY <3>1 DEF TripInput
    <3>. QED
      BY <2>4, <3>2 DEF TripInput
  <2>5. CASE cheaper = [trip EXCEPT !.radius = ((((@ * 7) \div 10) + 12) \div 25) * 25]
    <3>1. trip.radius \in Nat
      BY DEF TripInput
    <3>2. ((((trip.radius * 7) \div 10) + 12) \div 25) * 25 \in Nat
      BY <3>1
    <3>. QED
      BY <2>5, <3>2 DEF TripInput
  <2>6. CASE cheaper = [trip EXCEPT !.days = @ - 1] /\ trip.days > 1
    <3>1. trip.days - 1 \in Nat \ {0}
      BY <2>6 DEF TripInput
    <3>. QED
      BY <2>6, <3>1 DEF TripInput
  <2>7. CASE cheaper = [trip EXCEPT !.subsidized = 100]
    <3>1. PICK x : x = 100
      OBVIOUS
    <3>2. x \in 0 .. 100 /\ cheaper = [trip EXCEPT !.subsidized = x]
      BY <2>7, <3>1
    <3>. QED
      BY <3>2 DEF TripInput
  <2>8. CASE cheaper = [trip EXCEPT !.cars = @ - 1] /\ trip.cars > 1
    <3>1. trip.cars - 1 \in Nat
      BY <2>8 DEF TripInput
    <3>. QED
      BY <2>8, <3>1 DEF TripInput
  <2>. QED
    BY <2>1, <2>2, <2>3, <2>4, <2>5, <2>6, <2>7, <2>8 DEF Levers
<1>2. <<>> \in Seq([cat : STRING, stars : 1 .. 5])
  OBVIOUS
<1>3. [cheaper EXCEPT !.ratings = <<>>] \in TripInput
  BY <1>1, <1>2 DEF TripInput
<1>. QED
  BY <1>3 DEF TripInput

-----------------------------------------------------------------------------
(* A day that is being filled.                                             *)

Kinds == {"breakfast", "lunch", "dinner", "drive", "rest", "fuel", "visit", "lodging", "snack"}
BlockRecord == [kind : Kinds, at : Int, minutes : Nat, place : Points, cost : Nat]
\* The weather there may be on some day of the trip.
SkiesOf(t) == {DayWeather(t.weather, c, n) : c \in Cities, n \in 1 .. t.days}
OpenDay(t) ==
    [blocks : Seq(BlockRecord), at : Int, end : Int, weather : SkiesOf(t), slowdown : {n \in Nat : n >= 63},
     driven : Nat, unrested : Nat, unfuelled : Nat, km : Nat, mountainKm : Nat, realKm : Nat,
     cost : Nat, meals : Nat, lunch : BOOLEAN, siesta : BOOLEAN, pois : Seq(Places),
     queue : Seq(Places), from : Cities, late : Nat]

\* By the clock, before anything is rounded: the blocks follow one another,
\* and the last place is left in time.
Ordered(blocks) ==
    \A k, l \in DOMAIN blocks :
        k < l /\ "snack" \notin {blocks[k].kind, blocks[l].kind} => Ends(blocks[k]) <= blocks[l].at
LeftOnTime(day) ==
    \A k \in DOMAIN day.blocks :
        day.blocks[k].kind = "visit" /\ day.blocks[k].place = Last(day.pois) =>
            Ends(day.blocks[k]) <= day.end + day.late

\* The blocks follow one another and the clock stands behind the last.
Timed(d) ==
    /\ Ordered(d.blocks)
    /\ \A k \in DOMAIN d.blocks : d.blocks[k].kind # "snack" /\ Ends(d.blocks[k]) <= d.at
SeenOnly(d) == \A k \in DOMAIN d.blocks : d.blocks[k].kind = "visit" => d.blocks[k].place \in ToSet(d.pois)
Priced(t, d)   == /\ SnackIsWhole(d.meals)
                  /\ d.cost = RoadCost(t, d.km, d.mountainKm) + TicketsOf(t, d.pois) + d.meals
DaySound(t, d) == d \in OpenDay(t) /\ Timed(d) /\ SeenOnly(d) /\ Priced(t, d)

\* The day e is d with the block b behind it.
Grown(t, d, e, b) ==
    /\ e \in OpenDay(t)
    /\ e.blocks = Append(d.blocks, b) /\ e.at = b.at + b.minutes /\ e.cost = d.cost + b.cost
    /\ e.end = d.end /\ e.weather = d.weather /\ e.slowdown = d.slowdown /\ e.from = d.from
    /\ e.late >= d.late /\ e.pois = d.pois /\ e.queue = d.queue

\* The day e is d a while later, nothing seen in between.
Continues(d, e) ==
    /\ e.end = d.end /\ e.weather = d.weather /\ e.slowdown = d.slowdown /\ e.from = d.from
    /\ e.pois = d.pois /\ e.queue = d.queue
    /\ LeftOnTime(d) => LeftOnTime(e)

(* A minute has ticks, and so many hours are whole numbers of them.        *)
LEMMA MinuteHasTicks == Minute \in Nat /\ Minute > 0
BY CatalogueAssumption

LEMMA CapIsNatural ==
  ASSUME trip \in TripInput
  PROVE  Cap \in Nat
<1>1. PICK d, m : d = trip.driving /\ m = Minute
  OBVIOUS
<1>2. d \in Nat /\ m \in Nat
  BY <1>1, MinuteHasTicks DEF TripInput
<1>. QED
  BY <1>1, <1>2, ProductIsNatural DEF Cap

LEMMA GrownBlocks ==
  ASSUME NEW d \in OpenDay(trip), NEW e, NEW b \in BlockRecord, Grown(trip, d, e, b)
  PROVE  /\ Len(d.blocks) \in Nat /\ DOMAIN d.blocks = 1 .. Len(d.blocks)
         /\ DOMAIN e.blocks = 1 .. Len(d.blocks) + 1
         /\ e.blocks[Len(d.blocks) + 1] = b
         /\ \A k \in 1 .. Len(d.blocks) : e.blocks[k] = d.blocks[k] /\ d.blocks[k] \in BlockRecord
<1>1. d.blocks \in Seq(BlockRecord)
  BY DEF OpenDay
<1>2. e.blocks = Append(d.blocks, b)
  BY DEF Grown
<1>. QED
  BY <1>1, <1>2

LEMMA GrownIsTimed ==
  ASSUME NEW d \in OpenDay(trip), NEW e, NEW b \in BlockRecord, Grown(trip, d, e, b), Timed(d),
         d.at <= b.at, b.kind # "snack"
  PROVE  Timed(e)
<1>1. PICK n : n = Len(d.blocks)
  OBVIOUS
<1>2. /\ n \in Nat /\ DOMAIN d.blocks = 1 .. n /\ DOMAIN e.blocks = 1 .. n + 1
      /\ e.blocks[n + 1] = b
      /\ \A k \in 1 .. n : e.blocks[k] = d.blocks[k] /\ d.blocks[k] \in BlockRecord
  BY <1>1, GrownBlocks
<1>3. /\ e.at = b.at + b.minutes /\ b.at \in Int /\ b.minutes \in Nat /\ d.at \in Int
      /\ \A x \in BlockRecord : Ends(x) \in Int
  <2>1. e.at = b.at + b.minutes
    BY DEF Grown
  <2>2. d.at \in Int
    BY DEF OpenDay
  <2>3. b.at \in Int /\ b.minutes \in Nat
    BY DEF BlockRecord
  <2>4. \A x \in BlockRecord : Ends(x) \in Int
    BY DEF BlockRecord, Ends
  <2>. QED
    BY <2>1, <2>2, <2>3, <2>4
<1>4. Ends(b) = e.at /\ d.at <= e.at
  BY <1>3 DEF Ends
<1>5. ASSUME NEW k \in 1 .. n PROVE e.blocks[k].kind # "snack" /\ Ends(e.blocks[k]) <= d.at
  BY <1>2 DEF Timed
<1>6. \A k \in 1 .. n + 1 : e.blocks[k].kind # "snack" /\ Ends(e.blocks[k]) <= e.at
  <2>. SUFFICES ASSUME NEW k \in 1 .. n + 1 PROVE e.blocks[k].kind # "snack" /\ Ends(e.blocks[k]) <= e.at
    OBVIOUS
  <2>1. CASE k = n + 1
    BY <1>2, <1>3, <1>4, <2>1
  <2>2. CASE k # n + 1
    <3>1. k \in 1 .. n
      BY <1>2, <2>2
    <3>2. e.blocks[k] \in BlockRecord
      BY <1>2, <3>1
    <3>. QED
      BY <1>3, <1>4, <1>5, <3>1, <3>2
  <2>. QED
    BY <2>1, <2>2
<1>7. ASSUME NEW k \in 1 .. n + 1, NEW l \in 1 .. n + 1, k < l
      PROVE  Ends(e.blocks[k]) <= e.blocks[l].at
  <2>1. k \in 1 .. n
    BY <1>2, <1>7
  <2>2. CASE l = n + 1
    <3>1. e.blocks[k] \in BlockRecord
      BY <1>2, <2>1
    <3>. QED
      BY <1>2, <1>3, <1>5, <2>1, <2>2, <3>1
  <2>3. CASE l # n + 1
    <3>1. l \in 1 .. n
      BY <1>2, <2>3
    <3>2. Ends(d.blocks[k]) <= d.blocks[l].at
      BY <1>2, <1>7, <2>1, <3>1 DEF Timed, Ordered
    <3>. QED
      BY <1>2, <2>1, <3>1, <3>2
  <2>. QED
    BY <2>2, <2>3
<1>. QED
  BY <1>2, <1>6, <1>7 DEF Timed, Ordered

LEMMA GrownContinues ==
  ASSUME NEW d \in OpenDay(trip), NEW e, NEW b \in BlockRecord, Grown(trip, d, e, b), b.kind # "visit"
  PROVE  Continues(d, e) /\ (SeenOnly(d) => SeenOnly(e))
<1>1. PICK n : n = Len(d.blocks)
  OBVIOUS
<1>2. /\ n \in Nat /\ DOMAIN d.blocks = 1 .. n /\ DOMAIN e.blocks = 1 .. n + 1
      /\ e.blocks[n + 1] = b
      /\ \A k \in 1 .. n : e.blocks[k] = d.blocks[k] /\ d.blocks[k] \in BlockRecord
  BY <1>1, GrownBlocks
<1>3. ASSUME NEW k \in DOMAIN e.blocks, e.blocks[k].kind = "visit"
      PROVE  k \in DOMAIN d.blocks /\ e.blocks[k] = d.blocks[k] /\ d.blocks[k] \in BlockRecord
  <2>1. k # n + 1
    BY <1>2, <1>3
  <2>2. k \in 1 .. n
    BY <1>2, <2>1
  <2>. QED
    BY <1>2, <2>2
<1>4. SeenOnly(d) => SeenOnly(e)
  BY <1>3 DEF SeenOnly, Grown
<1>5. ASSUME LeftOnTime(d) PROVE LeftOnTime(e)
  <2>. SUFFICES ASSUME NEW k \in DOMAIN e.blocks, e.blocks[k].kind = "visit",
                       e.blocks[k].place = Last(e.pois)
                PROVE  Ends(e.blocks[k]) <= e.end + e.late
    BY DEF LeftOnTime
  <2>1. Ends(d.blocks[k]) <= d.end + d.late
    BY <1>3, <1>5 DEF LeftOnTime, Grown
  <2>2. Ends(d.blocks[k]) \in Int
    BY <1>3 DEF BlockRecord, Ends
  <2>3. d.end \in Int /\ d.late \in Nat /\ e.late \in Nat /\ e.end = d.end /\ e.late >= d.late
    BY DEF OpenDay, Grown
  <2>. QED
    BY <1>3, <2>1, <2>2, <2>3
<1>. QED
  BY <1>4, <1>5 DEF Continues, Grown

LEMMA ContinuesOn ==
  ASSUME NEW d, NEW e, NEW f, Continues(d, e), Continues(e, f)
  PROVE  Continues(d, f)
BY DEF Continues

LEMMA ContinuesSelf ==
  ASSUME NEW d
  PROVE  Continues(d, d)
BY DEF Continues

-----------------------------------------------------------------------------
(* What the turns of a day leave of it.                                    *)

LEMMA BlockIsABlock ==
  ASSUME NEW kind \in Kinds, NEW at \in Int, NEW minutes \in Nat, NEW place \in Points, NEW cost \in Nat,
         NEW b, b = NewBlock(kind, at, minutes, place, cost)
  PROVE  /\ b \in BlockRecord /\ b.kind = kind /\ b.at = at /\ b.minutes = minutes /\ b.place = place
         /\ b.cost = cost
BY DEF BlockRecord, NewBlock

LEMMA WithIsGrown ==
  ASSUME NEW d \in OpenDay(trip), NEW b \in BlockRecord, NEW e, e = With(d, b)
  PROVE  /\ Grown(trip, d, e, b)
         /\ e.driven = d.driven /\ e.unrested = d.unrested /\ e.unfuelled = d.unfuelled /\ e.km = d.km
         /\ e.mountainKm = d.mountainKm /\ e.realKm = d.realKm /\ e.meals = d.meals
         /\ e.lunch = d.lunch /\ e.siesta = d.siesta /\ e.late = d.late
<1>1. PICK q : q = Append(d.blocks, b)
  OBVIOUS
<1>2. q \in Seq(BlockRecord)
  BY <1>1 DEF OpenDay
<1>3. b.at + b.minutes \in Int /\ d.cost + b.cost \in Nat
  <2>1. b.at \in Int /\ b.minutes \in Nat /\ b.cost \in Nat
    BY DEF BlockRecord
  <2>2. d.cost \in Nat
    BY DEF OpenDay
  <2>. QED
    BY <2>1, <2>2
<1>4. e = [d EXCEPT !.blocks = q, !.at = b.at + b.minutes, !.cost = d.cost + b.cost]
  BY <1>1 DEF With, OpenDay
<1>5. e \in OpenDay(trip)
  BY <1>2, <1>3, <1>4 DEF OpenDay
<1>6. /\ e.blocks = q /\ e.at = b.at + b.minutes /\ e.cost = d.cost + b.cost
      /\ e.end = d.end /\ e.weather = d.weather /\ e.slowdown = d.slowdown /\ e.from = d.from
      /\ e.late = d.late /\ e.pois = d.pois /\ e.queue = d.queue
      /\ e.driven = d.driven /\ e.unrested = d.unrested /\ e.unfuelled = d.unfuelled /\ e.km = d.km
      /\ e.mountainKm = d.mountainKm /\ e.realKm = d.realKm /\ e.meals = d.meals
      /\ e.lunch = d.lunch /\ e.siesta = d.siesta
  BY <1>4 DEF OpenDay
<1>7. e.late >= d.late
  BY <1>6 DEF OpenDay
<1>. QED
  BY <1>1, <1>5, <1>6, <1>7 DEF Grown

LEMMA SoundlyGrown ==
  ASSUME NEW d, DaySound(trip, d), NEW b \in BlockRecord, NEW e, Grown(trip, d, e, b), d.at <= b.at,
         b.kind \notin {"visit", "snack"}, Priced(trip, e)
  PROVE  DaySound(trip, e) /\ Continues(d, e)
BY GrownIsTimed, GrownContinues DEF DaySound, Grown

LEMMA PricedAsBefore ==
  ASSUME NEW d \in OpenDay(trip), Priced(trip, d), NEW e, e.meals = d.meals, e.km = d.km, e.mountainKm = d.mountainKm,
         e.pois = d.pois, e.cost = d.cost
  PROVE  Priced(trip, e)
BY DEF Priced

LEMMA RestedIsSound ==
  ASSUME NEW d, DaySound(trip, d), city \in Cities, NEW way, NEW e, e = Rested(d, way)
  PROVE  /\ DaySound(trip, e) /\ Continues(d, e)
         /\ e.driven = d.driven /\ e.late = d.late
         /\ e.at = d.at + (IF NeedsRest(way) THEN Rest ELSE 0)
<1>1. d \in OpenDay(trip) /\ d.at \in Int /\ d.cost \in Nat /\ d.late \in Nat
  BY DEF DaySound, OpenDay
<1>2. CASE ~ (NeedsRest(way))
  <2>1. e = d
    BY <1>2 DEF Rested
  <2>. QED
    BY <1>1, <1>2, <2>1, ContinuesSelf
<1>3. CASE NeedsRest(way)
  <2>0. 0 \in Nat /\ city \in Points /\ Rest \in Nat /\ "rest" \in Kinds
    BY MinuteHasTicks DEF Points, Rest, Kinds
  <2>1. PICK b : b = NewBlock("rest", d.at, Rest, city, 0)
    OBVIOUS
  <2>2. b \in BlockRecord /\ b.kind = "rest" /\ b.at = d.at /\ b.minutes = Rest /\ b.cost = 0
    BY <1>1, <2>0, <2>1, BlockIsABlock
  <2>3. PICK w : w = With(d, b)
    OBVIOUS
  <2>4. /\ Grown(trip, d, w, b)
        /\ w.driven = d.driven /\ w.unrested = d.unrested /\ w.unfuelled = d.unfuelled /\ w.km = d.km
        /\ w.mountainKm = d.mountainKm /\ w.realKm = d.realKm /\ w.meals = d.meals
        /\ w.lunch = d.lunch /\ w.siesta = d.siesta /\ w.late = d.late
    BY <1>1, <2>2, <2>3, WithIsGrown
  <2>5. e = [w EXCEPT !.unrested = 0]
    BY <1>3, <2>1, <2>3 DEF Rested
  <2>6. w \in OpenDay(trip)
    BY <2>4 DEF Grown
  <2>7. e \in OpenDay(trip)
    <3>1. 0 \in Nat
      OBVIOUS
    <3>. QED
      BY <2>5, <2>6, <3>1 DEF OpenDay
  <2>8. /\ e.blocks = w.blocks /\ e.at = w.at /\ e.end = w.end /\ e.weather = w.weather
        /\ e.slowdown = w.slowdown /\ e.driven = w.driven /\ e.unfuelled = w.unfuelled /\ e.km = w.km
        /\ e.mountainKm = w.mountainKm /\ e.realKm = w.realKm /\ e.cost = w.cost /\ e.meals = w.meals
        /\ e.lunch = w.lunch /\ e.siesta = w.siesta /\ e.pois = w.pois /\ e.queue = w.queue
        /\ e.from = w.from /\ e.late = w.late
        /\ e.unrested = 0
    BY <2>5, <2>6 DEF OpenDay
  <2>9. Grown(trip, d, e, b)
    BY <2>4, <2>7, <2>8 DEF Grown
  <2>10. Priced(trip, e)
    <3>1. e.cost = d.cost
      BY <1>1, <2>2, <2>9 DEF Grown
    <3>. QED
      BY <1>1, <2>4, <2>8, <2>9, <3>1, PricedAsBefore DEF DaySound, Grown
  <2>11. DaySound(trip, e) /\ Continues(d, e)
    BY <1>1, <2>2, <2>0, <2>9, <2>10, SoundlyGrown
  <2>12. e.at = b.at + b.minutes
    BY <2>9 DEF Grown
  <2>. QED
    BY <1>3, <1>1, <2>0, <2>2, <2>4, <2>8, <2>11, <2>12
<1>. QED
  BY <1>2, <1>3

LEMMA FuelledIsSound ==
  ASSUME NEW d, DaySound(trip, d), city \in Cities, NEW way, NEW e, e = Fuelled(d, way)
  PROVE  /\ DaySound(trip, e) /\ Continues(d, e)
         /\ e.driven = d.driven /\ e.late = d.late
         /\ e.at = d.at + (IF NeedsFuel(way) THEN FuelStop ELSE 0)
<1>1. d \in OpenDay(trip) /\ d.at \in Int /\ d.cost \in Nat /\ d.late \in Nat
  BY DEF DaySound, OpenDay
<1>2. CASE ~ (NeedsFuel(way))
  <2>1. e = d
    BY <1>2 DEF Fuelled
  <2>. QED
    BY <1>1, <1>2, <2>1, ContinuesSelf
<1>3. CASE NeedsFuel(way)
  <2>0. 0 \in Nat /\ city \in Points /\ FuelStop \in Nat /\ "fuel" \in Kinds
    BY MinuteHasTicks DEF Points, FuelStop, Kinds
  <2>1. PICK b : b = NewBlock("fuel", d.at, FuelStop, city, 0)
    OBVIOUS
  <2>2. b \in BlockRecord /\ b.kind = "fuel" /\ b.at = d.at /\ b.minutes = FuelStop /\ b.cost = 0
    BY <1>1, <2>0, <2>1, BlockIsABlock
  <2>3. PICK w : w = With(d, b)
    OBVIOUS
  <2>4. /\ Grown(trip, d, w, b)
        /\ w.driven = d.driven /\ w.unrested = d.unrested /\ w.unfuelled = d.unfuelled /\ w.km = d.km
        /\ w.mountainKm = d.mountainKm /\ w.realKm = d.realKm /\ w.meals = d.meals
        /\ w.lunch = d.lunch /\ w.siesta = d.siesta /\ w.late = d.late
    BY <1>1, <2>2, <2>3, WithIsGrown
  <2>5. e = [w EXCEPT !.unfuelled = 0]
    BY <1>3, <2>1, <2>3 DEF Fuelled
  <2>6. w \in OpenDay(trip)
    BY <2>4 DEF Grown
  <2>7. e \in OpenDay(trip)
    <3>1. 0 \in Nat
      OBVIOUS
    <3>. QED
      BY <2>5, <2>6, <3>1 DEF OpenDay
  <2>8. /\ e.blocks = w.blocks /\ e.at = w.at /\ e.end = w.end /\ e.weather = w.weather
        /\ e.slowdown = w.slowdown /\ e.driven = w.driven /\ e.unrested = w.unrested /\ e.km = w.km
        /\ e.mountainKm = w.mountainKm /\ e.realKm = w.realKm /\ e.cost = w.cost /\ e.meals = w.meals
        /\ e.lunch = w.lunch /\ e.siesta = w.siesta /\ e.pois = w.pois /\ e.queue = w.queue
        /\ e.from = w.from /\ e.late = w.late
        /\ e.unfuelled = 0
    BY <2>5, <2>6 DEF OpenDay
  <2>9. Grown(trip, d, e, b)
    BY <2>4, <2>7, <2>8 DEF Grown
  <2>10. Priced(trip, e)
    <3>1. e.cost = d.cost
      BY <1>1, <2>2, <2>9 DEF Grown
    <3>. QED
      BY <1>1, <2>4, <2>8, <2>9, <3>1, PricedAsBefore DEF DaySound, Grown
  <2>11. DaySound(trip, e) /\ Continues(d, e)
    BY <1>1, <2>2, <2>0, <2>9, <2>10, SoundlyGrown
  <2>12. e.at = b.at + b.minutes
    BY <2>9 DEF Grown
  <2>. QED
    BY <1>3, <1>1, <2>0, <2>2, <2>4, <2>8, <2>11, <2>12
<1>. QED
  BY <1>2, <1>3

LEMMA TicketsAreNatural ==
  ASSUME trip \in TripInput, NEW s \in Seq(Places)
  PROVE  TicketsOf(trip, s) \in Nat
<1>1. CASE s = <<>>
  BY <1>1, NothingCosts
<1>2. CASE s # <<>>
  <2>1. s[1] \in Places
    BY <1>2
  <2>. QED
    BY <2>1, TicketsGrow
<1>. QED
  BY <1>1, <1>2

LEMMA DrivenIsSound ==
  ASSUME NEW d, DaySound(trip, d), city \in Cities, trip \in TripInput,
         NEW leg \in LegRecord, NEW to \in Points, NEW e, e = Driven(d, leg, to)
  PROVE  /\ DaySound(trip, e) /\ Continues(d, e)
         /\ e.driven = d.driven + leg.minutes /\ e.late = d.late /\ e.at = d.at + leg.minutes
<1>1. d \in OpenDay(trip) /\ d.at \in Int /\ d.cost \in Nat /\ d.late \in Nat
  BY DEF DaySound, OpenDay
<1>3. /\ DaySound(trip, e) /\ Continues(d, e)
      /\ e.driven = d.driven + leg.minutes /\ e.late = d.late /\ e.at = d.at + leg.minutes
  <2>0. /\ leg.km \in Nat /\ leg.minutes \in Nat /\ "drive" \in Kinds /\ LegCost(trip, leg) \in Nat
        /\ trip \in TripInput /\ to \in Points /\ leg \in LegRecord
    <3>1. leg.km \in Nat /\ leg.minutes \in Nat /\ "drive" \in Kinds
      BY DEF LegRecord, Kinds
    <3>2. PICK m : m = IF leg.terrain = "mountain" THEN leg.km ELSE 0
      OBVIOUS
    <3>3. m \in Nat
      BY <3>1, <3>2
    <3>4. LegCost(trip, leg) = RoadCost(trip, leg.km, m)
      BY <3>2, LegIsPriced
    <3>5. RoadCost(trip, leg.km, m) \in Nat
      BY <3>1, <3>3, RoadsAddUp
    <3>. QED
      BY <3>1, <3>4, <3>5
  <2>1. PICK b : b = NewBlock("drive", d.at, leg.minutes, to, LegCost(trip, leg))
    OBVIOUS
  <2>2. b \in BlockRecord /\ b.kind = "drive" /\ b.at = d.at /\ b.minutes = leg.minutes /\ b.cost = LegCost(trip, leg)
    BY <1>1, <2>0, <2>1, BlockIsABlock
  <2>3. PICK w : w = With(d, b)
    OBVIOUS
  <2>4. /\ Grown(trip, d, w, b)
        /\ w.driven = d.driven /\ w.unrested = d.unrested /\ w.unfuelled = d.unfuelled /\ w.km = d.km
        /\ w.mountainKm = d.mountainKm /\ w.realKm = d.realKm /\ w.meals = d.meals
        /\ w.lunch = d.lunch /\ w.siesta = d.siesta /\ w.late = d.late
    BY <1>1, <2>2, <2>3, WithIsGrown
  <2>5. e = [w EXCEPT !.driven = w.driven + leg.minutes, !.unrested = w.unrested + leg.minutes,
                      !.unfuelled = w.unfuelled + leg.km, !.km = w.km + leg.km,
                      !.mountainKm = w.mountainKm + (IF leg.terrain = "mountain" THEN leg.km ELSE 0),
                      !.realKm = w.realKm + (IF leg.real THEN leg.km ELSE 0)]
    BY <2>1, <2>3 DEF Driven
  <2>6. w \in OpenDay(trip)
    BY <2>4 DEF Grown
  <2>7. e \in OpenDay(trip)
    <3>1. /\ d.driven + leg.minutes \in Nat /\ d.unrested + leg.minutes \in Nat /\ d.unfuelled + leg.km \in Nat
          /\ d.km + leg.km \in Nat /\ d.realKm + (IF leg.real THEN leg.km ELSE 0) \in Nat
          /\ d.mountainKm + (IF leg.terrain = "mountain" THEN leg.km ELSE 0) \in Nat
      <4>1. /\ d.driven \in Nat /\ d.unrested \in Nat /\ d.unfuelled \in Nat
            /\ d.km \in Nat /\ d.realKm \in Nat /\ d.mountainKm \in Nat
        BY <1>1 DEF OpenDay
      <4>. QED
        BY <2>0, <4>1
    <3>2. /\ w.driven + leg.minutes \in Nat /\ w.unrested + leg.minutes \in Nat /\ w.unfuelled + leg.km \in Nat
          /\ w.km + leg.km \in Nat /\ w.realKm + (IF leg.real THEN leg.km ELSE 0) \in Nat
          /\ w.mountainKm + (IF leg.terrain = "mountain" THEN leg.km ELSE 0) \in Nat
      BY <2>4, <3>1
    <3>3. PICK n : n = w.driven + leg.minutes
      OBVIOUS
    <3>4. PICK u : u = w.unrested + leg.minutes
      OBVIOUS
    <3>5. PICK f : f = w.unfuelled + leg.km
      OBVIOUS
    <3>6. PICK k : k = w.km + leg.km
      OBVIOUS
    <3>7. PICK m : m = w.mountainKm + (IF leg.terrain = "mountain" THEN leg.km ELSE 0)
      OBVIOUS
    <3>8. PICK r : r = w.realKm + (IF leg.real THEN leg.km ELSE 0)
      OBVIOUS
    <3>9. e = [w EXCEPT !.driven = n, !.unrested = u, !.unfuelled = f, !.km = k, !.mountainKm = m, !.realKm = r]
      BY <2>5, <3>3, <3>4, <3>5, <3>6, <3>7, <3>8
    <3>10. n \in Nat /\ u \in Nat /\ f \in Nat /\ k \in Nat /\ m \in Nat /\ r \in Nat
      BY <3>2, <3>3, <3>4, <3>5, <3>6, <3>7, <3>8
    <3>11. [w EXCEPT !.driven = n, !.unrested = u, !.unfuelled = f, !.km = k, !.mountainKm = m, !.realKm = r]
             \in OpenDay(trip)
      BY <2>6, <3>10 DEF OpenDay
    <3>. QED
      BY <3>9, <3>11
  <2>8. /\ e.blocks = w.blocks /\ e.at = w.at /\ e.end = w.end /\ e.weather = w.weather
        /\ e.slowdown = w.slowdown /\ e.cost = w.cost /\ e.meals = w.meals /\ e.lunch = w.lunch
        /\ e.siesta = w.siesta /\ e.pois = w.pois /\ e.queue = w.queue /\ e.from = w.from
        /\ e.late = w.late
        /\ e.driven = w.driven + leg.minutes
        /\ e.unrested = w.unrested + leg.minutes
        /\ e.unfuelled = w.unfuelled + leg.km
        /\ e.km = w.km + leg.km
        /\ e.mountainKm = w.mountainKm + (IF leg.terrain = "mountain" THEN leg.km ELSE 0)
        /\ e.realKm = w.realKm + (IF leg.real THEN leg.km ELSE 0)
    BY <2>5, <2>6 DEF OpenDay
  <2>9. Grown(trip, d, e, b)
    BY <2>4, <2>7, <2>8 DEF Grown
  <2>10. Priced(trip, e)
    <3>1. PICK m : m = IF leg.terrain = "mountain" THEN leg.km ELSE 0
      OBVIOUS
    <3>2. m \in Nat /\ d.km \in Nat /\ d.mountainKm \in Nat /\ d.meals \in Nat /\ d.pois \in Seq(Places)
      <4>1. d.km \in Nat /\ d.mountainKm \in Nat /\ d.meals \in Nat /\ d.pois \in Seq(Places)
        BY <1>1 DEF OpenDay
      <4>. QED
        BY <2>0, <3>1, <4>1
    <3>3. LegCost(trip, leg) = RoadCost(trip, leg.km, m)
      BY <2>0, <3>1, LegIsPriced
    <3>4. /\ RoadCost(trip, d.km, d.mountainKm) \in Nat /\ RoadCost(trip, leg.km, m) \in Nat
          /\ RoadCost(trip, d.km + leg.km, d.mountainKm + m) = RoadCost(trip, d.km, d.mountainKm) + RoadCost(trip, leg.km, m)
      <4>1. /\ RoadCost(trip, d.km, d.mountainKm) \in Nat
            /\ RoadCost(trip, d.km + leg.km, d.mountainKm + m) = RoadCost(trip, d.km, d.mountainKm) + RoadCost(trip, leg.km, m)
        <5>1. PICK x : x = d.km
          OBVIOUS
        <5>2. PICK y : y = d.mountainKm
          OBVIOUS
        <5>3. PICK z : z = leg.km
          OBVIOUS
        <5>4. x \in Nat /\ y \in Nat /\ z \in Nat /\ m \in Nat /\ trip \in TripInput
          BY <2>0, <3>2, <5>1, <5>2, <5>3
        <5>5. RoadCost(trip, x, y) \in Nat /\ RoadCost(trip, x + z, y + m) = RoadCost(trip, x, y) + RoadCost(trip, z, m)
          BY <5>4, RoadsAddUp
        <5>. QED
          BY <5>1, <5>2, <5>3, <5>5
      <4>2. RoadCost(trip, leg.km, m) \in Nat
        BY <2>0, <3>2, RoadsAddUp
      <4>. QED
        BY <4>1, <4>2
    <3>5. TicketsOf(trip, d.pois) \in Nat
      BY <3>2, TicketsAreNatural
    <3>6. e.km = d.km + leg.km /\ e.mountainKm = d.mountainKm + m /\ e.meals = d.meals /\ e.pois = d.pois
      BY <2>4, <2>8, <2>9, <3>1 DEF Grown
    <3>7. e.cost = d.cost + RoadCost(trip, leg.km, m)
      BY <2>2, <2>9, <3>3 DEF Grown
    <3>8. /\ SnackIsWhole(d.meals)
          /\ d.cost = RoadCost(trip, d.km, d.mountainKm) + TicketsOf(trip, d.pois) + d.meals
      BY DEF DaySound, Priced
    <3>9. e.cost = RoadCost(trip, e.km, e.mountainKm) + TicketsOf(trip, e.pois) + e.meals
      BY <3>2, <3>4, <3>5, <3>6, <3>7, <3>8
    <3>. QED
      BY <3>6, <3>8, <3>9 DEF Priced
  <2>11. DaySound(trip, e) /\ Continues(d, e)
    BY <1>1, <2>2, <2>0, <2>9, <2>10, SoundlyGrown
  <2>12. e.at = b.at + b.minutes
    BY <2>9 DEF Grown
  <2>. QED
    BY <1>1, <2>0, <2>2, <2>4, <2>8, <2>11, <2>12
<1>. QED
  BY <1>3

(* A meal of the kind "meal" at its hour.                                  *)
LEMMA EatenIsSound ==
  ASSUME NEW d, DaySound(trip, d), city \in Cities, trip \in TripInput,
         NEW meal \in {"breakfast", "lunch", "dinner"}, NEW at \in Int, d.at <= at, NEW minutes \in Nat,
         NEW where \in Cities, NEW e, e = Eaten(d, meal, at, minutes, where)
  PROVE  /\ DaySound(trip, e) /\ Continues(d, e)
         /\ e.driven = d.driven /\ e.late = d.late /\ e.at = at + minutes
<1>1. d \in OpenDay(trip) /\ d.at \in Int /\ d.cost \in Nat /\ d.late \in Nat
  BY DEF DaySound, OpenDay
<1>3. /\ DaySound(trip, e) /\ Continues(d, e)
      /\ e.driven = d.driven /\ e.late = d.late /\ e.at = at + minutes
  <2>00. PICK c : c = MealCost(trip, meal, where)
    OBVIOUS
  <2>0. /\ c \in Nat /\ SnackIsWhole(c) /\ trip \in TripInput /\ where \in Points
        /\ meal \in Kinds /\ meal \notin {"visit", "snack"} /\ minutes \in Nat /\ d.at <= at /\ at \in Int
    BY <2>00, MealIsPriced DEF Points, Kinds
  <2>1. PICK b : b = NewBlock(meal, at, minutes, where, c)
    OBVIOUS
  <2>2. b \in BlockRecord /\ b.kind = meal /\ b.at = at /\ b.minutes = minutes /\ b.cost = c
    BY <1>1, <2>0, <2>1, BlockIsABlock
  <2>3. PICK w : w = With(d, b)
    OBVIOUS
  <2>4. /\ Grown(trip, d, w, b)
        /\ w.driven = d.driven /\ w.unrested = d.unrested /\ w.unfuelled = d.unfuelled /\ w.km = d.km
        /\ w.mountainKm = d.mountainKm /\ w.realKm = d.realKm /\ w.meals = d.meals
        /\ w.lunch = d.lunch /\ w.siesta = d.siesta /\ w.late = d.late
    BY <1>1, <2>2, <2>3, WithIsGrown
  <2>5. e = [w EXCEPT !.meals = w.meals + c]
    BY <2>00, <2>1, <2>3 DEF Eaten
  <2>6. w \in OpenDay(trip)
    BY <2>4 DEF Grown
  <2>7. e \in OpenDay(trip)
    <3>1. d.meals \in Nat
      BY <1>1 DEF OpenDay
    <3>2. PICK m : m = w.meals + c
      OBVIOUS
    <3>3. m \in Nat
      BY <2>0, <2>4, <3>1, <3>2
    <3>4. [w EXCEPT !.meals = m] \in OpenDay(trip)
      BY <2>6, <3>3 DEF OpenDay
    <3>. QED
      BY <2>5, <3>2, <3>4
  <2>8. /\ e.blocks = w.blocks /\ e.at = w.at /\ e.end = w.end /\ e.weather = w.weather
        /\ e.slowdown = w.slowdown /\ e.driven = w.driven /\ e.unrested = w.unrested /\ e.unfuelled = w.unfuelled
        /\ e.km = w.km /\ e.mountainKm = w.mountainKm /\ e.realKm = w.realKm /\ e.cost = w.cost
        /\ e.lunch = w.lunch /\ e.siesta = w.siesta /\ e.pois = w.pois /\ e.queue = w.queue
        /\ e.from = w.from /\ e.late = w.late
        /\ e.meals = w.meals + c
    BY <2>5, <2>6 DEF OpenDay
  <2>9. Grown(trip, d, e, b)
    BY <2>4, <2>7, <2>8 DEF Grown
  <2>10. Priced(trip, e)
    <3>1. d.km \in Nat /\ d.mountainKm \in Nat /\ d.meals \in Nat /\ d.pois \in Seq(Places)
      BY <1>1 DEF OpenDay
    <3>2. e.km = d.km /\ e.mountainKm = d.mountainKm /\ e.meals = d.meals + c /\ e.pois = d.pois
      BY <2>4, <2>8, <2>9 DEF Grown
    <3>3. e.cost = d.cost + c
      BY <2>2, <2>9 DEF Grown
    <3>4. /\ SnackIsWhole(d.meals)
          /\ d.cost = RoadCost(trip, d.km, d.mountainKm) + TicketsOf(trip, d.pois) + d.meals
      BY DEF DaySound, Priced
    <3>5. SnackIsWhole(d.meals + c)
      BY <2>0, <3>1, <3>4, SnacksAddUp
    <3>6. RoadCost(trip, d.km, d.mountainKm) \in Nat
      BY <2>0, <3>1, RoadsAddUp
    <3>7. TicketsOf(trip, d.pois) \in Nat
      BY <2>0, <3>1, TicketsAreNatural
    <3>8. e.cost = RoadCost(trip, e.km, e.mountainKm) + TicketsOf(trip, e.pois) + e.meals
      BY <2>0, <3>1, <3>2, <3>3, <3>4, <3>6, <3>7
    <3>. QED
      BY <3>2, <3>5, <3>8 DEF Priced
  <2>11. DaySound(trip, e) /\ Continues(d, e)
    BY <1>1, <2>2, <2>0, <2>9, <2>10, SoundlyGrown
  <2>12. e.at = b.at + b.minutes
    BY <2>9 DEF Grown
  <2>. QED
    BY <1>1, <2>0, <2>2, <2>4, <2>8, <2>11, <2>12
<1>. QED
  BY <1>3

LEMMA WaitedIsSound ==
  ASSUME NEW d, DaySound(trip, d), NEW e, e \in OpenDay(trip), e.late >= d.late,
         e.blocks = d.blocks, e.at = d.at, e.cost = d.cost, e.end = d.end, e.weather = d.weather,
         e.slowdown = d.slowdown, e.from = d.from, e.pois = d.pois, e.queue = d.queue, e.km = d.km,
         e.mountainKm = d.mountainKm, e.meals = d.meals
  PROVE  DaySound(trip, e) /\ Continues(d, e)
<1>1. Timed(e) /\ SeenOnly(e) /\ Priced(trip, e)
  BY DEF DaySound, Timed, SeenOnly, Priced
<1>2. ASSUME LeftOnTime(d) PROVE LeftOnTime(e)
  <2>. SUFFICES ASSUME NEW k \in DOMAIN d.blocks, d.blocks[k].kind = "visit",
                       d.blocks[k].place = Last(d.pois)
                PROVE  Ends(d.blocks[k]) <= d.end + e.late
    BY DEF LeftOnTime
  <2>1. Ends(d.blocks[k]) <= d.end + d.late
    BY <1>2 DEF LeftOnTime
  <2>2. d.blocks \in Seq(BlockRecord) /\ d.end \in Int /\ d.late \in Nat /\ e.late \in Nat
    BY DEF DaySound, OpenDay
  <2>3. d.blocks[k] \in BlockRecord
    BY <2>2
  <2>4. Ends(d.blocks[k]) \in Int
    BY <2>3 DEF BlockRecord, Ends
  <2>. QED
    BY <2>1, <2>2, <2>4
<1>. QED
  BY <1>1, <1>2 DEF DaySound, Continues

LEMMA LunchedIsSound ==
  ASSUME NEW d, DaySound(trip, d), city \in Cities, trip \in TripInput, NEW e, e = Lunched(d)
  PROVE  /\ DaySound(trip, e) /\ Continues(d, e) /\ e.driven = d.driven
         /\ e.late >= d.late /\ e.at - d.at = e.late - d.late
<1>1. d \in OpenDay(trip) /\ d.at \in Int /\ d.late \in Nat
  BY DEF DaySound, OpenDay
<1>2. CASE ~ (~d.lunch /\ d.at \in Noon .. LunchEnds)
  <2>1. e = d
    BY <1>2 DEF Lunched
  <2>. QED
    BY <1>1, <2>1, ContinuesSelf
<1>3. CASE ~d.lunch /\ d.at \in Noon .. LunchEnds
  <2>1. PICK m : m = Minute * (IF trip.style = "budget" THEN 60 ELSE 75)
    OBVIOUS
  <2>2. m \in Nat
    BY <2>1, MinuteHasTicks
  <2>3. PICK w : w = Eaten(d, "lunch", d.at, m, city)
    OBVIOUS
  <2>4. d.at <= d.at /\ "lunch" \in {"breakfast", "lunch", "dinner"}
    BY <1>1
  <2>5. DaySound(trip, w) /\ Continues(d, w) /\ w.driven = d.driven /\ w.late = d.late /\ w.at = d.at + m
    BY <1>1, <2>2, <2>3, <2>4, EatenIsSound
  <2>6. PICK l : l = d.late + m
    OBVIOUS
  <2>7. l \in Nat /\ l >= d.late /\ w \in OpenDay(trip)
    BY <1>1, <2>2, <2>5, <2>6 DEF DaySound
  <2>8. e = [w EXCEPT !.lunch = TRUE, !.late = l]
    <3>1. e = [w EXCEPT !.lunch = TRUE, !.late = @ + m]
      BY <1>3, <2>1, <2>3 DEF Lunched
    <3>2. w.late + m = l
      BY <2>5, <2>6
    <3>. QED
      BY <2>7, <3>1, <3>2 DEF OpenDay
  <2>9. e \in OpenDay(trip)
    <3>1. TRUE \in BOOLEAN
      OBVIOUS
    <3>. QED
      BY <2>7, <2>8, <3>1 DEF OpenDay
  <2>10. /\ e.blocks = w.blocks /\ e.at = w.at /\ e.cost = w.cost /\ e.end = w.end /\ e.weather = w.weather
         /\ e.slowdown = w.slowdown /\ e.from = w.from /\ e.pois = w.pois /\ e.queue = w.queue
         /\ e.km = w.km /\ e.mountainKm = w.mountainKm /\ e.meals = w.meals /\ e.driven = w.driven
         /\ e.late = l
    BY <2>7, <2>8 DEF OpenDay
  <2>11. DaySound(trip, e) /\ Continues(w, e)
    BY <2>5, <2>7, <2>9, <2>10, WaitedIsSound
  <2>12. Continues(d, e)
    BY <2>5, <2>11, ContinuesOn
  <2>. QED
    BY <1>1, <2>2, <2>5, <2>6, <2>7, <2>10, <2>11, <2>12
<1>. QED
  BY <1>2, <1>3

LEMMA CooledIsSound ==
  ASSUME NEW d, DaySound(trip, d), city \in Cities, NEW e, e = Cooled(d)
  PROVE  /\ DaySound(trip, e) /\ Continues(d, e)
         /\ e.driven = d.driven /\ e.late >= d.late /\ e.at - d.at = e.late - d.late
<1>1. d \in OpenDay(trip) /\ d.at \in Int /\ d.cost \in Nat /\ d.late \in Nat
  BY DEF DaySound, OpenDay
<1>2. CASE ~ (~d.siesta /\ d.at >= 780 * Minute)
  <2>1. e = d
    BY <1>2 DEF Cooled
  <2>. QED
    BY <1>1, <1>2, <2>1, ContinuesSelf
<1>3. CASE ~d.siesta /\ d.at >= 780 * Minute
  <2>0. 0 \in Nat /\ city \in Points /\ Siesta \in Nat /\ "rest" \in Kinds
    BY MinuteHasTicks DEF Points, Siesta, Kinds
  <2>1. PICK b : b = NewBlock("rest", d.at, Siesta, city, 0)
    OBVIOUS
  <2>2. b \in BlockRecord /\ b.kind = "rest" /\ b.at = d.at /\ b.minutes = Siesta /\ b.cost = 0
    BY <1>1, <2>0, <2>1, BlockIsABlock
  <2>3. PICK w : w = With(d, b)
    OBVIOUS
  <2>4. /\ Grown(trip, d, w, b)
        /\ w.driven = d.driven /\ w.unrested = d.unrested /\ w.unfuelled = d.unfuelled /\ w.km = d.km
        /\ w.mountainKm = d.mountainKm /\ w.realKm = d.realKm /\ w.meals = d.meals
        /\ w.lunch = d.lunch /\ w.siesta = d.siesta /\ w.late = d.late
    BY <1>1, <2>2, <2>3, WithIsGrown
  <2>5. e = [w EXCEPT !.siesta = TRUE, !.late = w.late + Siesta]
    BY <1>3, <2>1, <2>3 DEF Cooled
  <2>6. w \in OpenDay(trip)
    BY <2>4 DEF Grown
  <2>7. e \in OpenDay(trip)
    <3>1. TRUE \in BOOLEAN /\ w.late + Siesta \in Nat
      BY <1>1, <2>0, <2>4
    <3>2. PICK l : l = w.late + Siesta
      OBVIOUS
    <3>. QED
      BY <2>5, <2>6, <3>1, <3>2 DEF OpenDay
  <2>8. /\ e.blocks = w.blocks /\ e.at = w.at /\ e.end = w.end /\ e.weather = w.weather
        /\ e.slowdown = w.slowdown /\ e.driven = w.driven /\ e.unrested = w.unrested /\ e.unfuelled = w.unfuelled
        /\ e.km = w.km /\ e.mountainKm = w.mountainKm /\ e.realKm = w.realKm /\ e.cost = w.cost
        /\ e.meals = w.meals /\ e.lunch = w.lunch /\ e.pois = w.pois /\ e.queue = w.queue
        /\ e.from = w.from
        /\ e.siesta = TRUE
        /\ e.late = w.late + Siesta
    BY <2>5, <2>6 DEF OpenDay
  <2>9. Grown(trip, d, e, b)
    <3>1. e.late >= d.late
      BY <1>1, <2>0, <2>4, <2>8
    <3>. QED
      BY <2>4, <2>7, <2>8, <3>1 DEF Grown
  <2>10. Priced(trip, e)
    <3>1. e.cost = d.cost
      BY <1>1, <2>2, <2>9 DEF Grown
    <3>. QED
      BY <1>1, <2>4, <2>8, <2>9, <3>1, PricedAsBefore DEF DaySound, Grown
  <2>11. DaySound(trip, e) /\ Continues(d, e)
    BY <1>1, <2>2, <2>0, <2>9, <2>10, SoundlyGrown
  <2>12. e.at = b.at + b.minutes
    BY <2>9 DEF Grown
  <2>. QED
    BY <1>3, <1>1, <2>0, <2>2, <2>4, <2>8, <2>11, <2>12
<1>. QED
  BY <1>2, <1>3

LEMMA VisitIsNatural ==
  ASSUME trip \in TripInput, NEW p \in Places
  PROVE  VisitMinutes(p, trip.group) \in Nat
<1>1. Poi[p].visit \in Nat
  BY CatalogueAssumption DEF PoiRecord
<1>2. VisitTimeFactor(trip.group) \in Nat
  BY DEF VisitTimeFactor
<1>3. Poi[p].visit * VisitTimeFactor(trip.group) \in Nat
  BY <1>1, <1>2, ProductIsNatural
<1>4. Poi[p].visit * VisitTimeFactor(trip.group) + 50 \in Nat
  BY <1>3
<1>5. PICK q : q = (Poi[p].visit * VisitTimeFactor(trip.group) + 50) \div 100
  OBVIOUS
<1>6. q \in Nat /\ Minute \in Nat
  BY <1>4, <1>5, QuotientIsNatural, MinuteHasTicks
<1>. QED
  BY <1>5, <1>6, ProductIsNatural DEF VisitMinutes

(* A place is seen: the day is sound, and it is left in time when there is *)
(* the time for it.                                                        *)
LEMMA VisitedIsSound ==
  ASSUME NEW d, DaySound(trip, d), trip \in TripInput, NEW p \in Places, d.queue # <<>>,
         NEW e, e = AfterVisit(d, p)
  PROVE  /\ DaySound(trip, e) /\ e.driven = d.driven /\ e.late = d.late
         /\ e.at = d.at + VisitMinutes(p, trip.group)
         /\ e.end = d.end /\ e.weather = d.weather /\ e.slowdown = d.slowdown /\ e.from = d.from
         /\ e.pois = Append(d.pois, p) /\ e.queue = Tail(d.queue)
         /\ p \notin ToSet(d.pois) /\ e.at <= d.end + d.late => LeftOnTime(e)
<1>1. /\ d \in OpenDay(trip) /\ d.at \in Int /\ d.cost \in Nat /\ d.late \in Nat /\ d.end \in Int
      /\ d.pois \in Seq(Places) /\ d.queue \in Seq(Places) /\ d.meals \in Nat /\ d.km \in Nat
      /\ d.mountainKm \in Nat
  BY DEF DaySound, OpenDay
<1>2. PICK c : c = TicketCost(trip, p)
  OBVIOUS
<1>3. PICK m : m = VisitMinutes(p, trip.group)
  OBVIOUS
<1>4. c \in Nat /\ m \in Nat /\ p \in Points /\ "visit" \in Kinds /\ 0 \in Nat
  BY <1>2, <1>3, TicketIsPriced, VisitIsNatural DEF Points, Kinds
<1>5. PICK b : b = NewBlock("visit", d.at, m, p, c)
  OBVIOUS
<1>6. b \in BlockRecord /\ b.kind = "visit" /\ b.at = d.at /\ b.minutes = m /\ b.place = p /\ b.cost = c
  <2>1. PICK x : x = d.at
    OBVIOUS
  <2>2. x \in Int /\ m \in Nat /\ p \in Points /\ "visit" \in Kinds /\ c \in Nat
    BY <1>1, <1>4, <2>1
  <2>3. b = NewBlock("visit", x, m, p, c)
    BY <1>5, <2>1
  <2>4. b \in BlockRecord /\ b.kind = "visit" /\ b.at = x /\ b.minutes = m /\ b.place = p /\ b.cost = c
    BY <2>2, <2>3, BlockIsABlock
  <2>. QED
    BY <2>1, <2>4
<1>7. PICK w : w = With(d, b)
  OBVIOUS
<1>8. /\ Grown(trip, d, w, b) /\ w.driven = d.driven /\ w.km = d.km /\ w.mountainKm = d.mountainKm
      /\ w.meals = d.meals /\ w.late = d.late
  BY <1>1, <1>6, <1>7, WithIsGrown
<1>9. w \in OpenDay(trip) /\ w.pois = d.pois /\ w.queue = d.queue
  BY <1>8 DEF Grown
<1>10. PICK q : q = Append(d.pois, p)
  OBVIOUS
<1>11. PICK r : r = Tail(d.queue)
  OBVIOUS
<1>12. q \in Seq(Places) /\ r \in Seq(Places)
  BY <1>1, <1>10, <1>11
<1>13. e = [w EXCEPT !.unrested = 0, !.pois = q, !.queue = r]
  <2>1. e = [w EXCEPT !.unrested = 0, !.pois = Append(@, p), !.queue = Tail(@)]
    BY <1>2, <1>3, <1>5, <1>7 DEF AfterVisit
  <2>. QED
    BY <1>9, <1>10, <1>11, <2>1 DEF OpenDay
<1>14. e \in OpenDay(trip)
  <2>1. w \in OpenDay(trip)
    BY <1>9
  <2>2. [w EXCEPT !.unrested = 0, !.pois = q, !.queue = r] \in OpenDay(trip)
    BY <1>12, <2>1 DEF OpenDay
  <2>. QED
    BY <1>13, <2>2
<1>15. /\ e.blocks = w.blocks /\ e.at = w.at /\ e.cost = w.cost /\ e.end = w.end /\ e.weather = w.weather
       /\ e.slowdown = w.slowdown /\ e.from = w.from /\ e.pois = q /\ e.queue = r
       /\ e.km = w.km /\ e.mountainKm = w.mountainKm /\ e.meals = w.meals /\ e.driven = w.driven
       /\ e.late = w.late
  BY <1>9, <1>13 DEF OpenDay
<1>16. /\ w.at = d.at + m /\ w.cost = d.cost + c /\ w.end = d.end /\ w.weather = d.weather
       /\ w.slowdown = d.slowdown /\ w.from = d.from
  BY <1>6, <1>8 DEF Grown
<1>17. Timed(w)
  <2>1. d.at <= b.at /\ b.kind # "snack"
    BY <1>1, <1>6
  <2>. QED
    BY <1>1, <1>6, <1>8, <2>1, GrownIsTimed DEF DaySound
<1>18. Timed(e)
  BY <1>15, <1>17 DEF Timed
<1>19. PICK n : n = Len(d.blocks)
  OBVIOUS
<1>20. /\ n \in Nat /\ DOMAIN d.blocks = 1 .. n /\ DOMAIN w.blocks = 1 .. n + 1
       /\ w.blocks[n + 1] = b
       /\ \A k \in 1 .. n : w.blocks[k] = d.blocks[k] /\ d.blocks[k] \in BlockRecord
  BY <1>1, <1>6, <1>8, <1>19, GrownBlocks
<1>21. ToSet(q) = ToSet(d.pois) \cup {p}
  BY <1>1, <1>10, AppendedSet
<1>22. ASSUME NEW k \in DOMAIN e.blocks, e.blocks[k].kind = "visit"
       PROVE  k = n + 1 \/ e.blocks[k].place \in ToSet(d.pois)
  <2>1. CASE k = n + 1
    BY <2>1
  <2>2. CASE k # n + 1
    <3>1. k \in 1 .. n
      BY <1>15, <1>20, <2>2
    <3>. QED
      BY <1>15, <1>20, <1>22, <3>1 DEF DaySound, SeenOnly
  <2>. QED
    BY <2>1, <2>2
<1>23. e.blocks[n + 1] = b
  BY <1>15, <1>20
<1>24. SeenOnly(e)
  BY <1>6, <1>15, <1>21, <1>22, <1>23 DEF SeenOnly
<1>25. Priced(trip, e)
  <2>1. /\ SnackIsWhole(d.meals)
        /\ d.cost = RoadCost(trip, d.km, d.mountainKm) + TicketsOf(trip, d.pois) + d.meals
    BY DEF DaySound, Priced
  <2>2. RoadCost(trip, d.km, d.mountainKm) \in Nat
    BY <1>1, <1>4, RoadsAddUp
  <2>3. TicketsOf(trip, q) = TicketsOf(trip, d.pois) + c /\ TicketsOf(trip, d.pois) \in Nat
    BY <1>1, <1>2, <1>10, TicketsGrow
  <2>4. e.cost = d.cost + c /\ e.km = d.km /\ e.mountainKm = d.mountainKm /\ e.meals = d.meals
    BY <1>8, <1>15, <1>16
  <2>5. e.cost = RoadCost(trip, e.km, e.mountainKm) + TicketsOf(trip, e.pois) + e.meals
    BY <1>1, <1>4, <1>15, <2>1, <2>2, <2>3, <2>4
  <2>. QED
    BY <2>1, <2>4, <2>5 DEF Priced
<1>26. ASSUME p \notin ToSet(d.pois), e.at <= d.end + d.late PROVE LeftOnTime(e)
  <2>1. Last(e.pois) = p
    BY <1>1, <1>10, <1>15 DEF Last
  <2>. SUFFICES ASSUME NEW k \in DOMAIN e.blocks, e.blocks[k].kind = "visit", e.blocks[k].place = p
                PROVE  Ends(e.blocks[k]) <= e.end + e.late
    BY <2>1 DEF LeftOnTime
  <2>2. k = n + 1
    BY <1>22, <1>26
  <2>3. Ends(e.blocks[k]) = e.at
    BY <1>6, <1>15, <1>16, <1>23, <2>2 DEF Ends
  <2>. QED
    BY <1>8, <1>15, <1>16, <1>26, <2>3
<1>. QED
  BY <1>3, <1>8, <1>10, <1>11, <1>14, <1>15, <1>16, <1>18, <1>24, <1>25, <1>26 DEF DaySound

-----------------------------------------------------------------------------
(* The end of a day.                                                       *)

LEMMA LateLunchIsSound ==
  ASSUME NEW d, DaySound(trip, d), city \in Cities, trip \in TripInput, NEW e, e = LateLunch(d)
  PROVE  DaySound(trip, e) /\ Continues(d, e) /\ e.driven = d.driven
<1>1. d.at \in Int
  BY DEF DaySound, OpenDay
<1>2. CASE ~ (~d.lunch /\ d.at < d.end)
  <2>1. e = d
    BY <1>2 DEF LateLunch
  <2>. QED
    BY <2>1, ContinuesSelf
<1>3. CASE ~d.lunch /\ d.at < d.end
  <2>1. PICK h : h = Most(d.at, Noon)
    OBVIOUS
  <2>2. h \in Int /\ d.at <= h
    BY <1>1, <2>1, MinuteHasTicks DEF Most, Noon
  <2>3. /\ e = Eaten(d, "lunch", h, 60 * Minute, city) /\ 60 * Minute \in Nat
        /\ "lunch" \in {"breakfast", "lunch", "dinner"}
    BY <1>3, <2>1, MinuteHasTicks DEF LateLunch
  <2>. QED
    BY <2>2, <2>3, EatenIsSound
<1>. QED
  BY <1>2, <1>3

LEMMA ToBedIsSound ==
  ASSUME NEW d, DaySound(trip, d), city \in Cities, trip \in TripInput, point \in Points,
         thisDay \in OpenDay(trip), NEW stay \in Cities, NEW e, e = ToBed(d, stay)
  PROVE  /\ DaySound(trip, e) /\ Continues(d, e) /\ Leg(point, stay, city).minutes \in Nat
         /\ d.driven \in Nat /\ e.driven <= d.driven + Leg(point, stay, city).minutes
<1>1. PICK leg : leg = Leg(point, stay, city)
  OBVIOUS
<1>2. stay \in Points
  BY DEF Points
<1>3. leg \in LegRecord
  <2>1. PICK s : s = thisDay.slowdown
    OBVIOUS
  <2>2. s \in Nat /\ s >= 63
    BY <2>1 DEF OpenDay
  <2>3. leg = LegBetween(point, stay, city, s, matrix)
    BY <1>1, <2>1 DEF Leg
  <2>. QED
    BY <1>2, <2>2, <2>3, LegIsALeg
<1>4. leg.minutes \in Nat /\ d.driven \in Nat
  BY <1>3 DEF LegRecord, DaySound, OpenDay
<1>5. CASE ~ (stay # city \/ Straight[point][stay] > 5)
  <2>1. e = d
    BY <1>5 DEF ToBed
  <2>. QED
    BY <1>1, <1>4, <2>1, ContinuesSelf
<1>6. CASE stay # city \/ Straight[point][stay] > 5
  <2>1. e = Driven(d, leg, stay)
    BY <1>1, <1>6 DEF ToBed
  <2>2. DaySound(trip, e) /\ Continues(d, e) /\ e.driven = d.driven + leg.minutes
    BY <1>2, <1>3, <2>1, DrivenIsSound
  <2>. QED
    BY <1>1, <1>4, <2>2
<1>. QED
  BY <1>5, <1>6

\* What the night costs.
Bed(stay) == IF LastDay \/ stay = trip.origin THEN 0 ELSE NightCost(trip, stay)
\* The day d after the night, its snacks apart.
OverNight(d, e, stay) ==
    /\ e \in OpenDay(trip) /\ Timed(e) /\ Continues(d, e) /\ e.driven = d.driven /\ SnackIsWhole(e.meals)
    /\ e.cost = RoadCost(trip, e.km, e.mountainKm) + TicketsOf(trip, e.pois) + e.meals + Bed(stay)

LEMMA LodgedIsSound ==
  ASSUME NEW d, DaySound(trip, d), NEW stay \in Cities, Bed(stay) \in Nat,
         NEW e, e = With(d, NewBlock("lodging", Most(d.at, 1260 * Minute), 0, stay, Bed(stay)))
  PROVE  OverNight(d, e, stay)
<1>1. d \in OpenDay(trip) /\ d.at \in Int
  BY DEF DaySound, OpenDay
<1>2. PICK h : h = Most(d.at, 1260 * Minute)
  OBVIOUS
<1>3. h \in Int /\ d.at <= h
  BY <1>1, <1>2, MinuteHasTicks DEF Most
<1>4. PICK c : c = Bed(stay)
  OBVIOUS
<1>5. PICK b : b = NewBlock("lodging", h, 0, stay, c)
  OBVIOUS
<1>6. b \in BlockRecord /\ b.kind = "lodging" /\ b.at = h /\ b.cost = c
  <2>1. "lodging" \in Kinds /\ 0 \in Nat /\ stay \in Points /\ c \in Nat
    BY <1>4 DEF Kinds, Points
  <2>. QED
    BY <1>3, <1>5, <2>1, BlockIsABlock
<1>7. e = With(d, b)
  BY <1>2, <1>4, <1>5
<1>8. /\ Grown(trip, d, e, b) /\ e.driven = d.driven /\ e.km = d.km /\ e.mountainKm = d.mountainKm
      /\ e.meals = d.meals
  BY <1>1, <1>6, <1>7, WithIsGrown
<1>9. Timed(e)
  BY <1>1, <1>3, <1>6, <1>8, GrownIsTimed DEF DaySound
<1>10. Continues(d, e)
  BY <1>1, <1>6, <1>8, GrownContinues
<1>11. e.cost = d.cost + c /\ e.pois = d.pois /\ e \in OpenDay(trip)
  BY <1>6, <1>8 DEF Grown
<1>12. /\ SnackIsWhole(d.meals)
       /\ d.cost = RoadCost(trip, d.km, d.mountainKm) + TicketsOf(trip, d.pois) + d.meals
  BY DEF DaySound, Priced
<1>. QED
  BY <1>4, <1>8, <1>9, <1>10, <1>11, <1>12 DEF OverNight

LEMMA SleptIsSound ==
  ASSUME NEW d, DaySound(trip, d), trip \in TripInput, city \in Cities, NEW stay \in Cities,
         NEW e, e = Slept(d, stay)
  PROVE  OverNight(d, e, stay)
<1>1. NightCost(trip, stay) \in Nat
  BY NightIsPriced
<1>2. CASE LastDay
  <2>1. e = d /\ Bed(stay) = 0
    BY <1>2 DEF Slept, Bed
  <2>2. /\ d \in OpenDay(trip) /\ Timed(d) /\ SnackIsWhole(d.meals) /\ d.cost \in Nat
        /\ d.cost = RoadCost(trip, d.km, d.mountainKm) + TicketsOf(trip, d.pois) + d.meals
    BY DEF DaySound, Priced, OpenDay
  <2>3. d.cost = d.cost + 0
    BY <2>2
  <2>. QED
    BY <2>1, <2>2, <2>3, ContinuesSelf DEF OverNight
<1>3. CASE ~LastDay /\ stay = trip.origin
  <2>1. Bed(stay) = 0
    BY <1>3 DEF Bed
  <2>2. e = With(d, NewBlock("lodging", Most(d.at, 1260 * Minute), 0, stay, Bed(stay)))
    BY <1>3, <2>1 DEF Slept
  <2>3. Bed(stay) \in Nat
    BY <2>1
  <2>. QED
    BY <2>2, <2>3, LodgedIsSound
<1>4. CASE ~LastDay /\ stay # trip.origin
  <2>1. Bed(stay) = NightCost(trip, stay)
    BY <1>4 DEF Bed
  <2>2. PICK h : h = Most(d.at, 1140 * Minute)
    OBVIOUS
  <2>3. d.at \in Int /\ h \in Int /\ d.at <= h
    <3>1. d.at \in Int
      BY DEF DaySound, OpenDay
    <3>. QED
      BY <2>2, <3>1, MinuteHasTicks DEF Most
  <2>4. PICK fed : fed = Eaten(d, "dinner", h, 75 * Minute, stay)
    OBVIOUS
  <2>5. 75 * Minute \in Nat /\ "dinner" \in {"breakfast", "lunch", "dinner"}
    BY MinuteHasTicks
  <2>6. DaySound(trip, fed) /\ Continues(d, fed) /\ fed.driven = d.driven
    BY <2>3, <2>4, <2>5, EatenIsSound
  <2>7. e = With(fed, NewBlock("lodging", Most(fed.at, 1260 * Minute), 0, stay, Bed(stay)))
    BY <1>4, <2>1, <2>2, <2>4 DEF Slept
  <2>8. Bed(stay) \in Nat
    BY <1>1, <2>1
  <2>9. OverNight(fed, e, stay)
    BY <2>6, <2>7, <2>8, LodgedIsSound
  <2>10. Continues(d, e)
    BY <2>6, <2>9, ContinuesOn DEF OverNight
  <2>. QED
    BY <2>6, <2>9, <2>10 DEF OverNight
<1>. QED
  BY <1>2, <1>3, <1>4

\* The day d with its night and its snacks.
WholeDay(d, e, stay) ==
    /\ e \in OpenDay(trip) /\ Ordered(e.blocks) /\ Continues(d, e) /\ SnackIsWhole(e.meals)
    /\ e.cost = RoadCost(trip, e.km, e.mountainKm) + TicketsOf(trip, e.pois) + e.meals + Bed(stay) + Snacks(e.meals)

LEMMA NibbledIsSound ==
  ASSUME NEW c, NEW stay, NEW d, OverNight(c, d, stay), city \in Cities, Bed(stay) \in Nat,
         trip \in TripInput, NEW e, e = Nibbled(d)
  PROVE  WholeDay(c, e, stay) /\ e.driven = d.driven
<1>1. d \in OpenDay(trip) /\ d.meals \in Nat /\ d.end \in Int /\ d.cost \in Nat /\ SnackIsWhole(d.meals)
  BY DEF OverNight, OpenDay
<1>2. Snacks(d.meals) \in Nat
  BY <1>1, SnacksAddUp
<1>3. d.cost = RoadCost(trip, d.km, d.mountainKm) + TicketsOf(trip, d.pois) + d.meals + Bed(stay)
  BY DEF OverNight
<1>4. CASE ~ (d.meals > 0)
  <2>1. e = d /\ d.meals = 0
    BY <1>1, <1>4 DEF Nibbled
  <2>2. Snacks(d.meals) = 0
    BY <2>1, NothingToNibble
  <2>3. d.cost = d.cost + 0
    BY <1>1
  <2>. QED
    BY <1>1, <1>3, <2>1, <2>2, <2>3 DEF OverNight, WholeDay, Timed
<1>5. CASE d.meals > 0
  <2>1. PICK h : h = Least(d.end, Noon + 240 * Minute)
    OBVIOUS
  <2>2. h \in Int
    BY <1>1, <2>1, MinuteHasTicks DEF Least, Noon
  <2>3. PICK s : s = Snacks(d.meals)
    OBVIOUS
  <2>4. PICK b : b = NewBlock("snack", h, 0, city, s)
    OBVIOUS
  <2>5. b \in BlockRecord /\ b.kind = "snack" /\ b.cost = s
    <3>1. "snack" \in Kinds /\ 0 \in Nat /\ city \in Points /\ s \in Nat
      BY <1>2, <2>3 DEF Kinds, Points
    <3>. QED
      BY <2>2, <2>4, <3>1, BlockIsABlock
  <2>6. e = With(d, b)
    BY <1>5, <2>1, <2>3, <2>4 DEF Nibbled
  <2>7. /\ Grown(trip, d, e, b) /\ e.driven = d.driven /\ e.km = d.km /\ e.mountainKm = d.mountainKm
        /\ e.meals = d.meals
    BY <1>1, <2>5, <2>6, WithIsGrown
  <2>8. Continues(d, e)
    BY <1>1, <2>5, <2>7, GrownContinues
  <2>9. Continues(c, e)
    BY <2>8, ContinuesOn DEF OverNight
  <2>10. PICK n : n = Len(d.blocks)
    OBVIOUS
  <2>11. /\ n \in Nat /\ DOMAIN d.blocks = 1 .. n /\ DOMAIN e.blocks = 1 .. n + 1
         /\ e.blocks[n + 1] = b
         /\ \A k \in 1 .. n : e.blocks[k] = d.blocks[k] /\ d.blocks[k] \in BlockRecord
    BY <1>1, <2>5, <2>7, <2>10, GrownBlocks
  <2>12. Ordered(e.blocks)
    <3>. SUFFICES ASSUME NEW k \in 1 .. n + 1, NEW l \in 1 .. n + 1, k < l,
                         "snack" \notin {e.blocks[k].kind, e.blocks[l].kind}
                  PROVE  Ends(e.blocks[k]) <= e.blocks[l].at
      BY <2>11 DEF Ordered
    <3>1. k # n + 1 /\ l # n + 1
      BY <2>5, <2>11
    <3>2. k \in 1 .. n /\ l \in 1 .. n
      BY <2>11, <3>1
    <3>. QED
      BY <2>11, <3>2 DEF OverNight, Timed, Ordered
  <2>13. e.cost = d.cost + s /\ e.pois = d.pois /\ e \in OpenDay(trip)
    BY <2>5, <2>7 DEF Grown
  <2>. QED
    BY <1>1, <1>3, <2>3, <2>7, <2>9, <2>12, <2>13 DEF WholeDay
<1>. QED
  BY <1>4, <1>5

LEMMA NightIsSound ==
  ASSUME DaySound(trip, thisDay), city \in Cities, trip \in TripInput, point \in Points,
         NEW stay \in Cities,
         NEW whole, whole = Nibbled(Slept(ToBed(LateLunch(thisDay), stay), stay))
  PROVE  /\ WholeDay(thisDay, whole, stay) /\ Bed(stay) \in Nat
         /\ whole.driven <= thisDay.driven + Leg(point, stay, city).minutes
<1>1. PICK a : a = LateLunch(thisDay)
  OBVIOUS
<1>2. DaySound(trip, a) /\ Continues(thisDay, a) /\ a.driven = thisDay.driven
  BY <1>1, LateLunchIsSound
<1>3. PICK b : b = ToBed(a, stay)
  OBVIOUS
<1>4. /\ DaySound(trip, b) /\ Continues(a, b)
      /\ b.driven <= a.driven + Leg(point, stay, city).minutes
  BY <1>2, <1>3, ToBedIsSound DEF DaySound
<1>5. PICK c : c = Slept(b, stay)
  OBVIOUS
<1>6. OverNight(b, c, stay)
  BY <1>4, <1>5, SleptIsSound
<1>7. Bed(stay) \in Nat
  <2>1. NightCost(trip, stay) \in Nat
    BY NightIsPriced
  <2>. QED
    BY <2>1 DEF Bed
<1>8. whole = Nibbled(c)
  BY <1>1, <1>3, <1>5
<1>9. WholeDay(b, whole, stay) /\ whole.driven = c.driven
  BY <1>6, <1>7, <1>8, NibbledIsSound
<1>10. Continues(thisDay, whole)
  <2>1. Continues(thisDay, b)
    BY <1>2, <1>4, ContinuesOn
  <2>2. Continues(b, whole)
    BY <1>9 DEF WholeDay
  <2>. QED
    BY <2>1, <2>2, ContinuesOn
<1>. QED
  BY <1>2, <1>4, <1>6, <1>7, <1>9, <1>10 DEF WholeDay, OverNight

-----------------------------------------------------------------------------
(* What is true at every turn of the planner.                              *)

FullDay(t) ==
    [blocks : Seq(BlockRecord), at : Int, end : Int, weather : SkiesOf(t), slowdown : {n \in Nat : n >= 63},
     driven : Nat, unrested : Nat, unfuelled : Nat, km : Nat, mountainKm : Nat, realKm : Nat,
     cost : Nat, meals : Nat, lunch : BOOLEAN, siesta : BOOLEAN, pois : Seq(Places),
     queue : Seq(Places), from : [start : Cities, stay : Cities], late : Nat]
Totals == [km : Nat, mountainKm : Nat, realKm : Nat, nights : Seq(Cities), visited : Seq(Places), meals : Nat]

NoneAssigned(t) == \A p \in Places : t.assigned[p] = 0
\* Where the last night was spent.
Lodged(t, past) == IF past = <<>> THEN t.origin ELSE past[Len(past)].from.stay

DayStands(t, past, i) ==
    /\ InOrder(past[i].blocks) /\ LeftInTime(past[i])
    /\ past[i].pois # <<>> /\ NoneAssigned(t) => past[i].driven <= t.driving
    /\ \A p \in ToSet(past[i].pois) : t.assigned[p] \in {0, i}
    /\ past[i].from.start = IF i = 1 THEN t.origin ELSE past[i - 1].from.stay
    /\ past[i].weather = DayWeather(t.weather, past[i].from.start, i)
DaysSound(t, past) ==
    past \in Seq(FullDay(t)) /\ Len(past) <= t.days /\ \A i \in DOMAIN past : DayStands(t, past, i)

PoisOf(past) == [i \in DOMAIN past |-> past[i].pois]
TotalsSound(t, past, sum) ==
    /\ sum \in Totals /\ SnackIsWhole(sum.meals)
    /\ sum.visited = FlattenSeq(PoisOf(past))
    /\ CostOf(past) = RoadCost(t, sum.km, sum.mountainKm) + TicketsOf(t, sum.visited)
                          + NightsOf(t, sum.nights) + sum.meals + Snacks(sum.meals)

ChoiceSound ==
    /\ trip \in TripInput
    /\ stage \in {"choosing", "morning", "day", "answer", "done"}
    /\ scored = Scored(trip, Vehicle)
    /\ route \in Paths(Chosen(trip))

SeenSoFar == totals.visited \o (IF stage = "day" THEN thisDay.pois ELSE <<>>)
RouteSound ==
    /\ remaining \in Paths(Places) /\ SeenSoFar \in Paths(Places)
    /\ ToSet(SeenSoFar) \cap ToSet(remaining) = {}
    /\ stage # "choosing" => ToSet(route) = ToSet(SeenSoFar) \cup ToSet(remaining)

\* There is time left to drive to bed from a day on which something was seen.
CapAhead ==
    thisDay.pois # <<>> /\ NoneAssigned(trip) =>
        thisDay.driven + Leg(point, StayCity, city).minutes <= Cap

DaySoFar ==
    stage = "day" =>
        /\ DaySound(trip, thisDay) /\ LeftOnTime(thisDay)
        /\ Len(days) < trip.days
        /\ thisDay.queue \in Paths(ToSet(remaining))
        /\ \A p \in ToSet(thisDay.queue) \cup ToSet(thisDay.pois) : trip.assigned[p] \in {0, DayNumber}
        /\ NoneAssigned(trip) => thisDay.queue = remaining
        /\ thisDay.from = Lodged(trip, days)
        /\ thisDay.weather = DayWeather(trip.weather, thisDay.from, DayNumber)
        /\ CapAhead

WhereSound ==
    /\ city \in Cities /\ point \in Points
    /\ stage \in {"choosing", "morning"} => city = Lodged(trip, days)
    /\ stage = "choosing" => days = <<>> /\ totals = NoTotals /\ remaining = <<>>
    /\ stage \in {"answer", "done"} => days # <<>> /\ (trip.round => Lodged(trip, days) = trip.origin)

AnswerSound ==
    stage = "done" =>
        /\ answer.bill = ComputeCost(trip, totals)
        /\ answer.advice = Advise(trip, days, answer.bill, ToSet(totals.visited), Len(remaining))
        /\ answer.packing = PackingList(trip, days)

PlanSound ==
    /\ ChoiceSound /\ RouteSound /\ DaySoFar /\ WhereSound /\ AnswerSound
    /\ DaysSound(trip, days) /\ TotalsSound(trip, days, totals)

-----------------------------------------------------------------------------
(* One place more.                                                         *)

LEMMA WayIsAWay ==
  ASSUME trip \in TripInput, NEW d \in OpenDay(trip), d = thisDay, d.queue # <<>>, city \in Cities, point \in Points
  PROVE  /\ NextWay.place = Head(d.queue) /\ Head(d.queue) \in Places
         /\ NextWay.leg \in LegRecord /\ NextWay.back.minutes \in Nat
         /\ NextWay.leg = Leg(point, Head(d.queue), city)
         /\ NextWay.back = Leg(Head(d.queue),
                IF ForcedEnd # <<>> THEN ForcedEnd[1]
                ELSE PickStayCity(Head(d.queue), SubSeq(d.queue, 2, Least(2, Len(d.queue)))),
                CityAt(Head(d.queue)))
<1>1. PICK p : p = Head(d.queue)
  OBVIOUS
<1>2. d.queue \in Seq(Places)
  BY DEF OpenDay
<1>3. p \in Places /\ p \in Points
  BY <1>1, <1>2 DEF Points
<1>4. PICK bed : bed = IF ForcedEnd # <<>> THEN ForcedEnd[1]
                       ELSE PickStayCity(p, SubSeq(d.queue, 2, Least(2, Len(d.queue))))
  OBVIOUS
<1>5. bed \in Cities /\ bed \in Points
  <2>1. trip.origin \in Cities
    BY DEF TripInput
  <2>2. ForcedEnd # <<>> => ForcedEnd[1] = trip.origin
    BY DEF ForcedEnd
  <2>3. bed \in Cities
    BY <1>4, <2>1, <2>2, StayIsACity
  <2>. QED
    BY <2>3 DEF Points
<1>6. NextWay = [place |-> p, leg |-> Leg(point, p, city), back |-> Leg(p, bed, CityAt(p))]
  BY <1>1, <1>4 DEF NextWay
<1>7. PICK s : s = thisDay.slowdown
  OBVIOUS
<1>8. s \in Nat /\ s >= 63
  BY <1>7 DEF OpenDay
<1>9. Leg(point, p, city) \in LegRecord
  <2>1. Leg(point, p, city) = LegBetween(point, p, city, s, matrix)
    BY <1>7 DEF Leg
  <2>. QED
    BY <1>3, <1>8, <2>1, LegIsALeg
<1>10. Leg(p, bed, CityAt(p)) \in LegRecord
  <2>1. Leg(p, bed, CityAt(p)) = LegBetween(p, bed, CityAt(p), s, matrix)
    BY <1>7 DEF Leg
  <2>. QED
    BY <1>3, <1>5, <1>8, <2>1, LegIsALeg
<1>11. Leg(p, bed, CityAt(p)).minutes \in Nat
  BY <1>10 DEF LegRecord
<1>. QED
  BY <1>1, <1>3, <1>4, <1>6, <1>9, <1>11

LEMMA PunctualIsSound ==
  ASSUME NEW d, DaySound(trip, d), NEW e, e = [d EXCEPT !.late = 0]
  PROVE  /\ DaySound(trip, e) /\ e.late = 0
         /\ e.at = d.at /\ e.driven = d.driven /\ e.end = d.end /\ e.weather = d.weather
         /\ e.slowdown = d.slowdown /\ e.from = d.from /\ e.pois = d.pois /\ e.queue = d.queue
<1>1. d \in OpenDay(trip) /\ 0 \in Nat
  BY DEF DaySound
<1>2. e \in OpenDay(trip)
  BY <1>1 DEF OpenDay
<1>3. /\ e.late = 0 /\ e.blocks = d.blocks /\ e.cost = d.cost /\ e.km = d.km /\ e.mountainKm = d.mountainKm
      /\ e.meals = d.meals /\ e.at = d.at /\ e.driven = d.driven /\ e.end = d.end /\ e.weather = d.weather
      /\ e.slowdown = d.slowdown /\ e.from = d.from /\ e.pois = d.pois /\ e.queue = d.queue
  BY <1>1 DEF OpenDay
<1>. QED
  BY <1>2, <1>3 DEF DaySound, Timed, SeenOnly, Priced

LEMMA DelaysAddUp ==
  ASSUME NEW ca \in Int, NEW ea \in Int, NEW fa \in Int, NEW el \in Int, NEW fl \in Int,
         ea - ca = el - 0, fa - ea = fl - el
  PROVE  fa = ca + fl
OBVIOUS

LEMMA StopsOnTheWay ==
  ASSUME NEW a \in Int, NEW l \in Nat, NEW r \in Nat, NEW u \in Nat, NEW v \in Nat, NEW k \in Nat,
         NEW e \in Int, a + l + r + u + v + k <= e
  PROVE  a + l + (r + u) + v + k <= e
OBVIOUS

LEMMA LeftEarlyEnough ==
  ASSUME NEW a \in Int, NEW l \in Nat, NEW x \in Nat, NEW v \in Nat, NEW k \in Nat, NEW end \in Int,
         NEW fl \in Nat, a + l + x + v + k <= end
  PROVE  (a + x + l) + fl + v <= end + fl
OBVIOUS

LEMMA VisitIsSound ==
  ASSUME trip \in TripInput, DaySound(trip, thisDay), thisDay.queue # <<>>, city \in Cities, point \in Points,
         NEW way, way = NextWay, Fits(way), way.place \notin ToSet(thisDay.pois),
         NEW g, g = AfterVisit(Cooled(Lunched(Driven(Fuelled(Rested([thisDay EXCEPT !.late = 0], way), way),
                                                 way.leg, way.place))), way.place)
  PROVE  /\ DaySound(trip, g) /\ LeftOnTime(g)
         /\ g.pois = Append(thisDay.pois, way.place) /\ g.queue = Tail(thisDay.queue)
         /\ g.driven = thisDay.driven + way.leg.minutes
         /\ g.from = thisDay.from /\ g.weather = thisDay.weather /\ g.slowdown = thisDay.slowdown
<1>1. thisDay \in OpenDay(trip)
  BY DEF DaySound
<1>2. way.place \in Places /\ way.leg \in LegRecord /\ way.back.minutes \in Nat
  BY <1>1, WayIsAWay
<1>3. way.leg.minutes \in Nat
  BY <1>2 DEF LegRecord
<1>4. PICK d0 : d0 = [thisDay EXCEPT !.late = 0]
  OBVIOUS
<1>5. /\ DaySound(trip, d0) /\ d0.late = 0
      /\ d0.at = thisDay.at /\ d0.driven = thisDay.driven /\ d0.end = thisDay.end
      /\ d0.weather = thisDay.weather /\ d0.slowdown = thisDay.slowdown /\ d0.from = thisDay.from
      /\ d0.pois = thisDay.pois /\ d0.queue = thisDay.queue
  BY <1>4, PunctualIsSound
<1>6. PICK a : a = Rested(d0, way)
  OBVIOUS
<1>7. /\ DaySound(trip, a) /\ Continues(d0, a) /\ a.driven = d0.driven /\ a.late = d0.late
      /\ a.at = d0.at + (IF NeedsRest(way) THEN Rest ELSE 0)
  BY <1>5, <1>6, RestedIsSound
<1>8. PICK b : b = Fuelled(a, way)
  OBVIOUS
<1>9. /\ DaySound(trip, b) /\ Continues(a, b) /\ b.driven = a.driven /\ b.late = a.late
      /\ b.at = a.at + (IF NeedsFuel(way) THEN FuelStop ELSE 0)
  BY <1>7, <1>8, FuelledIsSound
<1>10. PICK c : c = Driven(b, way.leg, way.place)
  OBVIOUS
<1>11. /\ DaySound(trip, c) /\ Continues(b, c) /\ c.driven = b.driven + way.leg.minutes /\ c.late = b.late
       /\ c.at = b.at + way.leg.minutes
  <2>1. way.place \in Points
    BY <1>2 DEF Points
  <2>. QED
    BY <1>2, <1>9, <1>10, <2>1, DrivenIsSound
<1>12. PICK e : e = Lunched(c)
  OBVIOUS
<1>13. /\ DaySound(trip, e) /\ Continues(c, e) /\ e.driven = c.driven
       /\ e.late >= c.late /\ e.at - c.at = e.late - c.late
  BY <1>11, <1>12, LunchedIsSound
<1>14. PICK f : f = Cooled(e)
  OBVIOUS
<1>15. /\ DaySound(trip, f) /\ Continues(e, f) /\ f.driven = e.driven
       /\ f.late >= e.late /\ f.at - e.at = f.late - e.late
  BY <1>13, <1>14, CooledIsSound
<1>16. Continues(d0, f)
  <2>1. Continues(d0, b)
    BY <1>7, <1>9, ContinuesOn
  <2>2. Continues(d0, c)
    BY <1>11, <2>1, ContinuesOn
  <2>3. Continues(d0, e)
    BY <1>13, <2>2, ContinuesOn
  <2>. QED
    BY <1>15, <2>3, ContinuesOn
<1>17. /\ f.end = thisDay.end /\ f.weather = thisDay.weather /\ f.slowdown = thisDay.slowdown
       /\ f.from = thisDay.from /\ f.pois = thisDay.pois /\ f.queue = thisDay.queue
  BY <1>5, <1>16 DEF Continues
<1>18. g = AfterVisit(f, way.place)
  BY <1>4, <1>6, <1>8, <1>10, <1>12, <1>14
<1>19. PICK v : v = VisitMinutes(way.place, trip.group)
  OBVIOUS
<1>20. v \in Nat
  BY <1>2, <1>19, VisitIsNatural
<1>21. /\ DaySound(trip, g) /\ g.driven = f.driven /\ g.late = f.late /\ g.at = f.at + v
       /\ g.end = f.end /\ g.weather = f.weather /\ g.slowdown = f.slowdown /\ g.from = f.from
       /\ g.pois = Append(f.pois, way.place) /\ g.queue = Tail(f.queue)
       /\ way.place \notin ToSet(f.pois) /\ g.at <= f.end + f.late => LeftOnTime(g)
  BY <1>2, <1>15, <1>17, <1>18, <1>19, VisitedIsSound
<1>22. /\ thisDay.at \in Int /\ a.at \in Int /\ b.at \in Int /\ c.at \in Int /\ e.at \in Int /\ f.at \in Int
       /\ c.late \in Nat /\ e.late \in Nat /\ f.late \in Nat /\ f.end \in Int
       /\ c.driven \in Nat
  BY <1>1, <1>7, <1>9, <1>11, <1>13, <1>15 DEF DaySound, OpenDay
<1>23. g.at <= f.end + f.late
  <2>1. PICK x : x = (IF NeedsRest(way) THEN Rest ELSE 0) + (IF NeedsFuel(way) THEN FuelStop ELSE 0)
    OBVIOUS
  <2>2. x \in Nat
    BY <2>1, MinuteHasTicks DEF Rest, FuelStop
  <2>3. thisDay.at + way.leg.minutes + x + v + way.back.minutes <= thisDay.end
    <3>1. PICK r, u : r = (IF NeedsRest(way) THEN Rest ELSE 0) /\ u = (IF NeedsFuel(way) THEN FuelStop ELSE 0)
      OBVIOUS
    <3>2. r \in Nat /\ u \in Nat /\ x = r + u
      BY <2>1, <3>1, MinuteHasTicks DEF Rest, FuelStop
    <3>3. thisDay.at + way.leg.minutes + r + u + v + way.back.minutes <= thisDay.end
      BY <1>19, <3>1 DEF Fits
    <3>4. thisDay.at \in Int /\ thisDay.end \in Int /\ way.back.minutes \in Nat
      BY <1>1, <1>2 DEF OpenDay
    <3>5. thisDay.at + way.leg.minutes + (r + u) + v + way.back.minutes <= thisDay.end
      BY <1>3, <1>20, <3>2, <3>3, <3>4, StopsOnTheWay, SMTT(30)
    <3>. QED
      BY <3>2, <3>5, Zenon
  <2>4. c.at = thisDay.at + x + way.leg.minutes
    BY <1>3, <1>5, <1>7, <1>9, <1>11, <1>22, <2>1, MinuteHasTicks DEF Rest, FuelStop
  <2>5. c.late = 0
    BY <1>5, <1>7, <1>9, <1>11
  <2>6. f.at = c.at + f.late
    <3>1. e.at - c.at = e.late - 0 /\ f.at - e.at = f.late - e.late
      BY <1>13, <1>15, <2>5
    <3>2. c.at \in Int /\ e.at \in Int /\ f.at \in Int /\ e.late \in Int /\ f.late \in Int
      BY <1>22
    <3>. QED
      BY <3>1, <3>2, DelaysAddUp
  <2>7. PICK fl : fl = f.late
    OBVIOUS
  <2>8. PICK at : at = thisDay.at
    OBVIOUS
  <2>9. PICK end : end = thisDay.end
    OBVIOUS
  <2>10. PICK l : l = way.leg.minutes
    OBVIOUS
  <2>11. PICK k : k = way.back.minutes
    OBVIOUS
  <2>12. (at + x + l) + fl + v <= end + fl
    <3>1. at \in Int /\ l \in Nat /\ k \in Nat /\ end \in Int /\ fl \in Nat
      BY <1>2, <1>3, <1>17, <1>22, <2>7, <2>8, <2>9, <2>10, <2>11
    <3>2. at + l + x + v + k <= end
      BY <2>3, <2>8, <2>9, <2>10, <2>11
    <3>. QED
      BY <1>20, <2>2, <3>1, <3>2, LeftEarlyEnough
  <2>13. g.at = (at + x + l) + fl + v /\ f.end = end
    BY <1>17, <1>21, <2>4, <2>6, <2>7, <2>8, <2>9, <2>10
  <2>. QED
    BY <2>7, <2>12, <2>13
<1>24. g.driven = thisDay.driven + way.leg.minutes
  BY <1>5, <1>7, <1>9, <1>11, <1>13, <1>15, <1>21
<1>. QED
  BY <1>17, <1>21, <1>23, <1>24

-----------------------------------------------------------------------------
(* A plan begins.                                                          *)

Fresh ==
    /\ trip \in TripInput /\ stage = "choosing" /\ scored = Scored(trip, Vehicle)
    /\ route = PinnedRoute(trip, scored) /\ remaining = <<>>
    /\ point = trip.origin /\ city = trip.origin
    /\ days = <<>> /\ totals = NoTotals

LEMMA NoRoadIsFree ==
  ASSUME trip \in TripInput
  PROVE  RoadCost(trip, 0, 0) = 0
<1>1. PICK F : F = FuelPerKm(trip)
  OBVIOUS
<1>2. PICK O : O = OtherPerKm(trip)
  OBVIOUS
<1>3. F \in Nat /\ O \in Nat
  BY <1>1, <1>2, KilometreIsPriced
<1>4. F * (100 * 0 + 15 * 0) + 100 * 0 * O = 0
  BY <1>3
<1>. QED
  BY <1>1, <1>2, <1>4 DEF RoadCost

LEMMA NothingIsSound ==
  ASSUME trip \in TripInput
  PROVE  DaysSound(trip, <<>>) /\ TotalsSound(trip, <<>>, NoTotals)
<1>1. DaysSound(trip, <<>>)
  <2>1. <<>> \in Seq(FullDay(trip)) /\ Len(<<>>) = 0 /\ DOMAIN <<>> = {}
    OBVIOUS
  <2>2. 0 <= trip.days
    BY DEF TripInput
  <2>. QED
    BY <2>1, <2>2 DEF DaysSound
<1>2. PICK sum : sum = NoTotals
  OBVIOUS
<1>3. /\ sum.km = 0 /\ sum.mountainKm = 0 /\ sum.nights = <<>> /\ sum.visited = <<>> /\ sum.meals = 0
  BY <1>2 DEF NoTotals
<1>4. sum \in Totals
  <2>1. 0 \in Nat /\ <<>> \in Seq(Cities) /\ <<>> \in Seq(Places)
    OBVIOUS
  <2>. QED
    BY <1>2, <2>1 DEF NoTotals, Totals
<1>5. PoisOf(<<>>) = <<>>
  BY DEF PoisOf
<1>6. sum.visited = FlattenSeq(PoisOf(<<>>))
  BY <1>3, <1>5, FlattenNone
<1>7. SnackIsWhole(0) /\ Snacks(0) = 0
  BY NothingToNibble
<1>8. TicketsOf(trip, <<>>) = 0 /\ NightsOf(trip, <<>>) = 0 /\ CostOf(<<>>) = 0
  <2>1. /\ [n \in DOMAIN <<>> |-> TicketCost(trip, <<>>[n])] = <<>>
        /\ [n \in DOMAIN <<>> |-> NightCost(trip, <<>>[n])] = <<>>
        /\ [n \in DOMAIN <<>> |-> <<>>[n].cost] = <<>>
    OBVIOUS
  <2>. QED
    BY <2>1, SumOfNone DEF TicketsOf, NightsOf, CostOf
<1>9. RoadCost(trip, 0, 0) = 0
  BY NoRoadIsFree
<1>10. CostOf(<<>>) = RoadCost(trip, sum.km, sum.mountainKm) + TicketsOf(trip, sum.visited)
                          + NightsOf(trip, sum.nights) + sum.meals + Snacks(sum.meals)
  BY <1>3, <1>7, <1>8, <1>9
<1>. QED
  BY <1>1, <1>2, <1>3, <1>4, <1>6, <1>7, <1>10 DEF TotalsSound

LEMMA FreshIsSound == Fresh => PlanSound
<1>. SUFFICES ASSUME Fresh PROVE PlanSound
  OBVIOUS
<1>1. ChoiceSound
  BY StartIsAPath DEF Fresh, ChoiceSound
<1>2. SeenSoFar = <<>>
  <2>1. totals.visited = <<>> /\ stage # "day"
    BY DEF Fresh, NoTotals
  <2>. QED
    BY <2>1 DEF SeenSoFar
<1>3. RouteSound
  <2>1. <<>> \in Paths(Places) /\ ToSet(<<>>) = {}
    BY NoElements DEF Paths
  <2>. QED
    BY <1>2, <2>1 DEF Fresh, RouteSound
<1>4. DaySoFar /\ AnswerSound
  BY DEF Fresh, DaySoFar, AnswerSound
<1>5. WhereSound
  <2>1. trip.origin \in Cities
    BY DEF Fresh, TripInput
  <2>. QED
    BY <2>1 DEF Fresh, WhereSound, Lodged, Points
<1>. QED
  BY <1>1, <1>3, <1>4, <1>5, NothingIsSound DEF Fresh, PlanSound

LEMMA StartIsSound ==
  ASSUME trip' \in TripInput, Start(trip')
  PROVE  PlanSound'
<1>1. Fresh'
  BY DEF Start, Fresh
<1>2. Fresh' => PlanSound'
  BY FreshIsSound, PTL
<1>. QED
  BY <1>1, <1>2

LEMMA InsertIsSound ==
  ASSUME PlanSound, Insert
  PROVE  PlanSound'
<1>1. /\ stage = "choosing" /\ stage' = stage /\ trip' = trip /\ scored' = scored /\ remaining' = remaining
      /\ point' = point /\ city' = city /\ days' = days /\ totals' = totals
      /\ Insertions # <<>> /\ route' = BestInsertion(Insertions).order
  BY DEF Insert
<1>2. route' \in Paths(Chosen(trip))
  <2>1. PICK E : E = Entries(trip, Chosen(trip))
    OBVIOUS
  <2>2. scored \in Seq(E)
    BY <2>1, ScoredAreKept DEF PlanSound, ChoiceSound, Chosen
  <2>3. \A e \in E : e.poi \in Chosen(trip)
    BY <2>1 DEF Entries, Entry
  <2>4. route \in Paths(Chosen(trip))
    BY DEF PlanSound, ChoiceSound
  <2>. QED
    BY <1>1, <2>2, <2>3, <2>4, InsertIsAPath
<1>3. ChoiceSound'
  BY <1>1, <1>2 DEF PlanSound, ChoiceSound
<1>4. RouteSound'
  BY <1>1 DEF PlanSound, RouteSound, SeenSoFar
<1>5. DaySoFar' /\ AnswerSound'
  BY <1>1 DEF DaySoFar, AnswerSound
<1>6. WhereSound'
  BY <1>1 DEF PlanSound, WhereSound
<1>7. DaysSound(trip, days)' /\ TotalsSound(trip, days, totals)'
  BY <1>1 DEF PlanSound
<1>. QED
  BY <1>3, <1>4, <1>5, <1>6, <1>7 DEF PlanSound

LEMMA StopInsertingIsSound ==
  ASSUME PlanSound, StopInserting
  PROVE  PlanSound'
<1>1. /\ stage = "choosing" /\ stage' = "morning" /\ trip' = trip /\ scored' = scored /\ remaining' = route'
      /\ point' = point /\ city' = city /\ days' = days /\ totals' = totals
      /\ route' = OptimizeOrder(trip.origin, route, EndPoint(trip))
  BY DEF StopInserting
<1>2. route' \in Paths(Chosen(trip))
  BY <1>1, OptimizedIsAPath DEF PlanSound, ChoiceSound
<1>3. ChoiceSound'
  BY <1>1, <1>2 DEF PlanSound, ChoiceSound
<1>4. RouteSound'
  <2>1. totals = NoTotals
    BY <1>1 DEF PlanSound, WhereSound
  <2>2. SeenSoFar' = <<>>
    BY <1>1, <2>1 DEF SeenSoFar, NoTotals
  <2>3. <<>> \in Paths(Places) /\ ToSet(<<>>) = {}
    BY NoElements DEF Paths
  <2>4. route' \in Paths(Places)
    BY <1>2 DEF Paths, Chosen
  <2>. QED
    BY <1>1, <2>2, <2>3, <2>4 DEF RouteSound
<1>5. DaySoFar' /\ AnswerSound'
  BY <1>1 DEF DaySoFar, AnswerSound
<1>6. WhereSound'
  BY <1>1 DEF PlanSound, WhereSound
<1>7. DaysSound(trip, days)' /\ TotalsSound(trip, days, totals)'
  BY <1>1 DEF PlanSound
<1>. QED
  BY <1>3, <1>4, <1>5, <1>6, <1>7 DEF PlanSound

LEMMA AnswerIsSound ==
  ASSUME PlanSound, Answer
  PROVE  PlanSound'
<1>1. /\ stage = "answer" /\ stage' = "done" /\ trip' = trip /\ scored' = scored /\ remaining' = remaining
      /\ point' = point /\ city' = city /\ days' = days /\ totals' = totals /\ route' = route
  BY DEF Answer
<1>2. ChoiceSound' /\ RouteSound' /\ DaySoFar' /\ WhereSound'
  BY <1>1 DEF PlanSound, ChoiceSound, RouteSound, SeenSoFar, DaySoFar, WhereSound
<1>3. AnswerSound'
  BY <1>1 DEF Answer, AnswerSound
<1>4. DaysSound(trip, days)' /\ TotalsSound(trip, days, totals)'
  BY <1>1 DEF PlanSound
<1>. QED
  BY <1>2, <1>3, <1>4 DEF PlanSound

LEMMA PlanAgainIsSound ==
  ASSUME PlanSound, PlanAgain
  PROVE  PlanSound'
<1>1. trip' = trip /\ Start(trip)
  BY DEF PlanAgain
<1>2. trip' \in TripInput /\ Start(trip')
  BY <1>1 DEF PlanSound, ChoiceSound
<1>. QED
  BY <1>2, StartIsSound

LEMMA PullLeverIsSound ==
  ASSUME PlanSound, PullLever
  PROVE  PlanSound'
<1>1. PICK cheaper \in Levers : trip' = [cheaper EXCEPT !.ratings = <<>>, !.heights = FALSE] /\ Start(trip')
  BY DEF PullLever
<1>2. PICK E : E = Entries(trip, Chosen(trip))
  OBVIOUS
<1>3. scored \in Seq(E)
  BY <1>2, ScoredAreKept DEF PlanSound, ChoiceSound, Chosen
<1>4. \A e \in E : e.poi \in Places
  BY <1>2 DEF Entries, Entry, Chosen
<1>5. trip' \in TripInput
  BY <1>1, <1>3, <1>4, PulledIsATrip DEF PlanSound, ChoiceSound
<1>. QED
  BY <1>1, <1>5, StartIsSound

-----------------------------------------------------------------------------
(* A day begins.                                                           *)

LEMMA QueueIsAPath ==
  ASSUME trip \in TripInput, NEW n \in Nat, n # 0, remaining \in Paths(Places)
  PROVE  /\ Queue(n) \in Paths(ToSet(remaining)) /\ Queue(n) \in Seq(Places)
         /\ \A p \in ToSet(Queue(n)) : trip.assigned[p] \in {0, n}
         /\ NoneAssigned(trip) => Queue(n) = remaining
<1>1. remaining \in Seq(Places) /\ IsInjective(remaining)
  BY DEF Paths
<1>2. PICK A : A = {p \in Places : trip.assigned[p] = n}
  OBVIOUS
<1>3. PICK B : B = {p \in Places : trip.assigned[p] = 0}
  OBVIOUS
<1>4. PICK a : a = Where(remaining, A)
  OBVIOUS
<1>5. PICK b : b = Where(remaining, B)
  OBVIOUS
<1>6. a \in Seq(Places) /\ ToSet(a) = ToSet(remaining) \cap A /\ IsInjective(a)
  BY <1>1, <1>4, WhereChooses
<1>7. b \in Seq(Places) /\ ToSet(b) = ToSet(remaining) \cap B /\ IsInjective(b)
  BY <1>1, <1>5, WhereChooses
<1>8. A \cap B = {}
  BY <1>2, <1>3
<1>9. Queue(n) = a \o b
  BY <1>2, <1>3, <1>4, <1>5 DEF Queue
<1>10. PICK q : q = a \o b
  OBVIOUS
<1>11. q \in Seq(Places) /\ ToSet(q) = ToSet(a) \cup ToSet(b)
  BY <1>6, <1>7, <1>10, JoinedSet
<1>12. IsInjective(q)
  <2>1. ToSet(a) \cap ToSet(b) = {}
    BY <1>6, <1>7, <1>8
  <2>. QED
    BY <1>6, <1>7, <1>10, <2>1, JoinedInjective
<1>13. ToSet(q) \subseteq ToSet(remaining)
  BY <1>6, <1>7, <1>11
<1>14. q \in Paths(ToSet(remaining))
  <2>1. \A i \in DOMAIN q : q[i] \in ToSet(q)
    BY <1>11, NothingIsEmpty
  <2>2. q \in Seq(ToSet(remaining))
    BY <1>11, <1>13, <2>1
  <2>. QED
    BY <1>12, <2>2 DEF Paths
<1>15. \A p \in ToSet(q) : trip.assigned[p] \in {0, n}
  BY <1>2, <1>3, <1>6, <1>7, <1>11
<1>16. ASSUME NoneAssigned(trip) PROVE q = remaining
  <2>1. ToSet(remaining) \subseteq Places
    BY <1>1, NothingIsEmpty
  <2>2. A = {} /\ ToSet(remaining) \subseteq B
    BY <1>2, <1>3, <1>16, <2>1 DEF NoneAssigned
  <2>3. ToSet(remaining) \cap A = {}
    BY <2>2
  <2>4. a = <<>>
    BY <1>1, <1>4, <2>3, WhereNone
  <2>5. b = remaining
    BY <1>1, <1>5, <2>2, WhereAll
  <2>. QED
    BY <1>1, <1>10, <2>4, <2>5
<1>. QED
  BY <1>9, <1>10, <1>11, <1>14, <1>15, <1>16

\* The day before breakfast.
Dawn ==
    LET sky     == DayWeather(trip.weather, city, DayNumber)
        window  == DayWindow(trip, sky)
    IN  [blocks |-> <<>>, at |-> window.start, end |-> window.end, weather |-> sky,
         slowdown |-> (GroupSlowdown(trip.group) * WeatherSpeed(sky)) \div 100,
         driven |-> 0, unrested |-> 0, unfuelled |-> 0, km |-> 0, mountainKm |-> 0,
         realKm |-> 0, cost |-> 0, meals |-> 0, lunch |-> FALSE,
         siesta |-> ~NeedsSiesta(sky), pois |-> <<>>, queue |-> Queue(DayNumber),
         from |-> city, late |-> 0]

LEMMA SlowdownIsSlow ==
  ASSUME NEW x \in {90, 95, 100}, NEW y \in {70, 80, 92, 100}
  PROVE  (x * y) \div 100 \in {n \in Nat : n >= 63}
<1>1. CASE x = 90
  <2>1. x * y \in {6300, 7200, 8280, 9000}
    BY <1>1
  <2>. QED
    BY <2>1
<1>2. CASE x = 95
  <2>1. x * y \in {6650, 7600, 8740, 9500}
    BY <1>2
  <2>. QED
    BY <2>1
<1>3. CASE x = 100
  <2>1. x * y \in {7000, 8000, 9200, 10000}
    BY <1>3
  <2>. QED
    BY <2>1
<1>. QED
  BY <1>1, <1>2, <1>3

LEMMA DawnIsSound ==
  ASSUME trip \in TripInput, city \in Cities, remaining \in Paths(Places),
         Len(days) \in Nat, Len(days) < trip.days, NEW d, d = Dawn
  PROVE  /\ DaySound(trip, d) /\ LeftOnTime(d) /\ d.pois = <<>> /\ d.queue = Queue(DayNumber)
         /\ d.from = city /\ d.weather = DayWeather(trip.weather, city, DayNumber)
<1>1. PICK w : w = DayWeather(trip.weather, city, DayNumber)
  OBVIOUS
<1>2. trip.days \in Nat /\ trip.dayStart \in Nat /\ trip.dayEnd \in Nat
  BY DEF TripInput
<1>3. DayNumber \in 1 .. trip.days /\ DayNumber \in Nat /\ DayNumber # 0
  BY <1>2 DEF DayNumber
<1>4. w \in SkiesOf(trip)
  BY <1>1, <1>3 DEF SkiesOf
<1>5. PICK window : window = DayWindow(trip, w)
  OBVIOUS
<1>6. window.start \in Int /\ window.end \in Int
  <2>1. WindowShift(w).start \in Int /\ WindowShift(w).end \in Int
    BY DEF WindowShift
  <2>2. Sunrise \in Nat /\ Sunset \in Nat
    BY CatalogueAssumption
  <2>3. Sunrise - 30 \in Int /\ trip.dayStart + WindowShift(w).start \in Int
    BY <1>2, <2>1, <2>2
  <2>4. Sunset + 60 \in Int /\ trip.dayEnd + WindowShift(w).end \in Int
    BY <1>2, <2>1, <2>2
  <2>5. Most(Sunrise - 30, trip.dayStart + WindowShift(w).start) \in Int
    BY <2>3 DEF Most
  <2>6. Least(Sunset + 60, trip.dayEnd + WindowShift(w).end) \in Int
    BY <2>4 DEF Least
  <2>. QED
    BY <1>5, <2>5, <2>6, MinuteHasTicks DEF DayWindow
<1>7. PICK s : s = (GroupSlowdown(trip.group) * WeatherSpeed(w)) \div 100
  OBVIOUS
<1>8. s \in {n \in Nat : n >= 63}
  <2>1. GroupSlowdown(trip.group) \in {90, 95, 100}
    BY DEF GroupSlowdown
  <2>2. WeatherSpeed(w) \in {70, 80, 92, 100}
    BY DEF WeatherSpeed
  <2>. QED
    BY <1>7, <2>1, <2>2, SlowdownIsSlow
<1>9. PICK q : q = Queue(DayNumber)
  OBVIOUS
<1>10. q \in Seq(Places)
  BY <1>3, <1>9, QueueIsAPath
<1>11. PICK siesta : siesta = ~NeedsSiesta(w)
  OBVIOUS
<1>12. siesta \in BOOLEAN
  BY <1>11
<1>13. d = [blocks |-> <<>>, at |-> window.start, end |-> window.end, weather |-> w, slowdown |-> s,
            driven |-> 0, unrested |-> 0, unfuelled |-> 0, km |-> 0, mountainKm |-> 0,
            realKm |-> 0, cost |-> 0, meals |-> 0, lunch |-> FALSE,
            siesta |-> siesta, pois |-> <<>>, queue |-> q, from |-> city, late |-> 0]
  BY <1>1, <1>5, <1>7, <1>9, <1>11 DEF Dawn
<1>14. d \in OpenDay(trip)
  <2>1. <<>> \in Seq(BlockRecord) /\ <<>> \in Seq(Places) /\ 0 \in Nat /\ FALSE \in BOOLEAN
    OBVIOUS
  <2>. QED
    BY <1>4, <1>6, <1>8, <1>10, <1>12, <1>13, <2>1 DEF OpenDay
<1>15. /\ d.blocks = <<>> /\ d.pois = <<>> /\ d.queue = q /\ d.from = city /\ d.weather = w
       /\ d.cost = 0 /\ d.km = 0 /\ d.mountainKm = 0 /\ d.meals = 0
  BY <1>13
<1>16. Timed(d) /\ SeenOnly(d) /\ LeftOnTime(d)
  <2>1. DOMAIN d.blocks = {}
    BY <1>15
  <2>. QED
    BY <2>1 DEF Timed, SeenOnly, LeftOnTime, Ordered
<1>17. Priced(trip, d)
  <2>1. SnackIsWhole(0)
    BY NothingToNibble
  <2>2. TicketsOf(trip, <<>>) = 0
    BY NothingCosts
  <2>3. RoadCost(trip, 0, 0) = 0
    BY NoRoadIsFree
  <2>. QED
    BY <1>15, <2>1, <2>2, <2>3 DEF Priced
<1>. QED
  BY <1>1, <1>9, <1>14, <1>15, <1>16, <1>17 DEF DaySound

LEMMA BreakfastIsSound ==
  ASSUME trip \in TripInput, city \in Cities, NEW d, DaySound(trip, d), LeftOnTime(d),
         NEW e, e = IF days = <<>> THEN d
                    ELSE IF city = trip.origin
                    THEN With(d, NewBlock("breakfast", d.at, 45 * Minute, city, 0))
                    ELSE Eaten(d, "breakfast", d.at, 45 * Minute, city)
  PROVE  DaySound(trip, e) /\ Continues(d, e)
<1>1. d \in OpenDay(trip) /\ d.at \in Int /\ d.at <= d.at /\ d.cost \in Nat
  BY DEF DaySound, OpenDay
<1>2. 45 * Minute \in Nat /\ 0 \in Nat /\ "breakfast" \in {"breakfast", "lunch", "dinner"} /\ "breakfast" \in Kinds
      /\ city \in Points
  BY MinuteHasTicks DEF Kinds, Points
<1>3. CASE days = <<>>
  BY <1>3, ContinuesSelf
<1>4. CASE days # <<>> /\ city = trip.origin
  <2>1. PICK x : x = d.at
    OBVIOUS
  <2>2. PICK b : b = NewBlock("breakfast", x, 45 * Minute, city, 0)
    OBVIOUS
  <2>3. b \in BlockRecord /\ b.kind = "breakfast" /\ b.at = x /\ b.cost = 0
    BY <1>1, <1>2, <2>1, <2>2, BlockIsABlock
  <2>4. e = With(d, b)
    BY <1>4, <2>1, <2>2
  <2>5. /\ Grown(trip, d, e, b) /\ e.km = d.km /\ e.mountainKm = d.mountainKm /\ e.meals = d.meals
    BY <1>1, <2>3, <2>4, WithIsGrown
  <2>6. e.cost = d.cost /\ e.pois = d.pois
    BY <1>1, <2>3, <2>5 DEF Grown
  <2>7. Priced(trip, e)
    BY <1>1, <2>5, <2>6, PricedAsBefore DEF DaySound
  <2>. QED
    BY <1>1, <2>1, <2>3, <2>5, <2>7, SoundlyGrown
<1>5. CASE days # <<>> /\ city # trip.origin
  <2>1. e = Eaten(d, "breakfast", d.at, 45 * Minute, city)
    BY <1>5
  <2>. QED
    BY <1>1, <1>2, <2>1, EatenIsSound
<1>. QED
  BY <1>3, <1>4, <1>5

LEMMA MorningIsSound ==
  ASSUME PlanSound, Morning
  PROVE  PlanSound'
<1>1. /\ stage = "morning" /\ stage' = "day" /\ trip' = trip /\ scored' = scored /\ remaining' = remaining
      /\ point' = point /\ city' = city /\ days' = days /\ totals' = totals /\ route' = route
      /\ Len(days) < trip.days
  BY DEF Morning
<1>2. trip \in TripInput /\ city \in Cities /\ remaining \in Paths(Places) /\ city = Lodged(trip, days)
  BY <1>1 DEF PlanSound, ChoiceSound, WhereSound, RouteSound
<1>3. Len(days) \in Nat
  BY DEF PlanSound, DaysSound
<1>4. PICK d : d = Dawn
  OBVIOUS
<1>5. /\ DaySound(trip, d) /\ LeftOnTime(d) /\ d.pois = <<>> /\ d.queue = Queue(DayNumber)
      /\ d.from = city /\ d.weather = DayWeather(trip.weather, city, DayNumber)
  BY <1>1, <1>2, <1>3, <1>4, DawnIsSound
<1>6. PICK e : e = IF days = <<>> THEN d
                   ELSE IF city = trip.origin
                   THEN With(d, NewBlock("breakfast", d.at, 45 * Minute, city, 0))
                   ELSE Eaten(d, "breakfast", d.at, 45 * Minute, city)
  OBVIOUS
<1>7. thisDay' = e
  BY <1>4, <1>6 DEF Morning, Dawn
<1>8. DaySound(trip, e) /\ Continues(d, e)
  BY <1>2, <1>5, <1>6, BreakfastIsSound
<1>9. /\ LeftOnTime(e) /\ e.pois = <<>> /\ e.queue = Queue(DayNumber)
      /\ e.from = city /\ e.weather = DayWeather(trip.weather, city, DayNumber)
  BY <1>5, <1>8 DEF Continues
<1>10. DayNumber \in Nat /\ DayNumber # 0 /\ DayNumber' = DayNumber
  BY <1>1, <1>3 DEF DayNumber
<1>11. /\ Queue(DayNumber) \in Paths(ToSet(remaining))
       /\ \A p \in ToSet(Queue(DayNumber)) : trip.assigned[p] \in {0, DayNumber}
       /\ NoneAssigned(trip) => Queue(DayNumber) = remaining
  BY <1>2, <1>10, QueueIsAPath
<1>12. DaySoFar'
  <2>1. ToSet(e.pois) = {}
    BY <1>9, NoElements
  <2>2. CapAhead'
    BY <1>7, <1>9 DEF CapAhead
  <2>. QED
    BY <1>1, <1>2, <1>7, <1>8, <1>9, <1>10, <1>11, <2>1, <2>2 DEF DaySoFar
<1>13. ChoiceSound' /\ WhereSound' /\ AnswerSound'
  BY <1>1 DEF PlanSound, ChoiceSound, WhereSound, AnswerSound
<1>14. RouteSound'
  <2>1. SeenSoFar' = SeenSoFar
    BY <1>1, <1>7, <1>9 DEF SeenSoFar
  <2>. QED
    BY <1>1, <2>1 DEF PlanSound, RouteSound
<1>15. DaysSound(trip, days)' /\ TotalsSound(trip, days, totals)'
  BY <1>1 DEF PlanSound
<1>. QED
  BY <1>12, <1>13, <1>14, <1>15 DEF PlanSound

-----------------------------------------------------------------------------
(* A place is seen.                                                        *)

LEMMA LastOfAppend ==
  ASSUME NEW B, NEW s \in Seq(B), NEW e \in B
  PROVE  Last(Append(s, e)) = e /\ Append(s, e) # <<>>
BY DEF Last

LEMMA TailOfPath ==
  ASSUME NEW S, NEW q \in Paths(S), q # <<>>
  PROVE  /\ Head(q) \in S /\ Head(q) \in ToSet(q) /\ q = <<Head(q)>> \o Tail(q)
         /\ Tail(q) \in Paths(S \ {Head(q)}) /\ Tail(q) \in Seq(S)
         /\ ToSet(q) = ToSet(Tail(q)) \cup {Head(q)} /\ Head(q) \notin ToSet(Tail(q))
<1>1. q \in Seq(S) /\ IsInjective(q)
  BY DEF Paths
<1>2. PICK n : n = Len(q)
  OBVIOUS
<1>3. n \in Nat /\ n # 0 /\ DOMAIN q = 1 .. n
  BY <1>1, <1>2
<1>4. PICK h : h = Head(q)
  OBVIOUS
<1>5. h = q[1] /\ 1 \in 1 .. n /\ h \in S
  BY <1>1, <1>2, <1>3, <1>4
<1>6. PICK t : t = Tail(q)
  OBVIOUS
<1>7. t \in Seq(S) /\ DOMAIN t = 1 .. n - 1 /\ \A i \in 1 .. n - 1 : t[i] = q[i + 1]
  BY <1>1, <1>2, <1>3, <1>6
<1>8. \A i \in 1 .. n - 1 : i + 1 \in 1 .. n /\ i + 1 # 1
  BY <1>3
<1>9. IsInjective(t)
  <2>. SUFFICES ASSUME NEW i \in 1 .. n - 1, NEW j \in 1 .. n - 1, t[i] = t[j] PROVE i = j
    BY <1>7 DEF IsInjective
  <2>1. i + 1 = j + 1
    BY <1>1, <1>3, <1>7, <1>8 DEF IsInjective
  <2>. QED
    BY <2>1
<1>10. \A i \in 1 .. n - 1 : t[i] # h
  <2>. SUFFICES ASSUME NEW i \in 1 .. n - 1, t[i] = h PROVE FALSE
    OBVIOUS
  <2>1. i + 1 = 1
    BY <1>1, <1>3, <1>5, <1>7, <1>8 DEF IsInjective
  <2>. QED
    BY <1>8, <2>1
<1>11. t \in Seq(S \ {h})
  <2>1. \A i \in 1 .. n - 1 : t[i] \in S \ {h}
    <3>1. Len(t) = n - 1
      BY <1>3, <1>7
    <3>2. \A i \in 1 .. n - 1 : t[i] \in S
      BY <1>7, <3>1
    <3>. QED
      BY <1>10, <3>2
  <2>2. n - 1 \in Nat /\ Len(t) = n - 1 /\ t = [i \in 1 .. n - 1 |-> t[i]]
    BY <1>3, <1>7
  <2>3. t \in [1 .. n - 1 -> S \ {h}]
    BY <2>1, <2>2
  <2>. QED
    BY <2>2, <2>3
<1>12. h \notin ToSet(t)
  BY <1>7, <1>10 DEF ToSet
<1>13. ToSet(q) = ToSet(t) \cup {h}
  <2>1. ASSUME NEW k \in 1 .. n PROVE q[k] \in ToSet(t) \cup {h}
    <3>1. CASE k = 1
      BY <1>5, <3>1
    <3>2. CASE k # 1
      <4>1. k - 1 \in 1 .. n - 1 /\ (k - 1) + 1 = k
        BY <1>3, <3>2
      <4>2. t[k - 1] = q[k]
        BY <1>7, <4>1
      <4>. QED
        BY <1>7, <4>1, <4>2 DEF ToSet
    <3>. QED
      BY <3>1, <3>2
  <2>2. ASSUME NEW i \in 1 .. n - 1 PROVE t[i] \in ToSet(q)
    BY <1>3, <1>7, <1>8 DEF ToSet
  <2>3. h \in ToSet(q)
    BY <1>3, <1>5 DEF ToSet
  <2>. QED
    BY <1>3, <1>7, <2>1, <2>2, <2>3 DEF ToSet
<1>14. q = <<h>> \o t
  BY <1>1, <1>3, <1>4, <1>6
<1>. QED
  BY <1>4, <1>5, <1>6, <1>7, <1>9, <1>11, <1>12, <1>13, <1>14 DEF Paths

LEMMA PartOfOne ==
  ASSUME NEW S, NEW q \in Seq(S), NEW k \in 1 .. Len(q)
  PROVE  SubSeq(q, k, k) = <<q[k]>>
<1>1. PICK s : s = SubSeq(q, k, k)
  OBVIOUS
<1>2. s \in Seq(S) /\ Len(s) = 1 /\ s[1] = q[k]
  BY <1>1
<1>3. PICK x : x = q[k]
  OBVIOUS
<1>4. s = <<x>>
  BY <1>2, <1>3
<1>. QED
  BY <1>1, <1>3, <1>4

LEMMA JoinedAppend ==
  ASSUME NEW B, NEW v \in Seq(B), NEW w \in Seq(B), NEW e \in B
  PROVE  v \o Append(w, e) = Append(v \o w, e)
OBVIOUS

LEMMA NextOfTail ==
  ASSUME NEW S, NEW q \in Seq(S), q # <<>>
  PROVE  SubSeq(Tail(q), 1, Least(1, Len(Tail(q)))) = SubSeq(q, 2, Least(2, Len(q)))
<1>1. PICK n : n = Len(q)
  OBVIOUS
<1>2. PICK t : t = Tail(q)
  OBVIOUS
<1>3. n \in Nat /\ n # 0 /\ t \in Seq(S) /\ Len(t) = n - 1 /\ \A i \in 1 .. n - 1 : t[i] = q[i + 1]
  BY <1>1, <1>2
<1>4. CASE n = 1
  <2>1. SubSeq(t, 1, 0) = <<>>
    BY <1>3
  <2>2. SubSeq(q, 2, 1) = <<>>
    OBVIOUS
  <2>. QED
    BY <1>1, <1>2, <1>3, <1>4, <2>1, <2>2 DEF Least
<1>5. CASE n # 1
  <2>1. Least(1, Len(t)) = 1
    BY <1>3, <1>5 DEF Least
  <2>2. Least(2, n) = 2
    BY <1>3, <1>5 DEF Least
  <2>3. SubSeq(t, 1, 1) = <<t[1]>>
    <3>. 1 \in 1 .. Len(t) /\ t \in Seq(S)
      BY <1>3, <1>5
    <3>. QED
      BY PartOfOne
  <2>4. SubSeq(q, 2, 2) = <<q[2]>>
    <3>. 2 \in 1 .. Len(q)
      BY <1>1, <1>3, <1>5
    <3>. QED
      BY PartOfOne
  <2>5. t[1] = q[2]
    BY <1>3, <1>5
  <2>. QED
    BY <1>1, <1>2, <2>1, <2>2, <2>3, <2>4, <2>5
<1>. QED
  BY <1>4, <1>5

LEMMA VisitNextIsSound ==
  ASSUME PlanSound, VisitNext
  PROVE  PlanSound'
<1>1. /\ stage = "day" /\ stage' = stage /\ trip' = trip /\ scored' = scored /\ matrix' = matrix
      /\ days' = days /\ totals' = totals /\ route' = route
      /\ thisDay.queue # <<>>
  BY DEF VisitNext
<1>2. PICK way : way = NextWay
  OBVIOUS
<1>3. PICK g : g = AfterVisit(Cooled(Lunched(Driven(Fuelled(Rested([thisDay EXCEPT !.late = 0], way), way),
                                                 way.leg, way.place))), way.place)
  OBVIOUS
<1>4. /\ Fits(way) /\ thisDay' = g
      /\ remaining' = Where(remaining, ToSet(remaining) \ {way.place})
      /\ point' = way.place /\ city' = CityAt(way.place)
  BY <1>2, <1>3 DEF VisitNext
<1>5. trip \in TripInput /\ city \in Cities /\ point \in Points
  BY DEF PlanSound, ChoiceSound, WhereSound
<1>6. /\ DaySound(trip, thisDay) /\ thisDay.queue \in Paths(ToSet(remaining))
      /\ \A p \in ToSet(thisDay.queue) \cup ToSet(thisDay.pois) : trip.assigned[p] \in {0, DayNumber}
      /\ NoneAssigned(trip) => thisDay.queue = remaining
      /\ Len(days) < trip.days /\ thisDay.from = Lodged(trip, days)
      /\ thisDay.weather = DayWeather(trip.weather, thisDay.from, DayNumber)
  BY <1>1 DEF PlanSound, DaySoFar
<1>7. thisDay \in OpenDay(trip) /\ thisDay.pois \in Seq(Places) /\ thisDay.queue \in Seq(Places)
      /\ thisDay.driven \in Nat
  BY <1>6 DEF DaySound, OpenDay
<1>8. /\ remaining \in Seq(Places) /\ IsInjective(remaining) /\ SeenSoFar \in Seq(Places) /\ IsInjective(SeenSoFar)
      /\ ToSet(SeenSoFar) \cap ToSet(remaining) = {} /\ ToSet(route) = ToSet(SeenSoFar) \cup ToSet(remaining)
  BY <1>1 DEF PlanSound, RouteSound, Paths
<1>9. PICK q : q = thisDay.queue
  OBVIOUS
<1>10. PICK p : p = Head(q)
  OBVIOUS
<1>11. /\ p \in ToSet(remaining) /\ p \in ToSet(q) /\ q = <<p>> \o Tail(q)
       /\ Tail(q) \in Paths(ToSet(remaining) \ {p}) /\ Tail(q) \in Seq(ToSet(remaining))
       /\ ToSet(q) = ToSet(Tail(q)) \cup {p} /\ p \notin ToSet(Tail(q))
  BY <1>1, <1>6, <1>9, <1>10, TailOfPath
<1>12. p \in Places /\ way.place = p /\ way.leg \in LegRecord /\ way.back.minutes \in Nat
       /\ way.back = Leg(p, IF ForcedEnd # <<>> THEN ForcedEnd[1]
                            ELSE PickStayCity(p, SubSeq(q, 2, Least(2, Len(q)))), CityAt(p))
  BY <1>1, <1>2, <1>5, <1>7, <1>9, <1>10, WayIsAWay
<1>13. SeenSoFar = totals.visited \o thisDay.pois /\ totals.visited \in Seq(Places)
  BY <1>1 DEF SeenSoFar, PlanSound, TotalsSound, Totals
<1>14. ToSet(SeenSoFar) = ToSet(totals.visited) \cup ToSet(thisDay.pois)
  BY <1>7, <1>13, JoinedSet
<1>15. p \notin ToSet(thisDay.pois) /\ p \notin ToSet(SeenSoFar)
  BY <1>8, <1>11, <1>14
<1>16. /\ DaySound(trip, g) /\ LeftOnTime(g)
       /\ g.pois = Append(thisDay.pois, p) /\ g.queue = Tail(q)
       /\ g.driven = thisDay.driven + way.leg.minutes
       /\ g.from = thisDay.from /\ g.weather = thisDay.weather /\ g.slowdown = thisDay.slowdown
  BY <1>1, <1>2, <1>3, <1>4, <1>5, <1>6, <1>9, <1>12, <1>15, VisitIsSound
<1>17. PICK r : r = Where(remaining, ToSet(remaining) \ {p})
  OBVIOUS
<1>18. r \in Seq(Places) /\ IsInjective(r) /\ ToSet(r) = ToSet(remaining) \ {p} /\ remaining' = r
  <2>1. r \in Seq(Places) /\ IsInjective(r) /\ ToSet(r) = ToSet(remaining) \cap (ToSet(remaining) \ {p})
    BY <1>8, <1>17, WhereChooses
  <2>. QED
    BY <1>4, <1>12, <1>17, <2>1
<1>19. SeenSoFar' = Append(SeenSoFar, p)
  <2>1. SeenSoFar' = totals.visited \o Append(thisDay.pois, p)
    BY <1>1, <1>4, <1>16 DEF SeenSoFar
  <2>2. PICK v : v = totals.visited
    OBVIOUS
  <2>3. PICK w : w = thisDay.pois
    OBVIOUS
  <2>4. v \o Append(w, p) = Append(v \o w, p)
    <3>1. v \in Seq(Places) /\ w \in Seq(Places) /\ p \in Places
      BY <1>7, <1>12, <1>13, <2>2, <2>3
    <3>2. PICK B : B = Places
      OBVIOUS
    <3>3. v \in Seq(B) /\ w \in Seq(B) /\ p \in B
      BY <3>1, <3>2
    <3>. QED
      BY <3>3, JoinedAppend
  <2>. QED
    BY <1>13, <2>1, <2>2, <2>3, <2>4
<1>20. RouteSound'
  <2>1. PICK s : s = Append(SeenSoFar, p)
    OBVIOUS
  <2>2. s \in Seq(Places) /\ ToSet(s) = ToSet(SeenSoFar) \cup {p}
    BY <1>8, <1>12, <2>1, AppendedSet
  <2>3. IsInjective(s)
    BY <1>8, <1>12, <1>15, <2>1, AppendedInjective
  <2>4. ToSet(s) \cap ToSet(r) = {} /\ ToSet(route) = ToSet(s) \cup ToSet(r)
    BY <1>8, <1>11, <1>18, <2>2
  <2>5. SeenSoFar' = s
    BY <1>19, <2>1
  <2>. QED
    BY <1>1, <1>18, <2>2, <2>3, <2>4, <2>5 DEF RouteSound, Paths
<1>21. ASSUME NoneAssigned(trip) PROVE r = Tail(q)
  <2>1. remaining = <<p>> \o Tail(q)
    BY <1>6, <1>9, <1>11, <1>21
  <2>2. PICK t : t = Tail(q)
    OBVIOUS
  <2>3. PICK S : S = ToSet(remaining) \ {p}
    OBVIOUS
  <2>4. t \in Seq(Places)
    BY <1>1, <1>7, <1>9, <2>2
  <2>5. ToSet(t) \subseteq S /\ p \notin S
    BY <1>6, <1>9, <1>11, <1>21, <2>2, <2>3
  <2>6. Where(<<p>> \o t, S) = t
    BY <1>12, <2>4, <2>5, WhereRest
  <2>. QED
    BY <1>17, <2>1, <2>2, <2>3, <2>6
<1>22. CapAhead'
  <2>0. Cap' = Cap
    BY <1>1 DEF Cap
  <2>. SUFFICES ASSUME NoneAssigned(trip)
                PROVE  thisDay'.driven + Leg(point, StayCity, city)'.minutes <= Cap
    BY <1>1, <2>0 DEF CapAhead
  <2>1. PICK bed : bed = IF ForcedEnd # <<>> THEN ForcedEnd[1]
                         ELSE PickStayCity(p, SubSeq(q, 2, Least(2, Len(q))))
    OBVIOUS
  <2>2. ForcedEnd' = ForcedEnd
    BY <1>1 DEF ForcedEnd, LastDay, DayNumber
  <2>3. Last(g.pois) = p /\ g.pois # <<>>
    BY <1>7, <1>12, <1>16, LastOfAppend
  <2>4. SubSeq(r, 1, Least(1, Len(r))) = SubSeq(q, 2, Least(2, Len(q)))
    <3>1. r = Tail(q)
      BY <1>21
    <3>2. SubSeq(Tail(q), 1, Least(1, Len(Tail(q)))) = SubSeq(q, 2, Least(2, Len(q)))
      BY <1>1, <1>7, <1>9, NextOfTail
    <3>. QED
      BY <3>1, <3>2
  <2>5. StayCity' = bed
    BY <1>4, <1>18, <2>1, <2>2, <2>3, <2>4 DEF StayCity
  <2>6. Leg(point, StayCity, city)' = way.back
    <3>1. way.back = LegBetween(p, bed, CityAt(p), thisDay.slowdown, matrix)
      BY <1>12, <2>1 DEF Leg
    <3>2. Leg(point, StayCity, city)' = LegBetween(point', StayCity', city', thisDay'.slowdown, matrix')
      BY DEF Leg
    <3>. QED
      BY <1>1, <1>4, <1>12, <1>16, <2>5, <3>1, <3>2
  <2>7. way.leg.minutes \in Nat /\ Cap \in Nat
    BY <1>5, <1>12, CapIsNatural DEF LegRecord
  <2>8. thisDay.driven + way.leg.minutes + way.back.minutes <= Cap
    BY <1>4 DEF Fits
  <2>. QED
    BY <1>4, <1>7, <1>12, <1>16, <2>6, <2>7, <2>8
<1>23. DaySoFar'
  <2>1. DayNumber' = DayNumber
    BY <1>1 DEF DayNumber
  <2>2. g.queue \in Paths(ToSet(r))
    BY <1>11, <1>16, <1>18
  <2>3. ToSet(g.pois) = ToSet(thisDay.pois) \cup {p}
    BY <1>7, <1>12, <1>16, AppendedSet
  <2>4. \A x \in ToSet(g.queue) \cup ToSet(g.pois) : trip.assigned[x] \in {0, DayNumber}
    BY <1>6, <1>9, <1>11, <1>16, <2>3
  <2>5. NoneAssigned(trip) => g.queue = r
    BY <1>16, <1>21
  <2>. QED
    BY <1>1, <1>4, <1>6, <1>16, <1>18, <1>22, <2>1, <2>2, <2>4, <2>5 DEF DaySoFar
<1>24. ChoiceSound' /\ AnswerSound'
  BY <1>1 DEF PlanSound, ChoiceSound, AnswerSound
<1>25. WhereSound'
  <2>1. CityAt(p) \in Cities
    BY <1>12, CatalogueAssumption DEF CityAt, PoiRecord
  <2>2. p \in Points
    BY <1>12 DEF Points
  <2>. QED
    BY <1>1, <1>4, <1>12, <2>1, <2>2 DEF WhereSound
<1>26. DaysSound(trip, days)' /\ TotalsSound(trip, days, totals)'
  BY <1>1 DEF PlanSound
<1>. QED
  BY <1>20, <1>23, <1>24, <1>25, <1>26 DEF PlanSound

-----------------------------------------------------------------------------
(* A day ends.                                                             *)

LEMMA BedIsInACity ==
  ASSUME trip \in TripInput, city \in Cities
  PROVE  StayCity \in Cities /\ (LastDay /\ trip.round => StayCity = trip.origin)
<1>1. trip.origin \in Cities
  BY DEF TripInput
<1>2. ForcedEnd # <<>> => ForcedEnd[1] = trip.origin
  BY DEF ForcedEnd
<1>3. LastDay /\ trip.round => ForcedEnd # <<>>
  BY DEF ForcedEnd
<1>4. CASE ForcedEnd # <<>>
  BY <1>1, <1>2, <1>4 DEF StayCity
<1>5. CASE ForcedEnd = <<>>
  <2>1. PICK next : next = SubSeq(remaining, 1, Least(1, Len(remaining)))
    OBVIOUS
  <2>2. PickStayCity(Last(thisDay.pois), next) \in Cities
    BY StayIsACity
  <2>3. PickTransferCity(point, next, Cap - thisDay.driven, city, thisDay.slowdown, matrix) \in Cities
    BY TransferIsACity
  <2>. QED
    BY <1>3, <1>5, <2>1, <2>2, <2>3 DEF StayCity
<1>. QED
  BY <1>4, <1>5

(* Math.round: nearer than half a minute, or half a minute below.          *)
LEMMA RoundedToMinutes ==
  ASSUME NEW x \in Int, NEW r, r = ToMinutes(x)
  PROVE  /\ r \in Int /\ (x >= 0 => r \in Nat)
         /\ 2 * x - Minute < 2 * (Minute * r) /\ 2 * (Minute * r) <= 2 * x + Minute
<1>1. PICK m : m = Minute
  OBVIOUS
<1>2. m \in Nat /\ m > 0
  BY <1>1, MinuteHasTicks
<1>3. PICK n, y : n = 2 * m /\ y = 2 * x + m
  OBVIOUS
<1>4. n \in Nat \ {0} /\ y \in Int
  BY <1>2, <1>3
<1>5. r = y \div n
  BY <1>1, <1>3 DEF ToMinutes
<1>6. r \in Int /\ y = (n * r) + (y % n) /\ (y % n) \in 0 .. n - 1
  BY <1>4, <1>5
<1>7. PICK p : p = m * r
  OBVIOUS
<1>8. p \in Int /\ n * r = 2 * p
  BY <1>2, <1>3, <1>6, <1>7
<1>9. 2 * x - m < 2 * p /\ 2 * p <= 2 * x + m
  <2>1. PICK z : z = y % n
    OBVIOUS
  <2>2. z \in 0 .. n - 1 /\ y = 2 * p + z
    BY <1>6, <1>8, <2>1
  <2>. QED
    BY <1>2, <1>3, <1>8, <2>2
<1>10. x >= 0 => r \in Nat
  <2>. SUFFICES ASSUME x >= 0, r < 0 PROVE FALSE
    BY <1>6
  <2>1. m * r <= m * (-1)
    BY <1>2, <1>6
  <2>2. p <= -m
    BY <1>2, <1>7, <2>1
  <2>. QED
    BY <1>2, <1>8, <1>9, <2>2
<1>. QED
  BY <1>1, <1>6, <1>7, <1>9, <1>10

(* Half a minute more is not a minute more.                                *)
LEMMA NoMinuteMore ==
  ASSUME NEW u \in Int, NEW v \in Int, 2 * (Minute * u) < 2 * (Minute * v) + 2 * Minute
  PROVE  u <= v
<1>1. PICK m : m = Minute
  OBVIOUS
<1>2. m \in Nat /\ m > 0 /\ 2 * (m * u) < 2 * (m * v) + 2 * m
  BY <1>1, MinuteHasTicks
<1>. SUFFICES ASSUME u >= v + 1 PROVE FALSE
  OBVIOUS
<1>3. m * u >= m * (v + 1)
  BY <1>2
<1>4. m * (v + 1) = m * v + m
  BY <1>2
<1>5. m * u \in Int /\ m * v \in Int
  BY <1>2
<1>. QED
  BY <1>2, <1>3, <1>4, <1>5

(* A block that begins when another has ended by the clock is printed no   *)
(* earlier than a minute before its end.                                   *)
LEMMA PrintedAMinuteApart ==
  ASSUME NEW a \in Int, NEW d \in Nat, NEW l \in Int, a + d <= l
  PROVE  ToMinutes(a) + ToMinutes(d) <= ToMinutes(l) + 1
<1>1. PICK ra, rd, rl : ra = ToMinutes(a) /\ rd = ToMinutes(d) /\ rl = ToMinutes(l)
  OBVIOUS
<1>2. /\ ra \in Int /\ rd \in Int /\ rl \in Int
      /\ 2 * (Minute * ra) <= 2 * a + Minute /\ 2 * (Minute * rd) <= 2 * d + Minute
      /\ 2 * l - Minute < 2 * (Minute * rl)
  BY <1>1, RoundedToMinutes
<1>3. PICK m, pa, pd, pl : m = Minute /\ pa = Minute * ra /\ pd = Minute * rd /\ pl = Minute * rl
  OBVIOUS
<1>4. m \in Nat /\ pa \in Int /\ pd \in Int /\ pl \in Int
  BY <1>2, <1>3, MinuteHasTicks
<1>5. 2 * (pa + pd) < 2 * (pl + m) + 2 * m
  <2>1. 2 * pa <= 2 * a + m /\ 2 * pd <= 2 * d + m /\ 2 * l - m < 2 * pl
    BY <1>2, <1>3
  <2>. QED
    BY <1>4, <2>1
<1>6. m * (ra + rd) = pa + pd /\ m * (rl + 1) = pl + m
  BY <1>2, <1>3, <1>4
<1>7. ra + rd \in Int /\ rl + 1 \in Int
  BY <1>2
<1>8. ra + rd <= rl + 1
  BY <1>3, <1>5, <1>6, <1>7, NoMinuteMore
<1>. QED
  BY <1>1, <1>8

(* What ends in time by the clock is printed to end less than a minute     *)
(* later.                                                                  *)
LEMMA PrintedInTime ==
  ASSUME NEW a \in Int, NEW d \in Nat, NEW e \in Int, a + d <= e, NEW z, z = ToMinutes(a) + ToMinutes(d)
  PROVE  Minute * (z - 1) <= e
<1>1. PICK ra, rd : ra = ToMinutes(a) /\ rd = ToMinutes(d)
  OBVIOUS
<1>2. /\ ra \in Int /\ rd \in Int
      /\ 2 * (Minute * ra) <= 2 * a + Minute /\ 2 * (Minute * rd) <= 2 * d + Minute
  BY <1>1, RoundedToMinutes
<1>3. PICK m, pa, pd : m = Minute /\ pa = Minute * ra /\ pd = Minute * rd
  OBVIOUS
<1>4. m \in Nat /\ pa \in Int /\ pd \in Int /\ 2 * pa <= 2 * a + m /\ 2 * pd <= 2 * d + m
  BY <1>2, <1>3, MinuteHasTicks
<1>5. pa + pd - m <= e
  BY <1>4
<1>6. m * (z - 1) = pa + pd - m
  <2>1. z = ra + rd /\ z \in Int
    BY <1>1, <1>2
  <2>2. m * (ra + rd) = pa + pd
    BY <1>2, <1>3, <1>4
  <2>3. m * z = pa + pd
    BY <1>2, <2>1, <2>2
  <2>. QED
    BY <1>4, <2>1, <2>3
<1>. QED
  BY <1>1, <1>3, <1>5, <1>6

(* The cap, a whole number of minutes, is kept by the minutes printed.     *)
LEMMA PrintedUnderTheCap ==
  ASSUME trip \in TripInput, NEW x \in Nat, x <= Cap
  PROVE  ToMinutes(x) <= trip.driving
<1>1. PICK r, c : r = ToMinutes(x) /\ c = trip.driving
  OBVIOUS
<1>2. r \in Int /\ 2 * (Minute * r) <= 2 * x + Minute /\ c \in Nat
  BY <1>1, RoundedToMinutes DEF TripInput
<1>3. PICK m, pr, pc : m = Minute /\ pr = Minute * r /\ pc = Minute * c
  OBVIOUS
<1>4. m \in Nat /\ m > 0 /\ pr \in Int /\ pc \in Int
  BY <1>2, <1>3, MinuteHasTicks
<1>5. x <= pc
  <2>1. c * m = m * c
    BY <1>2, <1>4
  <2>. QED
    BY <1>1, <1>3, <2>1 DEF Cap
<1>6. 2 * pr < 2 * pc + 2 * m
  <2>1. 2 * pr <= 2 * x + m
    BY <1>2, <1>3
  <2>. QED
    BY <1>4, <1>5, <2>1
<1>7. r <= c
  BY <1>2, <1>3, <1>6, NoMinuteMore
<1>. QED
  BY <1>1, <1>7

LEMMA BlockIsPrinted ==
  ASSUME NEW b \in BlockRecord, NEW c, c = PrintedBlock(b)
  PROVE  /\ c \in BlockRecord /\ c.kind = b.kind /\ c.place = b.place
         /\ c.at = ToMinutes(b.at) /\ c.minutes = ToMinutes(b.minutes)
         /\ b.at \in Int /\ b.minutes \in Nat
<1>1. b.at \in Int /\ b.minutes \in Nat
  BY DEF BlockRecord
<1>2. PICK x, y : x = ToMinutes(b.at) /\ y = ToMinutes(b.minutes)
  OBVIOUS
<1>3. x \in Int /\ y \in Nat
  BY <1>1, <1>2, RoundedToMinutes
<1>4. c = [b EXCEPT !.at = x, !.minutes = y]
  BY <1>2 DEF BlockRecord, PrintedBlock
<1>5. c \in BlockRecord /\ c.kind = b.kind /\ c.place = b.place /\ c.at = x /\ c.minutes = y
  BY <1>3, <1>4 DEF BlockRecord
<1>. QED
  BY <1>1, <1>2, <1>5

\* The day d as it is printed, with the bed it ended in.
Finished(d, f, stay) ==
    /\ f \in FullDay(trip) /\ f.from = [start |-> d.from, stay |-> stay]
    /\ DOMAIN f.blocks = DOMAIN d.blocks
    /\ \A k \in DOMAIN d.blocks :
          f.blocks[k] = PrintedBlock(d.blocks[k])
    /\ f.end = d.end /\ f.late = d.late /\ f.weather = d.weather
    /\ f.driven = ToMinutes(d.driven)
    /\ f.cost = d.cost /\ f.pois = d.pois

LEMMA FinishedIsFull ==
  ASSUME NEW d \in OpenDay(trip), NEW stay \in Cities,
         NEW f, f = [Printed(d) EXCEPT !.from = [start |-> @, stay |-> stay]]
  PROVE  Finished(d, f, stay)
<1>1. PICK from : from = [start |-> d.from, stay |-> stay]
  OBVIOUS
<1>2. from \in [start : Cities, stay : Cities]
  BY <1>1 DEF OpenDay
<1>3. PICK old : old = d.blocks
  OBVIOUS
<1>4. old \in Seq(BlockRecord) /\ d.driven \in Nat
  BY <1>3 DEF OpenDay
<1>5. PICK new : new = [k \in DOMAIN old |-> PrintedBlock(old[k])]
  OBVIOUS
<1>6. DOMAIN new = DOMAIN old /\ \A k \in DOMAIN old : new[k] \in BlockRecord
  <2>1. ASSUME NEW k \in DOMAIN old PROVE new[k] \in BlockRecord
    <3>1. old[k] \in BlockRecord
      BY <1>4
    <3>2. new[k] = PrintedBlock(old[k])
      BY <1>5
    <3>. QED
      BY <3>1, <3>2, BlockIsPrinted
  <2>. QED
    BY <1>5, <2>1
<1>7. new \in Seq(BlockRecord)
  <2>1. PICK n : n = Len(old)
    OBVIOUS
  <2>2. n \in Nat /\ DOMAIN old = 1 .. n
    BY <1>4, <2>1
  <2>3. PICK g : g = [k \in 1 .. n |-> new[k]]
    OBVIOUS
  <2>4. g \in Seq(BlockRecord)
    BY <1>6, <2>2, <2>3
  <2>5. new = [k \in DOMAIN new |-> new[k]]
    BY <1>5
  <2>. QED
    BY <1>6, <2>2, <2>3, <2>4, <2>5
<1>8. PICK r : r = ToMinutes(d.driven)
  OBVIOUS
<1>9. r \in Nat
  BY <1>4, <1>8, RoundedToMinutes
<1>10. PICK p : p = Printed(d)
  OBVIOUS
<1>11. p = [d EXCEPT !.blocks = new, !.driven = r]
  <2>1. p = [d EXCEPT !.blocks = [k \in DOMAIN d.blocks |-> PrintedBlock(d.blocks[k])],
               !.driven = ToMinutes(d.driven)]
    BY <1>10 DEF Printed, OpenDay
  <2>. QED
    BY <1>3, <1>5, <1>8, <2>1
<1>12. p.from = d.from
  BY <1>11 DEF OpenDay
<1>13. f = [p EXCEPT !.from = from]
  BY <1>1, <1>10, <1>11, <1>12 DEF OpenDay
<1>14. /\ f \in FullDay(trip) /\ f.from = from /\ f.blocks = new /\ f.driven = r
       /\ f.end = d.end /\ f.late = d.late /\ f.weather = d.weather
       /\ f.cost = d.cost /\ f.pois = d.pois
  <2>1. f = [d EXCEPT !.blocks = new, !.driven = r, !.from = from]
    BY <1>11, <1>13 DEF OpenDay
  <2>2. f \in FullDay(trip)
    BY <1>2, <1>7, <1>9, <2>1 DEF OpenDay, FullDay
  <2>. QED
    BY <2>1, <2>2 DEF OpenDay
<1>. QED
  BY <1>1, <1>3, <1>5, <1>6, <1>8, <1>14 DEF Finished

(* What is in order and in time by the clock is so as it is printed.       *)
LEMMA PrintedCanBeLived ==
  ASSUME NEW d \in OpenDay(trip), NEW stay, NEW f, Finished(d, f, stay), Ordered(d.blocks), LeftOnTime(d)
  PROVE  InOrder(f.blocks) /\ LeftInTime(f)
<1>1. ASSUME NEW k \in DOMAIN f.blocks
      PROVE  /\ k \in DOMAIN d.blocks /\ f.blocks[k].kind = d.blocks[k].kind
             /\ f.blocks[k].place = d.blocks[k].place
             /\ f.blocks[k].at = ToMinutes(d.blocks[k].at)
             /\ Ends(f.blocks[k]) = ToMinutes(d.blocks[k].at) + ToMinutes(d.blocks[k].minutes)
             /\ d.blocks[k].at \in Int /\ d.blocks[k].minutes \in Nat
  <2>1. k \in DOMAIN d.blocks
    BY DEF Finished
  <2>2. d.blocks[k] \in BlockRecord
    BY <2>1 DEF OpenDay
  <2>3. f.blocks[k] = PrintedBlock(d.blocks[k])
    BY <2>1 DEF Finished
  <2>. QED
    BY <2>1, <2>2, <2>3, BlockIsPrinted DEF Ends
<1>2. ASSUME NEW k \in DOMAIN f.blocks, NEW l \in DOMAIN f.blocks, k < l,
             "snack" \notin {f.blocks[k].kind, f.blocks[l].kind}
      PROVE  Ends(f.blocks[k]) <= f.blocks[l].at + 1
  <2>1. d.blocks[k].at + d.blocks[k].minutes <= d.blocks[l].at
    BY <1>1, <1>2 DEF Ordered, Ends
  <2>2. ToMinutes(d.blocks[k].at) + ToMinutes(d.blocks[k].minutes) <= ToMinutes(d.blocks[l].at) + 1
    BY <1>1, <2>1, PrintedAMinuteApart
  <2>. QED
    BY <1>1, <2>2
<1>3. ASSUME NEW k \in DOMAIN f.blocks, f.blocks[k].kind = "visit", f.blocks[k].place = Last(f.pois)
      PROVE  Minute * (Ends(f.blocks[k]) - 1) <= f.end + f.late
  <2>1. f.pois = d.pois /\ f.end = d.end /\ f.late = d.late
    BY DEF Finished
  <2>2. d.blocks[k].at + d.blocks[k].minutes <= d.end + d.late
    BY <1>1, <1>3, <2>1 DEF LeftOnTime, Ends
  <2>3. d.end + d.late \in Int
    BY DEF OpenDay
  <2>4. PICK z, e : z = Ends(f.blocks[k]) /\ e = d.end + d.late
    OBVIOUS
  <2>5. z = ToMinutes(d.blocks[k].at) + ToMinutes(d.blocks[k].minutes) /\ e \in Int
    BY <1>1, <2>3, <2>4
  <2>6. Minute * (z - 1) <= e
    BY <1>1, <2>2, <2>4, <2>5, PrintedInTime
  <2>. QED
    BY <2>1, <2>4, <2>6
<1>. QED
  BY <1>2, <1>3 DEF InOrder, LeftInTime

LEMMA NoneIsEmpty ==
  ASSUME NEW B, NEW s \in Seq(B), Len(s) = 0
  PROVE  s = <<>>
OBVIOUS

LEMMA AppendByHand ==
  ASSUME NEW B, NEW s \in Seq(B), NEW e \in B, NEW t \in Seq(B), Len(t) = Len(s) + 1,
         t[Len(s) + 1] = e, \A i \in 1 .. Len(s) : t[i] = s[i]
  PROVE  t = Append(s, e)
<1>1. PICK n : n = Len(s)
  OBVIOUS
<1>2. n \in Nat
  BY <1>1
<1>3. PICK u : u = Append(s, e)
  OBVIOUS
<1>4. u \in Seq(B) /\ Len(u) = n + 1 /\ u[n + 1] = e /\ \A i \in 1 .. n : u[i] = s[i]
  BY <1>1, <1>3
<1>5. \A i \in 1 .. n + 1 : i # n + 1 => i \in 1 .. n
  BY <1>2
<1>6. \A i \in 1 .. n + 1 : u[i] = t[i]
  BY <1>1, <1>4, <1>5
<1>7. u = [i \in 1 .. n + 1 |-> u[i]]
  BY <1>4
<1>8. t = [i \in 1 .. n + 1 |-> t[i]]
  BY <1>1
<1>. QED
  BY <1>3, <1>6, <1>7, <1>8

LEMMA DaysGrow ==
  ASSUME trip \in TripInput, DaysSound(trip, days), Len(days) < trip.days, NEW f \in FullDay(trip),
         InOrder(f.blocks), LeftInTime(f),
         f.pois # <<>> /\ NoneAssigned(trip) => f.driven <= trip.driving,
         \A p \in ToSet(f.pois) : trip.assigned[p] \in {0, DayNumber},
         f.from.start = Lodged(trip, days),
         f.weather = DayWeather(trip.weather, f.from.start, DayNumber),
         NEW more, more = Append(days, f)
  PROVE  /\ DaysSound(trip, more) /\ more # <<>> /\ Lodged(trip, more) = f.from.stay
         /\ PoisOf(days) \in Seq(Seq(Places)) /\ f.pois \in Seq(Places)
         /\ PoisOf(more) = Append(PoisOf(days), f.pois)
         /\ CostOf(days) \in Nat /\ CostOf(more) = CostOf(days) + f.cost
<1>1. days \in Seq(FullDay(trip)) /\ \A i \in DOMAIN days : DayStands(trip, days, i)
  BY DEF DaysSound
<1>2. PICK n : n = Len(days)
  OBVIOUS
<1>3. n \in Nat /\ DOMAIN days = 1 .. n /\ DayNumber = n + 1 /\ n + 1 \in 1 .. n + 1
  BY <1>1, <1>2 DEF DayNumber
<1>4. /\ more \in Seq(FullDay(trip)) /\ Len(more) = n + 1 /\ DOMAIN more = 1 .. n + 1
      /\ more[n + 1] = f /\ \A i \in 1 .. n : more[i] = days[i]
  BY <1>1, <1>2, <1>3
<1>5. trip.days \in Nat
  BY DEF TripInput
<1>6. \A i \in 1 .. n + 1 : i \in 1 .. n \/ i = n + 1
  BY <1>3
<1>7. \A i \in 1 .. n + 1 : i # 1 => i - 1 \in 1 .. n
  BY <1>3
<1>8. ASSUME NEW i \in 1 .. n PROVE DayStands(trip, more, i)
  <2>1. DayStands(trip, days, i) /\ more[i] = days[i]
    BY <1>1, <1>3, <1>4
  <2>2. i # 1 => more[i - 1] = days[i - 1]
    BY <1>3, <1>4
  <2>. QED
    BY <2>1, <2>2 DEF DayStands
<1>9. DayStands(trip, more, n + 1)
  <2>1. f.from.start = IF n + 1 = 1 THEN trip.origin ELSE more[(n + 1) - 1].from.stay
    <3>1. CASE n = 0
      <4>1. days = <<>>
        BY <1>1, <1>2, <3>1, NoneIsEmpty
      <4>. QED
        BY <3>1, <4>1 DEF Lodged
    <3>2. CASE n # 0
      <4>1. days # <<>> /\ n + 1 # 1 /\ (n + 1) - 1 = n /\ n \in 1 .. n
        BY <1>1, <1>2, <1>3, <3>2
      <4>2. more[n] = days[n]
        BY <1>4, <4>1
      <4>3. Lodged(trip, days) = days[n].from.stay
        BY <1>2, <4>1 DEF Lodged
      <4>. QED
        BY <4>1, <4>2, <4>3
    <3>. QED
      BY <3>1, <3>2
  <2>. QED
    BY <1>3, <1>4, <2>1 DEF DayStands
<1>10. DaysSound(trip, more)
  <2>1. Len(more) <= trip.days
    BY <1>2, <1>3, <1>4, <1>5
  <2>2. \A i \in DOMAIN more : DayStands(trip, more, i)
    BY <1>4, <1>6, <1>8, <1>9
  <2>. QED
    BY <1>4, <2>1, <2>2 DEF DaysSound
<1>11. more # <<>> /\ Lodged(trip, more) = f.from.stay
  <2>1. more # <<>>
    BY <1>3, <1>4
  <2>. QED
    BY <1>4, <2>1 DEF Lodged
<1>12. f.pois \in Seq(Places) /\ f.cost \in Nat /\ \A d \in FullDay(trip) : d.pois \in Seq(Places) /\ d.cost \in Nat
  BY DEF FullDay
<1>13. PoisOf(days) \in Seq(Seq(Places)) /\ PoisOf(more) = Append(PoisOf(days), f.pois)
  <2>1. PICK B : B = Seq(Places)
    OBVIOUS
  <2>2. PICK s : s = PoisOf(days)
    OBVIOUS
  <2>3. s = [i \in 1 .. n |-> days[i].pois]
    BY <1>3, <2>2 DEF PoisOf
  <2>4. \A i \in 1 .. n : days[i] \in FullDay(trip)
    BY <1>1, <1>3
  <2>5. \A i \in 1 .. n : days[i].pois \in B
    BY <1>12, <2>1, <2>4
  <2>6. s \in Seq(B) /\ Len(s) = n
    BY <1>3, <2>3, <2>5
  <2>7. PICK e : e = f.pois
    OBVIOUS
  <2>8. PICK t : t = PoisOf(more)
    OBVIOUS
  <2>9. t = [i \in 1 .. n + 1 |-> more[i].pois]
    BY <1>4, <2>8 DEF PoisOf
  <2>10. \A i \in 1 .. n + 1 : t[i] = IF i = n + 1 THEN e ELSE s[i]
    <3>1. ASSUME NEW i \in 1 .. n PROVE t[i] = s[i] /\ i # n + 1
      BY <1>3, <1>4, <2>3, <2>9
    <3>2. t[n + 1] = e
      BY <1>3, <1>4, <2>7, <2>9
    <3>. QED
      BY <1>6, <3>1, <3>2
  <2>11. e \in B
    BY <1>12, <2>1, <2>7
  <2>12. t = Append(s, e)
    <3>1. \A i \in 1 .. n + 1 : t[i] \in B
      BY <1>3, <1>6, <2>3, <2>5, <2>10, <2>11
    <3>2. t \in Seq(B) /\ Len(t) = n + 1
      BY <1>3, <2>9, <3>1
    <3>3. t[n + 1] = e /\ \A i \in 1 .. n : t[i] = s[i]
      <4>1. \A i \in 1 .. n : i \in 1 .. n + 1 /\ i # n + 1
        BY <1>3
      <4>. QED
        BY <1>3, <2>10, <4>1
    <3>. QED
      BY <2>6, <2>11, <3>2, <3>3, AppendByHand
  <2>. QED
    BY <2>1, <2>2, <2>6, <2>7, <2>8, <2>12
<1>14. CostOf(days) \in Nat /\ CostOf(more) = CostOf(days) + f.cost
  <2>1. PICK B : B = FullDay(trip)
    OBVIOUS
  <2>2. days \in Seq(B) /\ f \in B /\ \A b \in B : b.cost \in Nat
    BY <1>1, <1>12, <2>1
  <2>. QED
    BY <2>2, CostsGrow
<1>. QED
  BY <1>10, <1>11, <1>12, <1>13, <1>14

LEMMA NightsGoOn ==
  ASSUME trip \in TripInput, NEW s \in Seq(Cities), NEW stay \in Cities, Bed(stay) \in Nat,
         NEW r, r = IF LastDay \/ stay = trip.origin THEN s ELSE Append(s, stay)
  PROVE  /\ r \in Seq(Cities) /\ NightsOf(trip, s) \in Nat
         /\ NightsOf(trip, r) = NightsOf(trip, s) + Bed(stay)
<1>1. /\ NightsOf(trip, s) \in Nat
      /\ NightsOf(trip, Append(s, stay)) = NightsOf(trip, s) + NightCost(trip, stay)
  BY NightsGrow
<1>2. Append(s, stay) \in Seq(Cities)
  OBVIOUS
<1>3. PICK n : n = NightsOf(trip, s)
  OBVIOUS
<1>4. CASE LastDay \/ stay = trip.origin
  <2>1. r = s /\ Bed(stay) = 0
    BY <1>4 DEF Bed
  <2>2. n = n + 0
    BY <1>1, <1>3
  <2>. QED
    BY <1>1, <1>3, <2>1, <2>2
<1>5. CASE ~(LastDay \/ stay = trip.origin)
  <2>1. r = Append(s, stay) /\ Bed(stay) = NightCost(trip, stay)
    BY <1>5 DEF Bed
  <2>. QED
    BY <1>1, <1>2, <2>1
<1>. QED
  BY <1>4, <1>5

LEMMA BillsAddUp ==
  ASSUME NEW road \in Nat, NEW tickets \in Nat, NEW nights \in Nat, NEW meals \in Nat, NEW snacks \in Nat,
         NEW road2 \in Nat, NEW tickets2 \in Nat, NEW bed \in Nat, NEW meals2 \in Nat, NEW snacks2 \in Nat
  PROVE  (road + tickets + nights + meals + snacks) + (road2 + tickets2 + meals2 + bed + snacks2)
            = (road + road2) + (tickets + tickets2) + (nights + bed) + (meals + meals2) + (snacks + snacks2)
OBVIOUS

\* The totals with those of the day d added, the nights being r.
Added(d, sum, r) ==
    /\ totals.visited \in Seq(Places) /\ d.pois \in Seq(Places) /\ totals.nights \in Seq(Cities)
    /\ totals.km \in Nat /\ totals.mountainKm \in Nat /\ totals.meals \in Nat
    /\ d.km \in Nat /\ d.mountainKm \in Nat /\ d.meals \in Nat
    /\ sum \in Totals /\ sum.km = totals.km + d.km /\ sum.mountainKm = totals.mountainKm + d.mountainKm
    /\ sum.meals = totals.meals + d.meals /\ sum.nights = r /\ sum.visited = totals.visited \o d.pois

LEMMA TotalsGoOn ==
  ASSUME NEW d \in OpenDay(trip), NEW stay \in Cities, totals \in Totals,
         NEW sum, sum = TotalsWith(totals, d, stay),
         NEW r, r = IF LastDay \/ stay = trip.origin THEN totals.nights ELSE Append(totals.nights, stay)
  PROVE  Added(d, sum, r)
<1>1. /\ totals.visited \in Seq(Places) /\ d.pois \in Seq(Places) /\ totals.nights \in Seq(Cities)
      /\ totals.km \in Nat /\ totals.mountainKm \in Nat /\ totals.realKm \in Nat /\ totals.meals \in Nat
      /\ d.km \in Nat /\ d.mountainKm \in Nat /\ d.realKm \in Nat /\ d.meals \in Nat
  BY DEF Totals, OpenDay
<1>2. r \in Seq(Cities)
  BY <1>1
<1>3. PICK v : v = totals.visited \o d.pois
  OBVIOUS
<1>4. v \in Seq(Places)
  BY <1>1, <1>3
<1>5. PICK k : k = totals.km + d.km
  OBVIOUS
<1>6. PICK m : m = totals.mountainKm + d.mountainKm
  OBVIOUS
<1>7. PICK e : e = totals.meals + d.meals
  OBVIOUS
<1>8. PICK x : x = totals.realKm + d.realKm
  OBVIOUS
<1>9. k \in Nat /\ m \in Nat /\ e \in Nat /\ x \in Nat
  <2>1. \A a, b \in Nat : a + b \in Nat
    OBVIOUS
  <2>2. /\ totals.km + d.km \in Nat /\ totals.mountainKm + d.mountainKm \in Nat
        /\ totals.meals + d.meals \in Nat /\ totals.realKm + d.realKm \in Nat
    BY <1>1, <2>1, Zenon
  <2>. QED
    BY <1>5, <1>6, <1>7, <1>8, <2>2
<1>10. sum = [totals EXCEPT !.km = k, !.mountainKm = m, !.realKm = x, !.nights = r, !.visited = v, !.meals = e]
  BY <1>3, <1>5, <1>6, <1>7, <1>8 DEF TotalsWith
<1>11. sum \in Totals
  BY <1>2, <1>4, <1>9, <1>10 DEF Totals
<1>12. sum.km = k /\ sum.mountainKm = m /\ sum.meals = e /\ sum.nights = r /\ sum.visited = v
  BY <1>10 DEF Totals
<1>. QED
  BY <1>1, <1>3, <1>5, <1>6, <1>7, <1>11, <1>12 DEF Added

LEMMA TotalsGrow ==
  ASSUME trip \in TripInput, TotalsSound(trip, days, totals), NEW d \in OpenDay(trip), SnackIsWhole(d.meals),
         NEW stay \in Cities, Bed(stay) \in Nat,
         d.cost = RoadCost(trip, d.km, d.mountainKm) + TicketsOf(trip, d.pois) + d.meals + Bed(stay)
                      + Snacks(d.meals),
         NEW more, PoisOf(more) = Append(PoisOf(days), d.pois), CostOf(more) = CostOf(days) + d.cost,
         PoisOf(days) \in Seq(Seq(Places)),
         NEW sum, sum = TotalsWith(totals, d, stay)
  PROVE  TotalsSound(trip, more, sum) /\ sum.visited = totals.visited \o d.pois
<1>1. /\ totals \in Totals /\ SnackIsWhole(totals.meals) /\ totals.visited = FlattenSeq(PoisOf(days))
      /\ CostOf(days) = RoadCost(trip, totals.km, totals.mountainKm) + TicketsOf(trip, totals.visited)
                            + NightsOf(trip, totals.nights) + totals.meals + Snacks(totals.meals)
  BY DEF TotalsSound
<1>2. PICK r : r = IF LastDay \/ stay = trip.origin THEN totals.nights ELSE Append(totals.nights, stay)
  OBVIOUS
<1>3. /\ totals.visited \in Seq(Places) /\ d.pois \in Seq(Places) /\ totals.nights \in Seq(Cities)
      /\ totals.km \in Nat /\ totals.mountainKm \in Nat /\ totals.meals \in Nat
      /\ d.km \in Nat /\ d.mountainKm \in Nat /\ d.meals \in Nat
      /\ sum \in Totals /\ sum.km = totals.km + d.km /\ sum.mountainKm = totals.mountainKm + d.mountainKm
      /\ sum.meals = totals.meals + d.meals /\ sum.nights = r /\ sum.visited = totals.visited \o d.pois
  <2>1. Added(d, sum, r)
    BY <1>1, <1>2, TotalsGoOn
  <2>. QED
    BY <2>1 DEF Added
<1>4. sum.visited = FlattenSeq(PoisOf(more))
  <2>1. PICK v : v = d.pois
    OBVIOUS
  <2>2. PICK s : s = PoisOf(days)
    OBVIOUS
  <2>3. FlattenSeq(Append(s, v)) = FlattenSeq(s) \o v
    <3>1. s \in Seq(Seq(Places)) /\ v \in Seq(Places)
      BY <1>3, <2>1, <2>2
    <3>. QED
      BY <3>1, FlattenAppend
  <2>. QED
    BY <1>1, <1>3, <2>1, <2>2, <2>3
<1>5. /\ RoadCost(trip, totals.km, totals.mountainKm) \in Nat /\ RoadCost(trip, d.km, d.mountainKm) \in Nat
      /\ RoadCost(trip, sum.km, sum.mountainKm)
            = RoadCost(trip, totals.km, totals.mountainKm) + RoadCost(trip, d.km, d.mountainKm)
  <2>1. PICK k : k = totals.km
    OBVIOUS
  <2>2. PICK m : m = totals.mountainKm
    OBVIOUS
  <2>3. PICK l : l = d.km
    OBVIOUS
  <2>4. PICK n : n = d.mountainKm
    OBVIOUS
  <2>5. k \in Nat /\ m \in Nat /\ l \in Nat /\ n \in Nat
    BY <1>3, <2>1, <2>2, <2>3, <2>4
  <2>6. /\ RoadCost(trip, k, m) \in Nat /\ RoadCost(trip, l, n) \in Nat
        /\ RoadCost(trip, k + l, m + n) = RoadCost(trip, k, m) + RoadCost(trip, l, n)
    <3>1. RoadCost(trip, k + l, m + n) = RoadCost(trip, k, m) + RoadCost(trip, l, n)
      BY <2>5, RoadsAddUp
    <3>3. RoadCost(trip, k, m) \in Nat
      BY <2>5, RoadsAddUp
    <3>2. RoadCost(trip, l, n) \in Nat
      BY <2>5, RoadsAddUp
    <3>. QED
      BY <3>1, <3>2, <3>3
  <2>. QED
    BY <1>3, <2>1, <2>2, <2>3, <2>4, <2>6
<1>6. /\ TicketsOf(trip, totals.visited) \in Nat /\ TicketsOf(trip, d.pois) \in Nat
      /\ TicketsOf(trip, sum.visited) = TicketsOf(trip, totals.visited) + TicketsOf(trip, d.pois)
  <2>1. PICK v : v = totals.visited
    OBVIOUS
  <2>2. PICK w : w = d.pois
    OBVIOUS
  <2>3. v \in Seq(Places) /\ w \in Seq(Places)
    BY <1>3, <2>1, <2>2
  <2>4. TicketsOf(trip, v) \in Nat /\ TicketsOf(trip, w) \in Nat
    BY <2>3, TicketsAreNatural
  <2>5. TicketsOf(trip, v \o w) = TicketsOf(trip, v) + TicketsOf(trip, w)
    BY <2>3, TicketsJoin
  <2>. QED
    BY <1>3, <2>1, <2>2, <2>4, <2>5
<1>7. /\ NightsOf(trip, totals.nights) \in Nat
      /\ NightsOf(trip, sum.nights) = NightsOf(trip, totals.nights) + Bed(stay)
  BY <1>2, <1>3, NightsGoOn
<1>8. /\ SnackIsWhole(sum.meals) /\ Snacks(totals.meals) \in Nat /\ Snacks(d.meals) \in Nat
      /\ Snacks(sum.meals) = Snacks(totals.meals) + Snacks(d.meals)
  <2>1. PICK m : m = totals.meals
    OBVIOUS
  <2>2. PICK n : n = d.meals
    OBVIOUS
  <2>3. m \in Nat /\ n \in Nat /\ SnackIsWhole(m) /\ SnackIsWhole(n)
    BY <1>1, <1>3, <2>1, <2>2
  <2>4. SnackIsWhole(m + n) /\ Snacks(m + n) = Snacks(m) + Snacks(n) /\ Snacks(m) \in Nat
    BY <2>3, SnacksAddUp
  <2>5. Snacks(n) \in Nat
    BY <2>3, SnacksAddUp
  <2>. QED
    BY <1>3, <2>1, <2>2, <2>4, <2>5
<1>9. CostOf(more) = RoadCost(trip, sum.km, sum.mountainKm) + TicketsOf(trip, sum.visited)
                         + NightsOf(trip, sum.nights) + sum.meals + Snacks(sum.meals)
  <2>1. PICK road : road = RoadCost(trip, totals.km, totals.mountainKm)
    OBVIOUS
  <2>2. PICK road2 : road2 = RoadCost(trip, d.km, d.mountainKm)
    OBVIOUS
  <2>3. PICK tickets : tickets = TicketsOf(trip, totals.visited)
    OBVIOUS
  <2>4. PICK tickets2 : tickets2 = TicketsOf(trip, d.pois)
    OBVIOUS
  <2>5. PICK nights : nights = NightsOf(trip, totals.nights)
    OBVIOUS
  <2>6. PICK bed : bed = Bed(stay)
    OBVIOUS
  <2>7. PICK meals : meals = totals.meals
    OBVIOUS
  <2>8. PICK meals2 : meals2 = d.meals
    OBVIOUS
  <2>9. PICK snacks : snacks = Snacks(totals.meals)
    OBVIOUS
  <2>10. PICK snacks2 : snacks2 = Snacks(d.meals)
    OBVIOUS
  <2>11. /\ road \in Nat /\ road2 \in Nat /\ tickets \in Nat /\ tickets2 \in Nat /\ nights \in Nat
         /\ bed \in Nat /\ meals \in Nat /\ meals2 \in Nat /\ snacks \in Nat /\ snacks2 \in Nat
    BY <1>3, <1>5, <1>6, <1>7, <1>8, <2>1, <2>2, <2>3, <2>4, <2>5, <2>6, <2>7, <2>8, <2>9, <2>10
  <2>12. CostOf(more) = (road + tickets + nights + meals + snacks)
                             + (road2 + tickets2 + meals2 + bed + snacks2)
    BY <1>1, <2>1, <2>2, <2>3, <2>4, <2>5, <2>6, <2>7, <2>8, <2>9, <2>10
  <2>13. (road + tickets + nights + meals + snacks) + (road2 + tickets2 + meals2 + bed + snacks2)
            = (road + road2) + (tickets + tickets2) + (nights + bed) + (meals + meals2) + (snacks + snacks2)
    BY <2>11, BillsAddUp
  <2>. QED
    BY <1>3, <1>5, <1>6, <1>7, <1>8, <2>1, <2>2, <2>3, <2>4, <2>5, <2>6, <2>7, <2>8, <2>9, <2>10, <2>12, <2>13
<1>. QED
  BY <1>3, <1>4, <1>8, <1>9 DEF TotalsSound

LEMMA NightIsKept ==
  ASSUME PlanSound, Night
  PROVE  PlanSound'
<1>1. /\ stage = "day" /\ stage' = IF LastDay THEN "answer" ELSE "morning"
      /\ trip' = trip /\ scored' = scored /\ route' = route /\ remaining' = remaining
  BY DEF Night
<1>2. PICK stay : stay = StayCity
  OBVIOUS
<1>3. PICK whole : whole = Nibbled(Slept(ToBed(LateLunch(thisDay), stay), stay))
  OBVIOUS
<1>4. PICK f : f = [Printed(whole) EXCEPT !.from = [start |-> @, stay |-> stay]]
  OBVIOUS
<1>5. PICK more : more = Append(days, f)
  OBVIOUS
<1>6. PICK sum : sum = TotalsWith(totals, whole, stay)
  OBVIOUS
<1>7. days' = more /\ totals' = sum /\ point' = stay /\ city' = stay
  BY <1>2, <1>3, <1>4, <1>5, <1>6 DEF Night
<1>8. trip \in TripInput /\ city \in Cities /\ point \in Points
  BY DEF PlanSound, ChoiceSound, WhereSound
<1>9. stay \in Cities /\ (LastDay /\ trip.round => stay = trip.origin)
  BY <1>2, <1>8, BedIsInACity
<1>10. /\ DaySound(trip, thisDay) /\ LeftOnTime(thisDay)
       /\ Len(days) < trip.days
       /\ \A p \in ToSet(thisDay.pois) : trip.assigned[p] \in {0, DayNumber}
       /\ thisDay.from = Lodged(trip, days)
       /\ thisDay.weather = DayWeather(trip.weather, thisDay.from, DayNumber)
       /\ CapAhead
  BY <1>1 DEF PlanSound, DaySoFar
<1>11. thisDay \in OpenDay(trip) /\ thisDay.driven \in Nat
  BY <1>10 DEF DaySound, OpenDay
<1>12. /\ WholeDay(thisDay, whole, stay) /\ Bed(stay) \in Nat
       /\ whole.driven <= thisDay.driven + Leg(point, stay, city).minutes
  BY <1>3, <1>8, <1>9, <1>10, NightIsSound
<1>13. /\ whole \in OpenDay(trip) /\ Ordered(whole.blocks) /\ SnackIsWhole(whole.meals)
       /\ whole.cost = RoadCost(trip, whole.km, whole.mountainKm) + TicketsOf(trip, whole.pois) + whole.meals
                          + Bed(stay) + Snacks(whole.meals)
       /\ whole.end = thisDay.end /\ whole.weather = thisDay.weather /\ whole.from = thisDay.from
       /\ whole.pois = thisDay.pois /\ LeftOnTime(whole)
  BY <1>10, <1>12 DEF WholeDay, Continues
<1>14. Finished(whole, f, stay)
  BY <1>4, <1>9, <1>13, FinishedIsFull
<1>15. /\ f \in FullDay(trip) /\ f.from = [start |-> thisDay.from, stay |-> stay]
       /\ f.weather = whole.weather
       /\ f.driven = ToMinutes(whole.driven) /\ f.cost = whole.cost /\ f.pois = thisDay.pois /\ f.pois = whole.pois
  BY <1>13, <1>14 DEF Finished
<1>16. f.from.start = Lodged(trip, days) /\ f.from.stay = stay
  BY <1>10, <1>15
<1>17. InOrder(f.blocks) /\ LeftInTime(f)
  BY <1>13, <1>14, PrintedCanBeLived
<1>18. ASSUME f.pois # <<>>, NoneAssigned(trip) PROVE f.driven <= trip.driving
  <2>1. PICK home : home = Leg(point, stay, city).minutes
    OBVIOUS
  <2>2. thisDay.driven + home <= Cap
    BY <1>2, <1>10, <1>15, <1>18, <2>1 DEF CapAhead
  <2>3. whole.driven <= thisDay.driven + home
    BY <1>12, <2>1
  <2>4. home \in Nat
    <3>1. Leg(point, stay, city) = LegBetween(point, stay, city, thisDay.slowdown, matrix)
      BY DEF Leg
    <3>2. PICK s : s = thisDay.slowdown
      OBVIOUS
    <3>3. s \in Nat /\ s >= 63
      BY <1>11, <3>2 DEF OpenDay
    <3>4. stay \in Points
      BY <1>9 DEF Points
    <3>5. LegBetween(point, stay, city, s, matrix) \in LegRecord
      BY <1>8, <3>3, <3>4, LegIsALeg
    <3>. QED
      BY <2>1, <3>1, <3>2, <3>5 DEF LegRecord
  <2>5. whole.driven \in Nat /\ Cap \in Nat
    BY <1>8, <1>13, CapIsNatural DEF OpenDay
  <2>6. whole.driven <= Cap
    BY <1>11, <2>2, <2>3, <2>4, <2>5
  <2>. QED
    BY <1>8, <1>15, <2>5, <2>6, PrintedUnderTheCap
<1>19. DaysSound(trip, days) /\ TotalsSound(trip, days, totals)
  BY DEF PlanSound
<1>20. /\ DaysSound(trip, more) /\ more # <<>> /\ Lodged(trip, more) = stay
       /\ PoisOf(days) \in Seq(Seq(Places))
       /\ PoisOf(more) = Append(PoisOf(days), whole.pois)
       /\ CostOf(more) = CostOf(days) + whole.cost
  <2>1. \A p \in ToSet(f.pois) : trip.assigned[p] \in {0, DayNumber}
    BY <1>10, <1>15
  <2>2. f.weather = DayWeather(trip.weather, f.from.start, DayNumber)
    BY <1>10, <1>13, <1>15
  <2>3. f.pois # <<>> /\ NoneAssigned(trip) => f.driven <= trip.driving
    BY <1>18
  <2>4. /\ DaysSound(trip, more) /\ more # <<>> /\ Lodged(trip, more) = f.from.stay
        /\ PoisOf(days) \in Seq(Seq(Places)) /\ PoisOf(more) = Append(PoisOf(days), f.pois)
        /\ CostOf(more) = CostOf(days) + f.cost
    BY <1>5, <1>8, <1>10, <1>15, <1>16, <1>17, <1>19, <2>1, <2>2, <2>3, DaysGrow
  <2>. QED
    BY <1>15, <1>16, <2>4
<1>21. TotalsSound(trip, more, sum) /\ sum.visited = totals.visited \o whole.pois
  BY <1>6, <1>8, <1>9, <1>12, <1>13, <1>19, <1>20, TotalsGrow
<1>22. DaysSound(trip, days)' /\ TotalsSound(trip, days, totals)'
  BY <1>1, <1>7, <1>20, <1>21
<1>23. RouteSound'
  <2>1. SeenSoFar = totals.visited \o thisDay.pois
    BY <1>1 DEF SeenSoFar
  <2>2. SeenSoFar' = sum.visited \o <<>>
    BY <1>1, <1>7 DEF SeenSoFar
  <2>3. PICK v : v = sum.visited
    OBVIOUS
  <2>4. v = SeenSoFar /\ v \in Seq(Places)
    BY <1>13, <1>21, <2>1, <2>3 DEF PlanSound, RouteSound, Paths
  <2>5. v \o <<>> = v
    BY <2>4
  <2>6. SeenSoFar' = SeenSoFar
    BY <2>2, <2>3, <2>4, <2>5
  <2>7. stage' # "choosing" /\ stage # "choosing"
    BY <1>1
  <2>. QED
    BY <1>1, <2>6, <2>7 DEF PlanSound, RouteSound
<1>24. ChoiceSound'
  BY <1>1 DEF PlanSound, ChoiceSound
<1>25. DaySoFar' /\ AnswerSound'
  BY <1>1 DEF DaySoFar, AnswerSound
<1>26. WhereSound'
  <2>1. stay \in Points
    BY <1>9 DEF Points
  <2>2. stage' = "answer" => LastDay
    BY <1>1
  <2>3. Lodged(trip, days)' = stay
    BY <1>1, <1>7, <1>20
  <2>4. stage' \in {"morning", "answer"}
    BY <1>1
  <2>5. days' # <<>>
    BY <1>7, <1>20
  <2>. QED
    BY <1>1, <1>7, <1>9, <2>1, <2>2, <2>3, <2>4, <2>5 DEF WhereSound
<1>. QED
  BY <1>22, <1>23, <1>24, <1>25, <1>26 DEF PlanSound

LEMMA PlanUntouched ==
  ASSUME PlanSound, UNCHANGED plannerVars
  PROVE  PlanSound'
<1>1. /\ trip' = trip /\ matrix' = matrix /\ stage' = stage /\ scored' = scored /\ route' = route
      /\ remaining' = remaining /\ point' = point /\ city' = city /\ thisDay' = thisDay /\ days' = days
      /\ totals' = totals /\ answer' = answer
  BY DEF plannerVars
<1>2. ChoiceSound' /\ WhereSound' /\ AnswerSound'
  BY <1>1 DEF PlanSound, ChoiceSound, WhereSound, AnswerSound
<1>3. RouteSound'
  BY <1>1 DEF PlanSound, RouteSound, SeenSoFar
<1>4. DaySoFar'
  <2>1. ForcedEnd' = ForcedEnd
    BY <1>1 DEF ForcedEnd, LastDay, DayNumber
  <2>0. Cap' = Cap
    BY <1>1 DEF Cap
  <2>2. StayCity' = StayCity
    BY <1>1, <2>0, <2>1 DEF StayCity
  <2>3. Leg(point, StayCity, city)' = Leg(point, StayCity, city)
    BY <1>1, <2>2 DEF Leg
  <2>4. CapAhead <=> CapAhead'
    BY <1>1, <2>0, <2>3 DEF CapAhead
  <2>. QED
    BY <1>1, <2>4 DEF PlanSound, DaySoFar, DayNumber
<1>5. DaysSound(trip, days)' /\ TotalsSound(trip, days, totals)'
  BY <1>1 DEF PlanSound
<1>. QED
  BY <1>2, <1>3, <1>4, <1>5 DEF PlanSound

-----------------------------------------------------------------------------
(* Every turn of the planner keeps what is true of the plan, from the wish *)
(* to the answer and through every second draft and lever.                 *)
THEOREM PlannerInvariant == PlannerSpec => []PlanSound
<1>1. PlannerInit => PlanSound
  <2>. SUFFICES ASSUME PlannerInit PROVE PlanSound
    OBVIOUS
  <2>1. trip \in TripInput
    BY TripsAssumption DEF PlannerInit
  <2>2. Fresh
    BY <2>1 DEF PlannerInit, Fresh
  <2>. QED
    BY <2>2, FreshIsSound
<1>2. PlanSound /\ [PlannerNext]_plannerVars => PlanSound'
  <2>. SUFFICES ASSUME PlanSound, [PlannerNext]_plannerVars PROVE PlanSound'
    OBVIOUS
  <2>1. CASE Insert
    BY <2>1, InsertIsSound
  <2>2. CASE StopInserting
    BY <2>2, StopInsertingIsSound
  <2>3. CASE Morning
    BY <2>3, MorningIsSound
  <2>4. CASE VisitNext
    BY <2>4, VisitNextIsSound
  <2>5. CASE Night
    BY <2>5, NightIsKept
  <2>6. CASE Answer
    BY <2>6, AnswerIsSound
  <2>7. CASE PlanAgain
    BY <2>7, PlanAgainIsSound
  <2>8. CASE PullLever
    BY <2>8, PullLeverIsSound
  <2>9. CASE UNCHANGED plannerVars
    BY <2>9, PlanUntouched
  <2>. QED
    BY <2>1, <2>2, <2>3, <2>4, <2>5, <2>6, <2>7, <2>8, <2>9 DEF PlannerNext
<1>. QED
  BY <1>1, <1>2, PTL DEF PlannerSpec

-----------------------------------------------------------------------------
(* What follows from it.                                                   *)

(* However the trip is wished and whatever roads are found, each day can   *)
(* be lived as it is printed, to the minute that rounding hour and length  *)
(* each on its own may come to: its blocks follow one another, a day on    *)
(* which something is seen keeps the driving allowed, to bed included, and *)
(* its last place is left in time for bed (planner.ts:175-482).            *)
THEOREM EveryDayCanBeLived == PlannerSpec => []DaysCanBeLived
<1>1. PlanSound => DaysCanBeLived
  <2>. SUFFICES ASSUME PlanSound, NEW i \in DOMAIN days
                PROVE  /\ InOrder(days[i].blocks)
                       /\ days[i].pois # <<>> /\ (\A p \in Places : trip.assigned[p] = 0)
                             => days[i].driven <= trip.driving
                       /\ LeftInTime(days[i])
    BY DEF DaysCanBeLived
  <2>1. DayStands(trip, days, i)
    BY DEF PlanSound, DaysSound
  <2>. QED
    BY <2>1 DEF DayStands, NoneAssigned
<1>. QED
  BY <1>1, PlannerInvariant, PTL

LEMMA SixLines ==
  ASSUME NEW fuel \in Int, NEW road \in Int, NEW tickets \in Int, NEW nights \in Int, NEW meals \in Int,
         NEW snacks \in Int
  PROVE  (fuel + road) + tickets + nights + meals + snacks = fuel + road + nights + tickets + meals + snacks
OBVIOUS

LEMMA BillIsOfTheDays ==
  ASSUME trip \in TripInput, TotalsSound(trip, days, totals)
  PROVE  CostOf(days) = ComputeCost(trip, totals).subtotal
<1>1. totals \in Totals
  BY DEF TotalsSound
<1>2. /\ totals.km \in Nat /\ totals.mountainKm \in Nat /\ totals.meals \in Nat
      /\ totals.visited \in Seq(Places) /\ totals.nights \in Seq(Cities)
  BY <1>1 DEF Totals
<1>3. PICK fuel : fuel = FuelPerKm(trip) * (100 * totals.km + 15 * totals.mountainKm)
  OBVIOUS
<1>4. PICK road : road = 100 * totals.km * OtherPerKm(trip)
  OBVIOUS
<1>5. PICK nights : nights = NightsOf(trip, totals.nights)
  OBVIOUS
<1>6. PICK tickets : tickets = TicketsOf(trip, totals.visited)
  OBVIOUS
<1>7. PICK meals : meals = totals.meals
  OBVIOUS
<1>8. PICK snacks : snacks = Snacks(totals.meals)
  OBVIOUS
<1>9. fuel \in Nat /\ road \in Nat
  <2>1. PICK k : k = totals.km
    OBVIOUS
  <2>2. PICK m : m = totals.mountainKm
    OBVIOUS
  <2>3. k \in Nat /\ m \in Nat
    BY <1>2, <2>1, <2>2
  <2>4. PICK a : a = 100 * k + 15 * m
    OBVIOUS
  <2>5. PICK b : b = 100 * k
    OBVIOUS
  <2>6. a \in Nat /\ b \in Nat
    BY <2>3, <2>4, <2>5
  <2>7. FuelPerKm(trip) \in Nat /\ OtherPerKm(trip) \in Nat
    BY KilometreIsPriced
  <2>8. FuelPerKm(trip) * a \in Nat
    BY <2>6, <2>7, ProductIsNatural
  <2>9. b * OtherPerKm(trip) \in Nat
    BY <2>6, <2>7, ProductIsNatural
  <2>. QED
    BY <1>3, <1>4, <2>1, <2>2, <2>4, <2>5, <2>8, <2>9
<1>10. nights \in Nat /\ tickets \in Nat /\ meals \in Nat
  <2>1. nights \in Nat
    BY <1>2, <1>5, NightsGrow, StaysExist
  <2>2. tickets \in Nat
    BY <1>2, <1>6, TicketsAreNatural
  <2>. QED
    BY <1>2, <1>7, <2>1, <2>2
<1>11. snacks \in Nat
  BY <1>2, <1>8, SnacksAddUp DEF TotalsSound
<1>12. CostOf(days) = (fuel + road) + tickets + nights + meals + snacks
  <2>1. CostOf(days) = RoadCost(trip, totals.km, totals.mountainKm) + TicketsOf(trip, totals.visited)
                           + NightsOf(trip, totals.nights) + totals.meals + Snacks(totals.meals)
    BY DEF TotalsSound
  <2>2. RoadCost(trip, totals.km, totals.mountainKm) = fuel + road
    BY <1>3, <1>4 DEF RoadCost
  <2>. QED
    BY <1>5, <1>6, <1>7, <1>8, <2>1, <2>2
<1>13. ComputeCost(trip, totals).subtotal = fuel + road + nights + tickets + meals + snacks
  BY <1>3, <1>4, <1>5, <1>6, <1>7, <1>8 DEF ComputeCost, NightsOf, TicketsOf
<1>14. (fuel + road) + tickets + nights + meals + snacks = fuel + road + nights + tickets + meals + snacks
  BY <1>9, <1>10, <1>11, SixLines
<1>. QED
  BY <1>12, <1>13, <1>14

(* The costs of the days add up to the subtotal of the bill, to the last   *)
(* Toman, for every catalogue, price book and trip (planner.ts:143).       *)
THEOREM DaysAlwaysSumToSubtotal == PlannerSpec => []DaysSumToSubtotal
<1>1. PlanSound => DaysSumToSubtotal
  <2>. SUFFICES ASSUME PlanSound, stage = "done"
                PROVE  Sum([i \in DOMAIN days |-> days[i].cost]) = answer.bill.subtotal
    BY DEF DaysSumToSubtotal
  <2>1. CostOf(days) = ComputeCost(trip, totals).subtotal
    BY BillIsOfTheDays DEF PlanSound, ChoiceSound
  <2>2. answer.bill = ComputeCost(trip, totals)
    BY DEF PlanSound, AnswerSound
  <2>. QED
    BY <2>1, <2>2 DEF CostOf
<1>. QED
  BY <1>1, PlannerInvariant, PTL

LEMMA SeenIsSoFar ==
  ASSUME PlanSound
  PROVE  Seen = SeenSoFar /\ SeenSoFar \in Paths(Places)
<1>1. totals.visited = FlattenSeq(PoisOf(days))
  BY DEF PlanSound, TotalsSound
<1>. QED
  BY <1>1 DEF Seen, SeenSoFar, PoisOf, PlanSound, RouteSound

LEMMA RouteCounts ==
  ASSUME NEW r \in Paths(Places), NEW s \in Paths(Places), NEW t \in Paths(Places),
         ToSet(s) \cap ToSet(t) = {}, ToSet(r) = ToSet(s) \cup ToSet(t)
  PROVE  Len(r) = Len(s) + Len(t)
<1>1. /\ r \in Seq(Places) /\ IsInjective(r) /\ s \in Seq(Places) /\ IsInjective(s)
      /\ t \in Seq(Places) /\ IsInjective(t)
  BY DEF Paths
<1>2. PICK j : j = s \o t
  OBVIOUS
<1>3. j \in Seq(Places) /\ Len(j) = Len(s) + Len(t) /\ ToSet(j) = ToSet(r)
  BY <1>1, <1>2, JoinedSet
<1>4. IsInjective(j)
  BY <1>1, <1>2, JoinedInjective
<1>5. Cardinality(ToSet(j)) = Len(j) /\ Cardinality(ToSet(r)) = Len(r)
  BY <1>1, <1>3, <1>4, PathCounts
<1>. QED
  BY <1>3, <1>5

LEMMA RouteIsAccounted ==
  ASSUME PlanSound
  PROVE  RouteIsSpent
<1>1. Seen = SeenSoFar /\ SeenSoFar \in Paths(Places)
  BY SeenIsSoFar
<1>2. route \in Paths(Places) /\ IsInjective(route)
  BY DEF PlanSound, ChoiceSound, Paths, Chosen
<1>3. \A i \in DOMAIN days : DayStands(trip, days, i)
  BY DEF PlanSound, DaysSound
<1>4. ASSUME stage # "choosing"
      PROVE  /\ ToSet(route) = ToSet(Seen) \cup ToSet(remaining)
             /\ Len(route) = Len(Seen) + Len(remaining)
  <2>1. /\ remaining \in Paths(Places) /\ ToSet(Seen) \cap ToSet(remaining) = {}
        /\ ToSet(route) = ToSet(Seen) \cup ToSet(remaining)
    BY <1>1, <1>4 DEF PlanSound, RouteSound
  <2>. QED
    BY <1>1, <1>2, <2>1, RouteCounts
<1>5. ASSUME stage \in {"answer", "done"}, trip.round PROVE Last(days).from.stay = trip.origin
  BY <1>5 DEF PlanSound, WhereSound, Lodged, Last
<1>6. ASSUME NEW i \in DOMAIN days
      PROVE  /\ \A p \in ToSet(days[i].pois) : trip.assigned[p] \in {0, i}
             /\ days[i].from.start = IF i = 1 THEN trip.origin ELSE days[i - 1].from.stay
  BY <1>3 DEF DayStands
<1>. QED
  BY <1>2, <1>4, <1>5, <1>6 DEF RouteIsSpent

LEMMA WarnIsAbout ==
  ASSUME NEW level, NEW about, NEW day
  PROVE  Warn(level, about, day).about = about /\ WarnOf(about, day).about = about
BY DEF Warn, WarnOf

LEMMA RainIsOfADay ==
  ASSUME NEW t, NEW past, NEW bill, NEW seen, NEW dropped,
         NEW w \in TripWarnings(t, past, bill, seen, dropped)
  PROVE  w.about # "rain"
<1>1. ASSUME w \in ClimateTips(t, past) PROVE w.about # "rain"
  <2>1. \/ w = Warn("info", "desert", 0) \/ w = Warn("info", "mosquitoes", 0)
        \/ w = Warn("warn", "gulf_heat", 0) \/ w = Warn("warn", "chains", 0)
    BY <1>1 DEF ClimateTips, If
  <2>. QED
    BY <2>1, WarnIsAbout
<1>2. \/ w = Warn("danger", "no_driver", 0)
      \/ \E p \in PinnedConflicts(t, Vehicle) : w = WarnOf("conflict", {p})
      \/ w = WarnOf("no_room", NamesOf(Missed(t, seen)))
      \/ w = Warn("warn", "over_budget", 0) \/ w = Warn("info", "under_budget", 0)
      \/ w = Warn("warn", "nowruz", 0) \/ w = Warn("info", "vehicle", 0)
      \/ w = Warn("info", "mobility", 0) \/ w = Warn("info", "dropped", 0)
      \/ w \in ClimateTips(t, past)
  BY DEF TripWarnings, If
<1>3. ASSUME NEW places PROVE WarnOf("conflict", places).about = "conflict" /\ WarnOf("no_room", places).about = "no_room"
  BY WarnIsAbout
<1>4. ASSUME NEW level, NEW about, NEW day PROVE Warn(level, about, day).about = about
  BY WarnIsAbout
<1>5. CASE \E p \in PinnedConflicts(t, Vehicle) : w = WarnOf("conflict", {p})
  <2>1. PICK p : w = WarnOf("conflict", {p})
    BY <1>5
  <2>. QED
    BY <1>3, <2>1
<1>6. CASE w = WarnOf("no_room", NamesOf(Missed(t, seen)))
  BY <1>3, <1>6
<1>7. CASE \/ w = Warn("danger", "no_driver", 0) \/ w = Warn("warn", "over_budget", 0)
           \/ w = Warn("info", "under_budget", 0) \/ w = Warn("warn", "nowruz", 0)
           \/ w = Warn("info", "vehicle", 0) \/ w = Warn("info", "mobility", 0)
           \/ w = Warn("info", "dropped", 0)
  BY <1>4, <1>7
<1>. QED
  BY <1>1, <1>2, <1>5, <1>6, <1>7

LEMMA RainIsForecast ==
  ASSUME NEW t, NEW day, NEW d, NEW w \in DayWarnings(t, day, d), w.about = "rain"
  PROVE  day.weather = "rain"
<1>. SUFFICES ASSUME day.weather # "rain" PROVE FALSE
  OBVIOUS
<1>1. \/ w = Warn("danger", "driving", d) \/ w = Warn("danger", "one_driver", d)
      \/ w = Warn("warn", "effort", d) \/ w = Warn("info", "transfer", d) \/ w = Warn("info", "long_day", d)
      \/ w = Warn("danger", "snow", d) \/ w = Warn("warn", "heat", d) \/ w = Warn("warn", "frost", d)
      \/ w = Warn("warn", "wind", d) \/ w = Warn("warn", "height", d) \/ w = Warn("info", "height", d)
      \/ w = Warn("info", "few_comforts", d)
  BY DEF DayWarnings, If
<1>. QED
  BY <1>1, WarnIsAbout

LEMMA RainIsSomewhere ==
  ASSUME NEW skies, NEW c \in Cities, NEW n, DayWeather(skies, c, n) = "rain"
  PROVE  \E e \in Cities : skies[e][n] = "rain"
<1>1. PICK known : known = Where(CityListing, {e \in Cities : skies[e][n] # "none"})
  OBVIOUS
<1>2. CityListing \in Seq(Cities)
  BY CatalogueAssumption DEF Cities
<1>3. known \in Seq(Cities) /\ ToSet(known) = ToSet(CityListing) \cap {e \in Cities : skies[e][n] # "none"}
  BY <1>1, <1>2, WhereChooses
<1>4. CASE skies[c][n] # "none"
  <2>1. c \in ToSet(known)
    BY <1>3, <1>4 DEF Cities
  <2>2. known # <<>>
    BY <1>3, <2>1, NoElements
  <2>3. DayWeather(skies, c, n) = skies[c][n]
    BY <1>1, <1>4, <2>2 DEF DayWeather
  <2>. QED
    BY <2>3
<1>5. CASE skies[c][n] = "none" /\ known = <<>>
  BY <1>1, <1>5 DEF DayWeather
<1>6. CASE skies[c][n] = "none" /\ known # <<>>
  <2>1. DayWeather(skies, c, n) = skies[known[1]][n]
    BY <1>1, <1>6 DEF DayWeather
  <2>2. known[1] \in Cities
    BY <1>3, <1>6
  <2>. QED
    BY <2>1, <2>2
<1>. QED
  BY <1>4, <1>5, <1>6

LEMMA RainIsPackedFor ==
  ASSUME NEW t, NEW past, Sky(t.weather, t.days).rain
  PROVE  "rain_clothes" \in PackingList(t, past)
BY DEF PackingList, If

LEMMA WishesAreNamed ==
  ASSUME PlanSound
  PROVE  WishesNamed
<1>. SUFFICES ASSUME stage = "done"
              PROVE  /\ \A p \in trip.pinned \cap Places : p \in ToSet(Seen) \/ Told(p)
                     /\ \A p \in ToSet(Seen) : RejectReason(p, trip, Vehicle) # "none" =>
                           (p \in trip.pinned \/ Poi[p].custom) /\ Named(p)
                     /\ (\E w \in answer.advice : w.about = "rain" /\ w.level = "warn")
                           => "rain_clothes" \in answer.packing
  BY DEF WishesNamed
<1>1. PICK seen : seen = ToSet(totals.visited)
  OBVIOUS
<1>2. ToSet(Seen) = seen /\ seen \subseteq ToSet(route)
  <2>1. Seen = SeenSoFar
    BY SeenIsSoFar
  <2>2. SeenSoFar = totals.visited \o <<>>
    BY DEF SeenSoFar
  <2>3. PICK v : v = totals.visited
    OBVIOUS
  <2>4. v \in Seq(Places)
    BY <2>3 DEF PlanSound, TotalsSound, Totals
  <2>5. v \o <<>> = v
    BY <2>4
  <2>6. Seen = v
    BY <2>1, <2>2, <2>3, <2>5
  <2>7. ToSet(route) = ToSet(SeenSoFar) \cup ToSet(remaining)
    BY DEF PlanSound, RouteSound
  <2>. QED
    BY <1>1, <2>1, <2>3, <2>6, <2>7
<1>3. /\ answer.advice = TripWarnings(trip, days, answer.bill, seen, Len(remaining))
                             \cup UNION {DayWarnings(trip, days[i], i) : i \in DOMAIN days}
      /\ answer.packing = PackingList(trip, days)
  BY <1>1 DEF PlanSound, AnswerSound, Advise
<1>4. ASSUME NEW p \in trip.pinned \cap Places, p \notin seen PROVE Told(p)
  <2>1. p \in Missed(trip, seen)
    BY <1>4 DEF Missed
  <2>2. PICK names : names = NamesOf(Missed(trip, seen))
    OBVIOUS
  <2>3. WarnOf("no_room", names) \in TripWarnings(trip, days, answer.bill, seen, Len(remaining))
    BY <2>1, <2>2 DEF TripWarnings, If
  <2>4. p \in names \/ Poi[p].custom
    BY <1>4, <2>1, <2>2 DEF NamesOf
  <2>5. WarnOf("no_room", names).of = names /\ WarnOf("no_room", names).about = "no_room"
    BY DEF WarnOf
  <2>. QED
    BY <1>3, <2>3, <2>4, <2>5 DEF Told
<1>5. ASSUME NEW p \in seen, RejectReason(p, trip, Vehicle) # "none"
      PROVE  (p \in trip.pinned \/ Poi[p].custom) /\ Named(p)
  <2>1. route \in Paths(Chosen(trip))
    BY DEF PlanSound, ChoiceSound
  <2>2. p \in Chosen(trip)
    BY <1>2, <2>1, NothingIsEmpty DEF Paths
  <2>3. p \in Places /\ Kept(p, trip, Vehicle)
    BY <2>2 DEF Chosen
  <2>4. p \in PinnedConflicts(trip, Vehicle)
    BY <1>5, <2>3 DEF PinnedConflicts
  <2>5. WarnOf("conflict", {p}) \in TripWarnings(trip, days, answer.bill, seen, Len(remaining))
    BY <2>4 DEF TripWarnings
  <2>6. p \in WarnOf("conflict", {p}).of
    BY DEF WarnOf
  <2>7. Named(p)
    BY <1>3, <2>5, <2>6 DEF Named
  <2>. QED
    BY <1>5, <2>3, <2>7 DEF Kept
<1>6. ASSUME NEW w \in answer.advice, w.about = "rain" PROVE "rain_clothes" \in answer.packing
  <2>1. PICK i \in DOMAIN days : w \in DayWarnings(trip, days[i], i)
    BY <1>3, <1>6, RainIsOfADay
  <2>2. days[i].weather = "rain"
    BY <1>6, <2>1, RainIsForecast
  <2>3. days \in Seq(FullDay(trip)) /\ Len(days) <= trip.days /\ DayStands(trip, days, i)
    BY <2>1 DEF PlanSound, DaysSound
  <2>4. i \in 1 .. trip.days
    BY <2>1, <2>3 DEF PlanSound, ChoiceSound, TripInput
  <2>5. days[i].from.start \in Cities
    <3>1. days[i] \in FullDay(trip)
      BY <2>1, <2>3
    <3>. QED
      BY <3>1 DEF FullDay
  <2>6. DayWeather(trip.weather, days[i].from.start, i) = "rain"
    BY <2>2, <2>3 DEF DayStands
  <2>7. PICK e \in Cities : trip.weather[e][i] = "rain"
    BY <2>5, <2>6, RainIsSomewhere
  <2>8. Sky(trip.weather, trip.days).rain
    <3>. DEFINE known == {trip.weather[c][d] : c \in Cities, d \in 1 .. trip.days} \ {"none"}
    <3>2. "rain" \in known
      BY <2>4, <2>7
    <3>4. Sky(trip.weather, trip.days).rain = (known \cap {"rain", "snow"} # {})
      BY DEF Sky
    <3>. HIDE DEF known
    <3>3. known \cap {"rain", "snow"} # {}
      BY <3>2
    <3>. QED
      BY <3>3, <3>4
  <2>. QED
    BY <1>3, <2>8, RainIsPackedFor
<1>. QED
  BY <1>2, <1>4, <1>5, <1>6

(* Nothing chosen is lost between the route and the last night, every pin  *)
(* is visited or told of, by name if it is of the catalogue, and a place   *)
(* that breaks a rule is there only because the user wants it, and is      *)
(* named (planner.ts:107-116, advisor.ts:214-240).                         *)
THEOREM PlacesAlwaysAccounted == PlannerSpec => []PlacesAccounted
<1>1. PlanSound => PlacesAccounted
  BY RouteIsAccounted, WishesAreNamed DEF PlacesAccounted
<1>. QED
  BY <1>1, PlannerInvariant, PTL
=============================================================================
