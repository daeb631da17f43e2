---------------------------- MODULE TripJournal ----------------------------
(***************************************************************************)
(* The notebook of the road (web/src/features/live: LivePanel.tsx and      *)
(* journal.ts, mounted by features/plan/PlanPage.tsx): check-ins, expenses *)
(* and photos of one trip, held in the page and kept in one slot of        *)
(* localStorage.                                                           *)
(*                                                                         *)
(* A photo is uploaded first and recorded when its answer comes. The       *)
(* continuation writes back the journal it saw when the upload started     *)
(* (the closure of its render), through the page it started on, mounted    *)
(* or not by then.                                                         *)
(***************************************************************************)
EXTENDS Naturals, FiniteSets, FiniteSetsExt

CONSTANTS Trips,       \* the trip ids: origin city | start date | days
          Stops,       \* the stops of a plan
          CategoryOf,  \* [Stops -> categories]
          Labels,      \* what an expense may be labelled
          LongLabels,  \* those of over 80 characters
          Marks,       \* what a check-in may carry, of "noted", "rated" and
                       \* "long": a note of over 500 characters
          MaxUploads,  \* bound: photos uploaded in one behaviour
          MaxExpenses, \* bound: expenses in a journal
          NoTrip       \* no plan page is on screen

ASSUME JournalBounds ==
    MaxUploads \in Nat /\ MaxExpenses \in Nat
ASSUME MarksAssumption == Marks \subseteq {"noted", "rated", "long"}
ASSUME NoTripIsNoTrip == NoTrip \notin Trips

VARIABLES
    trip,       \* trip of the plan page on screen, or NoTrip
    mount,      \* the mounted page, 0 for none: no upload of an earlier page has it
    journal,    \* what the page holds
    stored,     \* what localStorage holds
    saved,      \* whether the last save of the journal on screen found room
    uploads,    \* uploads under way, each with the journal its closure saw
    slot,       \* uploadingFor: the stop whose button spins, or "none"
    photos,     \* photos the server keeps: a set of [id, stop]
    crossed     \* history: an answer met another journal than it had seen,
                \* after the journal on screen was loaded

page == <<trip, mount>>
vars == <<trip, mount, journal, stored, saved, uploads, slot, photos, crossed>>

PhotoIds   == 1 .. MaxUploads
Mounts     == 1 .. MaxUploads + 1
CheckIns   == [marks : SUBSET Marks, photo : PhotoIds \cup {0}]
Expenses   == [number : 0 .. MaxExpenses, label : Labels]     \* id is e-number-label
Rows       == UNION {[places -> Expenses] : places \in SUBSET (1 .. MaxExpenses)}
Journals   == [trip : Trips, checkIns : [Stops -> CheckIns], expenses : Rows]
Categories == {CategoryOf[s] : s \in Stops}

Blank == [marks |-> {}, photo |-> 0]

EmptyJournal(t) ==
    [trip |-> t, checkIns |-> [s \in Stops |-> Blank], expenses |-> [place \in {} |-> Blank]]

\* Mutant: whatever journal is stored is loaded.
LoadJournalAnyTrip(t) == IF stored.trip = NoTrip THEN EmptyJournal(t) ELSE stored

\* Mutant: the stored journal is taken without looking at it.
LoadJournalUnchecked(t) == stored

\* journalSchema: no text is longer than it may be. Nothing else the page
\* writes is refused.
Fits(j) ==
    /\ \A s \in Stops : "long" \notin j.checkIns[s].marks
    /\ \A p \in DOMAIN j.expenses : j.expenses[p].label \notin LongLabels

\* loadJournal: the stored journal if the schema takes it and it is this
\* trip's.
LoadJournal(t) == IF Fits(stored) /\ stored.trip = t THEN stored ELSE EmptyJournal(t)

\* learnedTaste: the categories with at least two ratings.
LearnedTaste(j) ==
    {c \in Categories :
        Cardinality({s \in Stops : CategoryOf[s] = c /\ "rated" \in j.checkIns[s].marks}) >= 2}

-----------------------------------------------------------------------------
\* Mutant: the journal is shown and not saved.
UpdateJournalUnsaved(m, next) ==
    /\ journal' = IF m = mount THEN next ELSE journal
    /\ UNCHANGED <<stored, saved>>

\* updateJournal of page m: a page that is gone sets nothing but still saves.
UpdateJournal(m, next) ==
    /\ journal' = IF m = mount THEN next ELSE journal
    /\ \E ok \in BOOLEAN :
          /\ saved' = ok
          /\ stored' = IF ok THEN next ELSE stored

UpsertCheckIn(j, s, patch) == [j EXCEPT !.checkIns[s] = patch]

MarkCheckIn(s, marks) ==
    UpdateJournal(mount, UpsertCheckIn(journal, s, [journal.checkIns[s] EXCEPT !.marks = marks]))

\* The time of arrival or the note, written or blanked; no field of the page
\* bounds what is typed.
Note(s) ==
    /\ trip # NoTrip
    /\ \E given \in SUBSET (Marks \ {"rated"}) :
          MarkCheckIn(s, (journal.checkIns[s].marks \cap {"rated"}) \cup given)
    /\ UNCHANGED <<page, uploads, slot, photos, crossed>>

\* A rating may be changed and not taken back.
Rate(s) ==
    /\ trip # NoTrip /\ "rated" \in Marks
    /\ MarkCheckIn(s, journal.checkIns[s].marks \cup {"rated"})
    /\ UNCHANGED <<page, uploads, slot, photos, crossed>>

\* stripPhoto: the link goes, the file stays on the server.
RemovePhoto(s) ==
    /\ trip # NoTrip /\ journal.checkIns[s].photo # 0
    /\ UpdateJournal(mount, UpsertCheckIn(journal, s, [journal.checkIns[s] EXCEPT !.photo = 0]))
    /\ UNCHANGED <<page, uploads, slot, photos, crossed>>

\* One more row, numbered by the length of the list; after a deletion two
\* rows may share an id, and are then deleted together.
WithRow(rows, label) ==
    LET place == Min((1 .. MaxExpenses) \ DOMAIN rows)
        added == [number |-> Cardinality(DOMAIN rows), label |-> label]
    IN  [p \in DOMAIN rows \cup {place} |-> IF p = place THEN added ELSE rows[p]]

WithoutId(rows, e) == [p \in {q \in DOMAIN rows : rows[q] # e} |-> rows[p]]

AddExpense(label) ==
    /\ trip # NoTrip /\ Cardinality(DOMAIN journal.expenses) < MaxExpenses
    /\ UpdateJournal(mount, [journal EXCEPT !.expenses = WithRow(@, label)])
    /\ UNCHANGED <<page, uploads, slot, photos, crossed>>

DeleteExpense(i) ==
    /\ trip # NoTrip
    /\ UpdateJournal(mount, [journal EXCEPT !.expenses = WithoutId(@, journal.expenses[i])])
    /\ UNCHANGED <<page, uploads, slot, photos, crossed>>

-----------------------------------------------------------------------------
(* Photos.                                                                 *)

FreeIds == PhotoIds \ ({u.id : u \in uploads} \cup {p.id : p \in photos})

\* attachPhoto up to its await; a stop with a photo has no such button.
AttachPhoto(s) ==
    /\ trip # NoTrip /\ journal.checkIns[s].photo = 0
    /\ slot # s
    /\ FreeIds # {}
    /\ slot' = s
    /\ uploads' = uploads \cup {[id |-> Min(FreeIds), stop |-> s, mount |-> mount, seen |-> journal]}
    /\ UNCHANGED <<page, journal, stored, saved, photos, crossed>>

\* Mutant: the photo goes to the stop whose button spins.
PhotoStopSlot(u) == IF slot = "none" THEN u.stop ELSE slot

\* The stop an answered photo is recorded at.
PhotoStop(u) == u.stop

\* finally: setUploadingFor(null), on the page the upload started on.
SlotAfter(u) == IF u.mount = mount THEN "none" ELSE slot

\* The upload is answered: the seen journal with the photo is written back.
PhotoAnswer(u) ==
    /\ uploads' = uploads \ {u}
    /\ photos' = photos \cup {[id |-> u.id, stop |-> u.stop]}
    /\ UpdateJournal(u.mount,
          UpsertCheckIn(u.seen, PhotoStop(u), [u.seen.checkIns[PhotoStop(u)] EXCEPT !.photo = u.id]))
    /\ slot' = SlotAfter(u)
    /\ crossed' = (crossed \/ u.mount # mount \/ u.seen # journal)
    /\ UNCHANGED page

\* Mutant: the spinner is stopped on success alone.
UploadFailsSpinning(u) ==
    /\ uploads' = uploads \ {u}
    /\ UNCHANGED <<page, journal, stored, saved, slot, photos, crossed>>

\* Refused, no network or timed out, perhaps after the server kept the photo;
\* never retried.
UploadFails(u) ==
    /\ uploads' = uploads \ {u}
    /\ photos' \in {photos, photos \cup {[id |-> u.id, stop |-> u.stop]}}
    /\ slot' = SlotAfter(u)
    /\ UNCHANGED <<page, journal, stored, saved, crossed>>

-----------------------------------------------------------------------------
(* The page around the notebook.                                           *)

NoJournal == [EmptyJournal(CHOOSE t \in Trips : TRUE) EXCEPT !.trip = NoTrip]

\* The journal of a page that opens, and of none.
Load(t) == journal' = LoadJournal(t) /\ saved' = TRUE /\ crossed' = FALSE
Unload  == journal' = NoJournal /\ saved' = TRUE /\ crossed' = FALSE

\* A plan is opened: built, cached, or the edit form left without change.
OpenPage(t) ==
    /\ trip = NoTrip
    /\ trip' = t
    /\ mount' = Min(Mounts \ {u.mount : u \in uploads})
    /\ Load(t)
    /\ slot' = "none"
    /\ UNCHANGED <<stored, uploads, photos>>

\* The edit form, or a new trip.
LeavePage ==
    /\ trip # NoTrip
    /\ trip' = NoTrip /\ mount' = 0
    /\ Unload
    /\ slot' = "none"
    /\ UNCHANGED <<stored, uploads, photos>>

\* Mutant: one rating is taken for a taste.
TasteForOneRating(t) ==
    {CategoryOf[s] : s \in {r \in Stops : "rated" \in LoadJournal(t).checkIns[r].marks}}

\* The taste sent with a build, under the id of the trip to be built.
TasteFor(t) == LearnedTaste(LoadJournal(t))

\* rebuildWith and its answer, as one step: the page stays mounted, and a
\* lever on the number of days makes it another trip's.
RebuildTo(t) ==
    /\ trip # NoTrip
    /\ trip' = t
    /\ IF t # trip THEN Load(t) ELSE UNCHANGED <<journal, saved, crossed>>
    /\ UNCHANGED <<mount, stored, uploads, slot, photos>>

\* Uploads are lost; the cached plan, if there is one, comes back.
Reload ==
    /\ \/ trip' = NoTrip /\ mount' = 0 /\ Unload
       \/ \E t \in Trips :
             /\ trip \in {t, NoTrip}
             /\ trip' = t /\ mount' = 1 /\ Load(t)
    /\ uploads' = {} /\ slot' = "none"
    /\ UNCHANGED <<stored, photos>>

Init ==
    /\ trip = NoTrip /\ mount = 0
    /\ journal = NoJournal /\ stored = NoJournal /\ saved = TRUE
    /\ uploads = {} /\ slot = "none" /\ photos = {}
    /\ crossed = FALSE

Next ==
    \/ \E s \in Stops : Note(s) \/ Rate(s) \/ AttachPhoto(s) \/ RemovePhoto(s)
    \/ \E l \in Labels : AddExpense(l)
    \/ \E i \in DOMAIN journal.expenses : DeleteExpense(i)
    \/ \E u \in uploads : PhotoAnswer(u) \/ UploadFails(u)
    \/ \E t \in Trips : OpenPage(t) \/ RebuildTo(t)
    \/ LeavePage \/ Reload

Spec == Init /\ [][Next]_vars

-----------------------------------------------------------------------------
(* Properties.                                                             *)

\* Every variable keeps its type; a page is mounted exactly while a trip is open.
TypeOK ==
    /\ trip \in Trips \cup {NoTrip} /\ mount \in Mounts \cup {0}
    /\ trip = NoTrip <=> mount = 0
    /\ journal \in Journals \cup {NoJournal}
    /\ stored \in Journals \cup {NoJournal}
    /\ saved \in BOOLEAN /\ crossed \in BOOLEAN
    /\ uploads \subseteq [id : PhotoIds, stop : Stops, mount : Mounts, seen : Journals]
    /\ slot \in Stops \cup {"none"}
    /\ photos \subseteq [id : PhotoIds, stop : Stops]

(* The journal on screen belongs to the trip on screen, as the comment of  *)
(* loadJournal demands, over rebuilds, remounts and reloads: only the late *)
(* answer of an upload ever breaks this.                                   *)
JournalOfThisTrip == trip # NoTrip /\ ~crossed => journal.trip = trip

(* What the page shows is what a reload would bring back, unless the last  *)
(* save found no room: again only a late upload answer breaks this. A text *)
(* that is too long is shown and saved like any other, and a reload brings *)
(* back none of the notebook, neither its photos nor its expenses.         *)
ScreenIsStored ==
    trip # NoTrip /\ saved /\ ~crossed
        => LoadJournal(trip) = IF Fits(journal) THEN journal ELSE EmptyJournal(trip)

(* A photo is attached to the stop it was taken for and is on the server,  *)
(* however many uploads overlap: in the page, in storage and in what a     *)
(* pending upload will write back.                                         *)
PhotoOnItsStop ==
    \A j \in {journal, stored} \cup {u.seen : u \in uploads} : \A s \in Stops :
        j.checkIns[s].photo # 0 => [id |-> j.checkIns[s].photo, stop |-> s] \in photos

(* A spinning button has an upload of its stop, from this page, under way. *)
SpinnerHasUpload ==
    slot # "none" => \E u \in uploads : u.stop = slot /\ u.mount = mount

(* The ratings on screen go into a build of the same trip, though it reads *)
(* them from storage under the id of the trip to be built: LivePanel.tsx   *)
(* tells the travellers so. Ratings of a stop that lost its page, whose    *)
(* save found no room, or beside a text that is too long are excepted.     *)
TasteOfThisTrip ==
    trip # NoTrip /\ saved /\ ~crossed /\ Fits(journal) => TasteFor(trip) = LearnedTaste(journal)

(* What is on screen is the notebook of the trip on screen, would come     *)
(* back with a reload, and is what the next build learns from, the last    *)
(* two as long as no text in it is too long.                               *)
NotebookOfThisTrip == TypeOK /\ JournalOfThisTrip /\ ScreenIsStored /\ TasteOfThisTrip

(* Every upload ends where it belongs: its photo at its stop, its spinner  *)
(* with it.                                                                *)
UploadsLand == PhotoOnItsStop /\ SpinnerHasUpload
=============================================================================
