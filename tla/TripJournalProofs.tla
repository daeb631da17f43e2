------------------------- MODULE TripJournalProofs -------------------------
(***************************************************************************)
(* Proofs about the notebook of the road: what an upload may and may not   *)
(* do to it, and what the page and the device agree on, for every set of   *)
(* trips, stops and labels and every number of uploads and expenses. The   *)
(* first two invariants leave the expenses untyped; the types come last.   *)
(***************************************************************************)
EXTENDS TripJournal, FiniteSetTheorems, NaturalsInduction, WellFoundedInduction, TLAPS

\* A journal: three fields, and a check-in for each stop.
IsJournal(j) ==
    /\ j = [trip |-> j.trip, checkIns |-> j.checkIns, expenses |-> j.expenses]
    /\ j.checkIns \in [Stops -> CheckIns]

\* Every photo of j is among those kept, under the stop it is attached to.
OnItsStop(j, kept) ==
    \A s \in Stops :
        j.checkIns[s].photo # 0 => [id |-> j.checkIns[s].photo, stop |-> s] \in kept

GoodJournal(j, kept) == IsJournal(j) /\ OnItsStop(j, kept)

Upload(u) ==
    /\ u = [id |-> u.id, stop |-> u.stop, mount |-> u.mount, seen |-> u.seen]
    /\ u.id \in PhotoIds /\ u.stop \in Stops

GoodJournals ==
    /\ GoodJournal(journal, photos) /\ GoodJournal(stored, photos)
    /\ \A u \in uploads : GoodJournal(u.seen, photos)

IInv ==
    /\ trip \in Trips \cup {NoTrip}
    /\ GoodJournals
    /\ \A u \in uploads : Upload(u)
    /\ SpinnerHasUpload

-----------------------------------------------------------------------------
(* What the operations do to a journal.                                    *)

LEMMA EmptyIsGood ==
    ASSUME NEW t, NEW kept
    PROVE  GoodJournal(EmptyJournal(t), kept)
<1>1. Blank \in CheckIns
  BY DEF Blank, CheckIns
<1>. QED
  BY <1>1 DEF GoodJournal, IsJournal, OnItsStop, EmptyJournal, Blank

LEMMA NoJournalIsGood ==
    ASSUME NEW kept
    PROVE  GoodJournal(NoJournal, kept)
<1>. DEFINE e == EmptyJournal(CHOOSE t \in Trips : TRUE)
<1>1. GoodJournal(e, kept)
  BY EmptyIsGood
<1>2. NoJournal = [e EXCEPT !.trip = NoTrip]
  BY DEF NoJournal
<1>3. NoJournal = [trip |-> NoTrip, checkIns |-> e.checkIns, expenses |-> e.expenses]
  BY <1>2 DEF EmptyJournal
<1>. QED
  BY <1>1, <1>3 DEF GoodJournal, IsJournal, OnItsStop

LEMMA LoadedIsGood ==
    ASSUME NEW t, NEW kept, GoodJournal(stored, kept)
    PROVE  GoodJournal(LoadJournal(t), kept)
BY EmptyIsGood DEF LoadJournal

\* A check-in whose photo is on the server may be written into a journal.
LEMMA UpsertIsGood ==
    ASSUME NEW kept, NEW j, GoodJournal(j, kept), NEW s \in Stops, NEW c \in CheckIns,
           c.photo # 0 => [id |-> c.photo, stop |-> s] \in kept
    PROVE  /\ GoodJournal(UpsertCheckIn(j, s, c), kept)
           /\ UpsertCheckIn(j, s, c).trip = j.trip
<1>. DEFINE n == UpsertCheckIn(j, s, c)
            m == [j.checkIns EXCEPT ![s] = c]
<1>1. j = [trip |-> j.trip, checkIns |-> j.checkIns, expenses |-> j.expenses]
  BY DEF GoodJournal, IsJournal
<1>2. n = [trip |-> j.trip, checkIns |-> m, expenses |-> j.expenses]
  BY <1>1 DEF UpsertCheckIn
<1>3. m \in [Stops -> CheckIns] /\ \A r \in Stops : m[r] = IF r = s THEN c ELSE j.checkIns[r]
  BY DEF GoodJournal, IsJournal
<1>4. n.trip = j.trip /\ n.checkIns = m /\ n.expenses = j.expenses
  BY <1>2
<1>5. IsJournal(n)
  BY <1>2, <1>3, <1>4 DEF IsJournal
<1>6. OnItsStop(n, kept)
  BY <1>3, <1>4 DEF GoodJournal, OnItsStop
<1>. QED
  BY <1>4, <1>5, <1>6 DEF GoodJournal

\* The expenses of a journal are nothing to its photos.
LEMMA ExpensesIsGood ==
    ASSUME NEW kept, NEW j, GoodJournal(j, kept), NEW x
    PROVE  /\ GoodJournal([j EXCEPT !.expenses = x], kept)
           /\ [j EXCEPT !.expenses = x].trip = j.trip
<1>1. j = [trip |-> j.trip, checkIns |-> j.checkIns, expenses |-> j.expenses]
  BY DEF GoodJournal, IsJournal
<1>2. [j EXCEPT !.expenses = x]
        = [trip |-> j.trip, checkIns |-> j.checkIns, expenses |-> x]
  BY <1>1
<1>. QED
  BY <1>2 DEF GoodJournal, IsJournal, OnItsStop

\* Photos are only added on the server: what was good stays good.
LEMMA GoodStays ==
    ASSUME NEW kept, NEW more, kept \subseteq more, NEW j, GoodJournal(j, kept)
    PROVE  GoodJournal(j, more)
BY DEF GoodJournal, IsJournal, OnItsStop

-----------------------------------------------------------------------------
(* Uploads land: the invariant and its preservation.                       *)

LEMMA InvInit == Init => IInv
BY NoJournalIsGood DEF Init, IInv, GoodJournals, SpinnerHasUpload

\* An edit of the page on screen saves a good journal or leaves the one kept.
LEMMA EditKeeps ==
    ASSUME IInv, NEW next, GoodJournal(next, photos),
           UpdateJournal(mount, next),
           UNCHANGED <<page, uploads, slot, photos, crossed>>
    PROVE  IInv'
<1>1. journal' = next /\ stored' \in {next, stored}
  BY DEF UpdateJournal
<1>2. GoodJournals'
  BY <1>1 DEF IInv, GoodJournals
<1>3. SpinnerHasUpload'
  BY DEF IInv, SpinnerHasUpload, page
<1>. QED
  BY <1>2, <1>3 DEF IInv, page

LEMMA MarkKeeps ==
    ASSUME IInv, NEW s \in Stops, NEW marks \in SUBSET Marks,
           MarkCheckIn(s, marks),
           UNCHANGED <<page, uploads, slot, photos, crossed>>
    PROVE  IInv'
<1>. DEFINE c == [journal.checkIns[s] EXCEPT !.marks = marks]
<1>1. GoodJournal(journal, photos)
  BY DEF IInv, GoodJournals
<1>2. journal.checkIns[s] \in CheckIns
  BY <1>1 DEF GoodJournal, IsJournal
<1>3. c \in CheckIns /\ c.photo = journal.checkIns[s].photo
  BY <1>2 DEF CheckIns
<1>4. c.photo # 0 => [id |-> c.photo, stop |-> s] \in photos
  BY <1>1, <1>3 DEF GoodJournal, OnItsStop
<1>. HIDE DEF c
<1>5. GoodJournal(UpsertCheckIn(journal, s, c), photos)
  BY <1>1, <1>3, <1>4, UpsertIsGood
<1>6. UpdateJournal(mount, UpsertCheckIn(journal, s, c))
  BY DEF MarkCheckIn, c
<1>. QED
  BY <1>5, <1>6, EditKeeps

LEMMA NoteKeeps ==
    ASSUME IInv, NEW s \in Stops, Note(s)
    PROVE  IInv'
<1>1. journal.checkIns[s].marks \in SUBSET Marks
  BY DEF IInv, GoodJournals, GoodJournal, IsJournal, CheckIns
<1>2. PICK given \in SUBSET (Marks \ {"rated"}) :
          MarkCheckIn(s, (journal.checkIns[s].marks \cap {"rated"}) \cup given)
  BY DEF Note
<1>3. (journal.checkIns[s].marks \cap {"rated"}) \cup given \in SUBSET Marks
  BY <1>1, <1>2
<1>. QED
  BY <1>2, <1>3, MarkKeeps DEF Note

LEMMA RateKeeps ==
    ASSUME IInv, NEW s \in Stops, Rate(s)
    PROVE  IInv'
<1>1. journal.checkIns[s].marks \in SUBSET Marks
  BY DEF IInv, GoodJournals, GoodJournal, IsJournal, CheckIns
<1>2. journal.checkIns[s].marks \cup {"rated"} \in SUBSET Marks
  BY <1>1 DEF Rate
<1>. QED
  BY <1>2, MarkKeeps DEF Rate

LEMMA RemovePhotoKeeps ==
    ASSUME IInv, NEW s \in Stops, RemovePhoto(s)
    PROVE  IInv'
<1>. DEFINE c == [journal.checkIns[s] EXCEPT !.photo = 0]
<1>1. GoodJournal(journal, photos)
  BY DEF IInv, GoodJournals
<1>2. c \in CheckIns /\ c.photo = 0
  BY <1>1 DEF GoodJournal, IsJournal, CheckIns
<1>. HIDE DEF c
<1>3. GoodJournal(UpsertCheckIn(journal, s, c), photos)
  BY <1>1, <1>2, UpsertIsGood
<1>4. UpdateJournal(mount, UpsertCheckIn(journal, s, c))
  BY DEF RemovePhoto, c
<1>. QED
  BY <1>3, <1>4, EditKeeps DEF RemovePhoto

LEMMA AddExpenseKeeps ==
    ASSUME IInv, NEW l \in Labels, AddExpense(l)
    PROVE  IInv'
<1>1. GoodJournal(journal, photos)
  BY DEF IInv, GoodJournals
<1>2. PICK x : UpdateJournal(mount, [journal EXCEPT !.expenses = x])
  BY DEF AddExpense
<1>. QED
  BY <1>1, <1>2, ExpensesIsGood, EditKeeps DEF AddExpense

LEMMA DeleteExpenseKeeps ==
    ASSUME IInv, NEW i \in DOMAIN journal.expenses, DeleteExpense(i)
    PROVE  IInv'
<1>1. GoodJournal(journal, photos)
  BY DEF IInv, GoodJournals
<1>2. PICK x : UpdateJournal(mount, [journal EXCEPT !.expenses = x])
  BY DEF DeleteExpense
<1>. QED
  BY <1>1, <1>2, ExpensesIsGood, EditKeeps DEF DeleteExpense

LEMMA LeastIsThere ==
    ASSUME NEW T \in SUBSET Nat, T # {}
    PROVE  Min(T) \in T
<1>1. PICK x \in T : \A y \in T : ~(<<y, x>> \in OpToRel(<, Nat))
  BY NatLessThanWellFounded, WFMin
<1>2. \A y \in T : ~(y < x)
  BY <1>1 DEF OpToRel
<1>3. \A y \in T : x <= y
  BY <1>2
<1>. QED
  BY <1>3 DEF Min

LEMMA AttachKeeps ==
    ASSUME IInv, NEW s \in Stops, AttachPhoto(s)
    PROVE  IInv'
<1>. DEFINE u == [id |-> Min(FreeIds), stop |-> s, mount |-> mount, seen |-> journal]
<1>1. Min(FreeIds) \in PhotoIds
  BY LeastIsThere, JournalBounds DEF AttachPhoto, FreeIds, PhotoIds
<1>2. Upload(u) /\ u.stop = s /\ u.mount = mount /\ u.seen = journal
  BY <1>1 DEF Upload
<1>. HIDE DEF u
<1>3. uploads' = uploads \cup {u} /\ slot' = s
  BY DEF AttachPhoto, u
<1>4. UNCHANGED <<trip, mount, journal, stored, photos>>
  BY DEF AttachPhoto, page
<1>5. GoodJournals'
  BY <1>2, <1>3, <1>4 DEF IInv, GoodJournals
<1>6. SpinnerHasUpload'
  BY <1>2, <1>3, <1>4 DEF SpinnerHasUpload
<1>. QED
  BY <1>2, <1>3, <1>4, <1>5, <1>6 DEF IInv

\* An upload that ends takes the spinner of its own page with it.
LEMMA SpinnerEnds ==
    ASSUME SpinnerHasUpload, NEW u \in uploads,
           uploads' = uploads \ {u}, slot' = SlotAfter(u), mount' = mount
    PROVE  SpinnerHasUpload'
BY DEF SpinnerHasUpload, SlotAfter

\* The journal an answered upload writes is good once its photo is kept.
LEMMA AnswerIsGood ==
    ASSUME IInv, NEW u \in uploads, NEW kept,
           kept = photos \cup {[id |-> u.id, stop |-> u.stop]}
    PROVE  LET next == UpsertCheckIn(u.seen, PhotoStop(u),
                           [u.seen.checkIns[PhotoStop(u)] EXCEPT !.photo = u.id])
           IN  GoodJournal(next, kept) /\ next.trip = u.seen.trip
<1>. DEFINE c == [u.seen.checkIns[PhotoStop(u)] EXCEPT !.photo = u.id]
<1>1. GoodJournal(u.seen, kept)
  BY GoodStays DEF IInv, GoodJournals
<1>2. u.id \in PhotoIds /\ PhotoStop(u) = u.stop /\ u.stop \in Stops
  BY DEF IInv, Upload, PhotoStop
<1>3. c \in CheckIns /\ c.photo = u.id
  BY <1>1, <1>2 DEF GoodJournal, IsJournal, CheckIns
<1>. HIDE DEF c
<1>4. [id |-> c.photo, stop |-> PhotoStop(u)] \in kept /\ PhotoStop(u) \in Stops
  BY <1>2, <1>3
<1>5. /\ GoodJournal(UpsertCheckIn(u.seen, PhotoStop(u), c), kept)
      /\ UpsertCheckIn(u.seen, PhotoStop(u), c).trip = u.seen.trip
  BY <1>1, <1>3, <1>4, UpsertIsGood
<1>. QED
  BY <1>5 DEF c

LEMMA AnswerKeeps ==
    ASSUME IInv, NEW u \in uploads, PhotoAnswer(u)
    PROVE  IInv'
<1>. DEFINE next == UpsertCheckIn(u.seen, PhotoStop(u),
                        [u.seen.checkIns[PhotoStop(u)] EXCEPT !.photo = u.id])
<1>1. photos' = photos \cup {[id |-> u.id, stop |-> u.stop]} /\ photos \subseteq photos'
  BY DEF PhotoAnswer
<1>2. GoodJournal(next, photos')
  BY <1>1, AnswerIsGood
<1>. HIDE DEF next
<1>3. journal' \in {next, journal} /\ stored' \in {next, stored}
  BY DEF PhotoAnswer, UpdateJournal, next
<1>4. uploads' = uploads \ {u} /\ slot' = SlotAfter(u) /\ UNCHANGED page
  BY DEF PhotoAnswer
<1>5. GoodJournals'
  BY <1>1, <1>2, <1>3, <1>4, GoodStays DEF IInv, GoodJournals
<1>6. SpinnerHasUpload'
  BY <1>4, SpinnerEnds DEF IInv, page
<1>. QED
  BY <1>4, <1>5, <1>6 DEF IInv, page

LEMMA FailureKeeps ==
    ASSUME IInv, NEW u \in uploads, UploadFails(u)
    PROVE  IInv'
<1>1. photos \subseteq photos'
  BY DEF UploadFails
<1>2. /\ uploads' = uploads \ {u} /\ slot' = SlotAfter(u)
      /\ UNCHANGED <<trip, mount, journal, stored>>
  BY DEF UploadFails, page
<1>3. GoodJournals'
  BY <1>1, <1>2, GoodStays DEF IInv, GoodJournals
<1>4. SpinnerHasUpload'
  BY <1>2, SpinnerEnds DEF IInv
<1>. QED
  BY <1>2, <1>3, <1>4 DEF IInv

\* A page that opens, closes or reloads has a good journal and no spinner.
LEMMA PageKeeps ==
    ASSUME IInv, trip' \in Trips \cup {NoTrip},
           Unload \/ \E t \in Trips : Load(t),
           uploads' \subseteq uploads, slot' = "none",
           UNCHANGED <<stored, photos>>
    PROVE  IInv'
<1>1. GoodJournal(journal', photos)
  BY NoJournalIsGood, LoadedIsGood DEF IInv, GoodJournals, Load, Unload
<1>2. GoodJournals'
  BY <1>1 DEF IInv, GoodJournals
<1>3. SpinnerHasUpload'
  BY DEF SpinnerHasUpload
<1>. QED
  BY <1>2, <1>3 DEF IInv

LEMMA RebuildKeeps ==
    ASSUME IInv, NEW t \in Trips, RebuildTo(t)
    PROVE  IInv'
<1>1. GoodJournal(journal', photos)
  BY LoadedIsGood DEF RebuildTo, Load, IInv, GoodJournals
<1>2. trip' = t /\ UNCHANGED <<mount, stored, uploads, slot, photos>>
  BY DEF RebuildTo
<1>3. GoodJournals'
  BY <1>1, <1>2 DEF IInv, GoodJournals
<1>4. SpinnerHasUpload'
  BY <1>2 DEF IInv, SpinnerHasUpload
<1>. QED
  BY <1>2, <1>3, <1>4 DEF IInv

LEMMA InvNext == IInv /\ [Next]_vars => IInv'
<1>. SUFFICES ASSUME IInv, [Next]_vars
              PROVE  IInv'
  OBVIOUS
<1>1. CASE \E s \in Stops : Note(s) \/ Rate(s) \/ AttachPhoto(s) \/ RemovePhoto(s)
  BY <1>1, NoteKeeps, RateKeeps, AttachKeeps, RemovePhotoKeeps
<1>2. CASE \E l \in Labels : AddExpense(l)
  BY <1>2, AddExpenseKeeps
<1>3. CASE \E i \in DOMAIN journal.expenses : DeleteExpense(i)
  BY <1>3, DeleteExpenseKeeps
<1>4. CASE \E u \in uploads : PhotoAnswer(u) \/ UploadFails(u)
  BY <1>4, AnswerKeeps, FailureKeeps
<1>5. CASE \E t \in Trips : OpenPage(t)
  BY <1>5, PageKeeps DEF OpenPage
<1>6. CASE \E t \in Trips : RebuildTo(t)
  BY <1>6, RebuildKeeps
<1>7. CASE LeavePage
  BY <1>7, PageKeeps DEF LeavePage
<1>8. CASE Reload
  BY <1>8, PageKeeps DEF Reload
<1>9. CASE UNCHANGED vars
  BY <1>9 DEF IInv, GoodJournals, SpinnerHasUpload, vars
<1>. QED
  BY <1>1, <1>2, <1>3, <1>4, <1>5, <1>6, <1>7, <1>8, <1>9 DEF Next

LEMMA JournalInvariant == Spec => []IInv
BY InvInit, InvNext, PTL DEF Spec

(* A photo is attached to the stop it was taken for, in the page, on the   *)
(* device and in what every upload under way will write back, and a button *)
(* spins only while its upload is under way, however many uploads of       *)
(* however many pages overlap, are lost or answer late (LivePanel.tsx,     *)
(* attachPhoto).                                                           *)
THEOREM UploadsAlwaysLand == Spec => []UploadsLand
<1>1. IInv => UploadsLand
  BY DEF IInv, GoodJournals, GoodJournal, OnItsStop, UploadsLand, PhotoOnItsStop
<1>. QED
  BY <1>1, JournalInvariant, PTL

-----------------------------------------------------------------------------
(* The page and the device agree.                                          *)

Agreement == JournalOfThisTrip /\ ScreenIsStored

LEMMA LoadAgrees ==
    ASSUME NEW t \in Trips
    PROVE  LoadJournal(t).trip = t
BY DEF LoadJournal, EmptyJournal

\* A page that shows what its trip's slot holds agrees with the device.
LEMMA LoadedAgrees ==
    ASSUME stored' = stored,
           \/ Unload /\ trip' = NoTrip
           \/ \E t \in Trips : trip' = t /\ Load(t)
    PROVE  Agreement'
BY LoadAgrees DEF Agreement, JournalOfThisTrip, ScreenIsStored, Load, Unload, LoadJournal

\* An edit of the journal on screen keeps the trip, and saves what it shows.
LEMMA EditAgrees ==
    ASSUME Agreement, NEW next, next.trip = journal.trip,
           UpdateJournal(mount, next), UNCHANGED trip, crossed' \/ ~crossed
    PROVE  Agreement'
<1>1. journal' = next /\ (saved' => stored' = next)
  BY DEF UpdateJournal
<1>2. CASE trip # NoTrip /\ ~crossed'
  <2>1. journal.trip = trip
    BY <1>2 DEF Agreement, JournalOfThisTrip
  <2>. QED
    BY <1>1, <1>2, <2>1 DEF Agreement, JournalOfThisTrip, ScreenIsStored, LoadJournal
<1>3. CASE ~(trip # NoTrip /\ ~crossed')
  BY <1>3 DEF Agreement, JournalOfThisTrip, ScreenIsStored
<1>. QED
  BY <1>2, <1>3

\* The trip of a journal is nothing an edit of it writes.
LEMMA EditsKeepTrip ==
    ASSUME IInv, NEW s, NEW c, NEW x
    PROVE  /\ UpsertCheckIn(journal, s, c).trip = journal.trip
           /\ [journal EXCEPT !.expenses = x].trip = journal.trip
<1>1. journal = [trip |-> journal.trip, checkIns |-> journal.checkIns,
                 expenses |-> journal.expenses]
  BY DEF IInv, GoodJournals, GoodJournal, IsJournal
<1>. QED
  BY <1>1 DEF UpsertCheckIn

\* The edits of a page on screen.
LEMMA FormAgrees ==
    ASSUME IInv, Agreement, NEW s \in Stops, Note(s) \/ Rate(s) \/ RemovePhoto(s)
    PROVE  Agreement'
<1>1. PICK c : UpdateJournal(mount, UpsertCheckIn(journal, s, c))
  BY DEF Note, Rate, RemovePhoto, MarkCheckIn
<1>2. UNCHANGED <<trip, crossed>>
  BY DEF Note, Rate, RemovePhoto, page
<1>. QED
  BY <1>1, <1>2, EditsKeepTrip, EditAgrees

LEMMA ExpensesAgree ==
    ASSUME IInv, Agreement,
           \/ \E l \in Labels : AddExpense(l)
           \/ \E i \in DOMAIN journal.expenses : DeleteExpense(i)
    PROVE  Agreement'
<1>1. PICK x : UpdateJournal(mount, [journal EXCEPT !.expenses = x])
  BY DEF AddExpense, DeleteExpense
<1>2. UNCHANGED <<trip, crossed>>
  BY DEF AddExpense, DeleteExpense, page
<1>. QED
  BY <1>1, <1>2, EditsKeepTrip, EditAgrees

\* An answer that meets another journal than it saw is the exception stated;
\* one that does not writes what is on screen with its photo.
LEMMA AnswerAgrees ==
    ASSUME IInv, Agreement, NEW u \in uploads, PhotoAnswer(u)
    PROVE  Agreement'
<1>1. CASE crossed'
  BY <1>1 DEF Agreement, JournalOfThisTrip, ScreenIsStored
<1>2. CASE ~crossed'
  <2>1. ~crossed /\ u.mount = mount /\ u.seen = journal /\ UNCHANGED trip
    BY <1>2 DEF PhotoAnswer, page
  <2>2. PICK c : UpdateJournal(mount, UpsertCheckIn(journal, PhotoStop(u), c))
    BY <2>1 DEF PhotoAnswer
  <2>. QED
    BY <2>1, <2>2, EditsKeepTrip, EditAgrees
<1>. QED
  BY <1>1, <1>2

LEMMA AgreementInit == Init => Agreement
BY DEF Init, Agreement, JournalOfThisTrip, ScreenIsStored

LEMMA AgreementNext == IInv /\ Agreement /\ [Next]_vars => Agreement'
<1>. SUFFICES ASSUME IInv, Agreement, [Next]_vars
              PROVE  Agreement'
  OBVIOUS
<1>1. CASE \E s \in Stops : Note(s) \/ Rate(s) \/ RemovePhoto(s)
  BY <1>1, FormAgrees
<1>2. CASE \/ \E l \in Labels : AddExpense(l)
           \/ \E i \in DOMAIN journal.expenses : DeleteExpense(i)
  BY <1>2, ExpensesAgree
<1>3. CASE \E u \in uploads : PhotoAnswer(u)
  BY <1>3, AnswerAgrees
<1>4. CASE UNCHANGED <<trip, journal, stored, saved, crossed>>
  BY <1>4 DEF Agreement, JournalOfThisTrip, ScreenIsStored, LoadJournal
<1>5. CASE \/ \E s \in Stops : AttachPhoto(s)
           \/ \E u \in uploads : UploadFails(u)
           \/ UNCHANGED vars
  BY <1>4, <1>5 DEF AttachPhoto, UploadFails, vars, page
<1>6. CASE \E t \in Trips : OpenPage(t)
  BY <1>6, LoadedAgrees DEF OpenPage
<1>7. CASE LeavePage \/ Reload
  BY <1>7, LoadedAgrees DEF LeavePage, Reload
<1>8. ASSUME NEW t \in Trips, RebuildTo(t)
      PROVE  Agreement'
  <2>1. trip' = t /\ stored' = stored
    BY <1>8 DEF RebuildTo
  <2>2. CASE t # trip
    BY <1>8, <2>1, <2>2, LoadedAgrees DEF RebuildTo
  <2>3. CASE t = trip
    BY <1>4, <1>8, <2>1, <2>3 DEF RebuildTo
  <2>. QED
    BY <2>2, <2>3
<1>. QED
  BY <1>1, <1>2, <1>3, <1>5, <1>6, <1>7, <1>8 DEF Next

-----------------------------------------------------------------------------
(* Types.                                                                  *)

\* An id is of one upload, so that there are fewer uploads than mounts.
UploadsApart == \A u, v \in uploads : u.id = v.id => u = v

TypeInv ==
    /\ TypeOK
    /\ trip # NoTrip => journal \in Journals
    /\ UploadsApart

LEMMA EmptyTyped ==
    ASSUME NEW t \in Trips
    PROVE  EmptyJournal(t) \in Journals
<1>1. Blank \in CheckIns
  BY DEF Blank, CheckIns
<1>2. [place \in {} |-> Blank] \in [{} -> Expenses]
  OBVIOUS
<1>3. [place \in {} |-> Blank] \in Rows
  BY <1>2 DEF Rows
<1>4. [s \in Stops |-> Blank] \in [Stops -> CheckIns]
  BY <1>1
<1>. QED
  BY <1>3, <1>4 DEF EmptyJournal, Journals

LEMMA LoadedTyped ==
    ASSUME TypeInv, NEW t \in Trips
    PROVE  LoadJournal(t) \in Journals
<1>1. CASE Fits(stored) /\ stored.trip = t
  <2>1. NoJournal.trip = NoTrip
    BY DEF NoJournal, EmptyJournal
  <2>2. stored # NoJournal
    BY <1>1, <2>1, NoTripIsNoTrip
  <2>. QED
    BY <1>1, <2>2 DEF TypeInv, TypeOK, LoadJournal
<1>2. CASE ~(Fits(stored) /\ stored.trip = t)
  BY <1>2, EmptyTyped DEF LoadJournal
<1>. QED
  BY <1>1, <1>2

\* The fields of a journal, and a journal of three fields.
LEMMA JournalFields ==
    ASSUME NEW j \in Journals
    PROVE  /\ j = [trip |-> j.trip, checkIns |-> j.checkIns, expenses |-> j.expenses]
           /\ j.trip \in Trips /\ j.checkIns \in [Stops -> CheckIns] /\ j.expenses \in Rows
BY DEF Journals

LEMMA UpsertTyped ==
    ASSUME NEW j \in Journals, NEW s \in Stops, NEW c \in CheckIns
    PROVE  UpsertCheckIn(j, s, c) \in Journals
<1>1. UpsertCheckIn(j, s, c) = [trip |-> j.trip, checkIns |-> [j.checkIns EXCEPT ![s] = c],
                                expenses |-> j.expenses]
  BY JournalFields DEF UpsertCheckIn
<1>2. [j.checkIns EXCEPT ![s] = c] \in [Stops -> CheckIns]
  BY JournalFields
<1>. QED
  BY <1>1, <1>2, JournalFields DEF Journals

LEMMA ExpensesTyped ==
    ASSUME NEW j \in Journals, NEW rows \in Rows
    PROVE  [j EXCEPT !.expenses = rows] \in Journals
<1>1. [j EXCEPT !.expenses = rows] = [trip |-> j.trip, checkIns |-> j.checkIns, expenses |-> rows]
  BY JournalFields
<1>. QED
  BY <1>1, JournalFields DEF Journals

\* A list that is not full has a place, and its length for a number.
LEMMA RowsGrow ==
    ASSUME NEW rows \in Rows, NEW label \in Labels, Cardinality(DOMAIN rows) < MaxExpenses
    PROVE  WithRow(rows, label) \in Rows
<1>. DEFINE free == (1 .. MaxExpenses) \ DOMAIN rows
            place == Min(free)
            added == [number |-> Cardinality(DOMAIN rows), label |-> label]
<1>1. PICK places \in SUBSET (1 .. MaxExpenses) : rows \in [places -> Expenses]
  BY DEF Rows
<1>2. DOMAIN rows = places
  BY <1>1
<1>3. IsFiniteSet(1 .. MaxExpenses) /\ Cardinality(1 .. MaxExpenses) = MaxExpenses
  BY FS_Interval, JournalBounds
<1>4. IsFiniteSet(places) /\ Cardinality(places) \in Nat
  BY <1>3, FS_Subset, FS_CardinalityType
<1>5. free # {}
  <2>1. places # 1 .. MaxExpenses
    BY <1>2, <1>3, JournalBounds
  <2>. QED
    BY <1>2, <2>1
<1>6. place \in free
  <2>1. free \in SUBSET Nat
    BY JournalBounds
  <2>. HIDE DEF free
  <2>. QED
    BY <1>5, <2>1, LeastIsThere
<1>7. added \in Expenses
  BY <1>2, <1>4, JournalBounds DEF Expenses
<1>8. WithRow(rows, label) = [p \in places \cup {place} |-> IF p = place THEN added ELSE rows[p]]
  BY <1>2 DEF WithRow
<1>9. places \cup {place} \in SUBSET (1 .. MaxExpenses)
  BY <1>6
<1>. HIDE DEF added, place
<1>10. WithRow(rows, label) \in [places \cup {place} -> Expenses]
  BY <1>1, <1>7, <1>8
<1>. QED
  BY <1>9, <1>10 DEF Rows

LEMMA RowsShrink ==
    ASSUME NEW rows \in Rows, NEW e
    PROVE  WithoutId(rows, e) \in Rows
<1>1. PICK places \in SUBSET (1 .. MaxExpenses) : rows \in [places -> Expenses]
  BY DEF Rows
<1>2. PICK kept : kept = {q \in places : rows[q] # e}
  OBVIOUS
<1>3. WithoutId(rows, e) \in [kept -> Expenses]
  BY <1>1, <1>2 DEF WithoutId
<1>4. kept \in SUBSET (1 .. MaxExpenses)
  BY <1>2
<1>. QED
  BY <1>3, <1>4 DEF Rows

\* There is always a mount no upload under way was started on: uploads have
\* an id each, and there is one mount more than ids.
LEMMA MountIsFree ==
    ASSUME TypeInv
    PROVE  Min(Mounts \ {u.mount : u \in uploads}) \in Mounts
<1>. DEFINE ids == {u.id : u \in uploads}
            taken == {u.mount : u \in uploads}
            Of == [i \in ids |-> (CHOOSE u \in uploads : u.id = i).mount]
<1>1. MaxUploads \in Nat
  BY JournalBounds
<1>2. ids \subseteq PhotoIds /\ taken \subseteq Mounts
  BY DEF TypeInv, TypeOK
<1>3. IsFiniteSet(PhotoIds) /\ Cardinality(PhotoIds) = MaxUploads
  BY <1>1, FS_Interval DEF PhotoIds
<1>4. IsFiniteSet(Mounts) /\ Cardinality(Mounts) = MaxUploads + 1
  BY <1>1, FS_Interval DEF Mounts
<1>5. IsFiniteSet(ids) /\ Cardinality(ids) <= MaxUploads
  BY <1>2, <1>3, FS_Subset
<1>6. \A u \in uploads : u.id \in ids /\ Of[u.id] = u.mount
  <2>. SUFFICES ASSUME NEW u \in uploads
                PROVE  Of[u.id] = u.mount
    OBVIOUS
  <2>1. (CHOOSE v \in uploads : v.id = u.id) = u
    BY DEF TypeInv, UploadsApart
  <2>. QED
    BY <2>1
<1>7. Of \in Surjection(ids, taken)
  <2>1. Of \in [ids -> taken]
    <3>1. \A i \in ids : Of[i] \in taken
      BY <1>6
    <3>. QED
      BY <3>1
  <2>2. \A m \in taken : \E i \in ids : Of[i] = m
    BY <1>6
  <2>. QED
    BY <2>1, <2>2 DEF Surjection
<1>8. IsFiniteSet(taken) /\ Cardinality(taken) <= Cardinality(ids)
  BY <1>5, <1>7, FS_Surjection
<1>9. Mounts \ taken # {}
  <2>1. Cardinality(ids) \in Nat /\ Cardinality(taken) \in Nat
    BY <1>5, <1>8, FS_CardinalityType
  <2>2. taken # Mounts
    BY <1>1, <1>4, <1>5, <1>8, <2>1
  <2>. QED
    BY <1>2, <2>2
<1>10. Mounts \ taken \in SUBSET Nat
  BY <1>1 DEF Mounts
<1>. HIDE DEF taken
<1>. QED
  BY <1>9, <1>10, LeastIsThere DEF taken

\* What an update of a page leaves in page and storage is a journal.
LEMMA UpdateTyped ==
    ASSUME TypeInv, NEW m, NEW next \in Journals, UpdateJournal(m, next)
    PROVE  /\ journal' \in Journals \cup {NoJournal}
           /\ trip # NoTrip => journal' \in Journals
           /\ stored' \in Journals \cup {NoJournal} /\ saved' \in BOOLEAN
BY DEF UpdateJournal, TypeInv, TypeOK

LEMMA EditTyped ==
    ASSUME TypeInv, NEW next \in Journals, UpdateJournal(mount, next),
           UNCHANGED <<page, uploads, slot, photos, crossed>>
    PROVE  TypeInv'
<1>1. /\ journal' \in Journals \cup {NoJournal} /\ (trip # NoTrip => journal' \in Journals)
      /\ stored' \in Journals \cup {NoJournal} /\ saved' \in BOOLEAN
  BY UpdateTyped
<1>2. UNCHANGED <<trip, mount, uploads, slot, photos, crossed>>
  BY DEF page
<1>3. TypeOK'
  BY <1>1, <1>2 DEF TypeInv, TypeOK
<1>. QED
  BY <1>1, <1>2, <1>3 DEF TypeInv, UploadsApart

LEMMA FormTyped ==
    ASSUME TypeInv, NEW s \in Stops, Note(s) \/ Rate(s) \/ RemovePhoto(s)
    PROVE  TypeInv'
<1>1. trip # NoTrip /\ journal \in Journals
  BY DEF Note, Rate, RemovePhoto, TypeInv
<1>2. journal.checkIns[s] \in CheckIns
  BY <1>1, JournalFields
<1>3. UNCHANGED <<page, uploads, slot, photos, crossed>>
  BY DEF Note, Rate, RemovePhoto
<1>4. PICK c \in CheckIns : UpdateJournal(mount, UpsertCheckIn(journal, s, c))
  <2>1. CASE Note(s)
    <3>1. PICK marks \in SUBSET Marks : MarkCheckIn(s, marks)
      BY <1>2, <2>1 DEF Note, CheckIns
    <3>. QED
      BY <1>2, <3>1 DEF MarkCheckIn, CheckIns
  <2>2. CASE Rate(s)
    <3>1. PICK marks \in SUBSET Marks : MarkCheckIn(s, marks)
      BY <1>2, <2>2 DEF Rate, CheckIns
    <3>. QED
      BY <1>2, <3>1 DEF MarkCheckIn, CheckIns
  <2>3. CASE RemovePhoto(s)
    BY <1>2, <2>3 DEF RemovePhoto, CheckIns
  <2>. QED
    BY <2>1, <2>2, <2>3
<1>5. UpsertCheckIn(journal, s, c) \in Journals
  BY <1>1, UpsertTyped
<1>. QED
  BY <1>3, <1>4, <1>5, EditTyped

LEMMA ListTyped ==
    ASSUME TypeInv,
           \/ \E l \in Labels : AddExpense(l)
           \/ \E i \in DOMAIN journal.expenses : DeleteExpense(i)
    PROVE  TypeInv'
<1>1. trip # NoTrip /\ UNCHANGED <<page, uploads, slot, photos, crossed>>
  BY DEF AddExpense, DeleteExpense
<1>2. journal \in Journals
  BY <1>1 DEF TypeInv
<1>3. PICK old : old = journal.expenses
  OBVIOUS
<1>4. old \in Rows
  BY <1>2, <1>3, JournalFields
<1>5. PICK rows \in Rows : UpdateJournal(mount, [journal EXCEPT !.expenses = rows])
  <2>1. CASE \E l \in Labels : AddExpense(l)
    <3>1. PICK l \in Labels : /\ Cardinality(DOMAIN old) < MaxExpenses
                              /\ UpdateJournal(mount, [journal EXCEPT !.expenses = WithRow(old, l)])
      BY <1>3, <2>1 DEF AddExpense
    <3>2. WithRow(old, l) \in Rows
      BY <1>4, <3>1, RowsGrow
    <3>. QED
      BY <3>1, <3>2
  <2>2. CASE \E i \in DOMAIN journal.expenses : DeleteExpense(i)
    <3>1. PICK e : UpdateJournal(mount, [journal EXCEPT !.expenses = WithoutId(old, e)])
      BY <1>3, <2>2 DEF DeleteExpense
    <3>2. WithoutId(old, e) \in Rows
      BY <1>4, RowsShrink
    <3>. QED
      BY <3>1, <3>2
  <2>. QED
    BY <2>1, <2>2
<1>6. [journal EXCEPT !.expenses = rows] \in Journals
  BY <1>2, ExpensesTyped
<1>. QED
  BY <1>1, <1>5, <1>6, EditTyped

LEMMA AttachTyped ==
    ASSUME TypeInv, NEW s \in Stops, AttachPhoto(s)
    PROVE  TypeInv'
<1>1. trip # NoTrip /\ journal \in Journals /\ mount \in Mounts
  BY DEF AttachPhoto, TypeInv, TypeOK
<1>2. PICK id : id = Min(FreeIds)
  OBVIOUS
<1>3. id \in FreeIds
  <2>1. FreeIds \in SUBSET Nat
    BY JournalBounds DEF FreeIds, PhotoIds
  <2>. QED
    BY <1>2, <2>1, LeastIsThere DEF AttachPhoto
<1>4. id \in PhotoIds /\ \A u \in uploads : u.id # id
  BY <1>3 DEF FreeIds
<1>5. PICK u : u = [id |-> id, stop |-> s, mount |-> mount, seen |-> journal]
  OBVIOUS
<1>6. uploads' = uploads \cup {u} /\ slot' = s /\ UNCHANGED <<trip, mount, journal, stored, saved, photos, crossed>>
  BY <1>2, <1>5 DEF AttachPhoto, page
<1>7. u \in [id : PhotoIds, stop : Stops, mount : Mounts, seen : Journals] /\ u.id = id
  BY <1>1, <1>4, <1>5
<1>8. TypeOK'
  BY <1>6, <1>7 DEF TypeInv, TypeOK
<1>9. UploadsApart'
  BY <1>4, <1>6, <1>7 DEF TypeInv, UploadsApart
<1>. QED
  BY <1>1, <1>6, <1>8, <1>9 DEF TypeInv

LEMMA UploadEndsTyped ==
    ASSUME TypeInv, NEW u \in uploads, PhotoAnswer(u) \/ UploadFails(u)
    PROVE  TypeInv'
<1>1. /\ u.id \in PhotoIds /\ u.stop \in Stops /\ u.mount \in Mounts /\ u.seen \in Journals
  BY DEF TypeInv, TypeOK
<1>2. /\ uploads' = uploads \ {u} /\ UNCHANGED <<trip, mount>>
      /\ slot' \in {"none", slot}
      /\ photos' \subseteq photos \cup {[id |-> u.id, stop |-> u.stop]}
      /\ crossed' \in BOOLEAN
  BY DEF PhotoAnswer, UploadFails, SlotAfter, page, TypeInv, TypeOK
<1>3. /\ journal' \in Journals \cup {NoJournal} /\ (trip # NoTrip => journal' \in Journals)
      /\ stored' \in Journals \cup {NoJournal} /\ saved' \in BOOLEAN
  <2>1. CASE PhotoAnswer(u)
    <3>1. u.seen.checkIns[u.stop] \in CheckIns
      BY <1>1, JournalFields
    <3>2. [u.seen.checkIns[u.stop] EXCEPT !.photo = u.id] \in CheckIns
      BY <1>1, <3>1 DEF CheckIns
    <3>3. PICK j, c : j = u.seen /\ c = [u.seen.checkIns[u.stop] EXCEPT !.photo = u.id]
      OBVIOUS
    <3>4. UpsertCheckIn(j, u.stop, c) \in Journals
      BY <1>1, <3>2, <3>3, UpsertTyped
    <3>5. UpdateJournal(u.mount, UpsertCheckIn(j, u.stop, c))
      BY <2>1, <3>3 DEF PhotoAnswer, PhotoStop
    <3>. QED
      BY <3>4, <3>5, UpdateTyped
  <2>2. CASE UploadFails(u)
    BY <2>2 DEF UploadFails, TypeInv, TypeOK
  <2>. QED
    BY <2>1, <2>2
<1>4. TypeOK'
  BY <1>1, <1>2, <1>3 DEF TypeInv, TypeOK
<1>5. UploadsApart'
  BY <1>2 DEF TypeInv, UploadsApart
<1>. QED
  BY <1>2, <1>3, <1>4, <1>5 DEF TypeInv

\* A page opens with a journal, and without one there is none.
LEMMA PageTyped ==
    ASSUME TypeInv, UNCHANGED <<stored, photos>>, uploads' \in {uploads, {}}, slot' \in {slot, "none"},
           \/ trip' = NoTrip /\ mount' = 0 /\ Unload
           \/ \E t \in Trips : trip' = t /\ mount' \in Mounts /\ Load(t)
    PROVE  TypeInv'
<1>1. /\ journal' \in Journals \cup {NoJournal} /\ saved' \in BOOLEAN /\ crossed' \in BOOLEAN
      /\ trip' \in Trips \cup {NoTrip} /\ mount' \in Mounts \cup {0}
      /\ trip' = NoTrip <=> mount' = 0
      /\ trip' # NoTrip => journal' \in Journals
  <2>1. CASE trip' = NoTrip /\ mount' = 0 /\ Unload
    BY <2>1 DEF Unload
  <2>2. CASE \E t \in Trips : trip' = t /\ mount' \in Mounts /\ Load(t)
    <3>1. PICK t \in Trips : trip' = t /\ mount' \in Mounts /\ Load(t)
      BY <2>2
    <3>2. journal' \in Journals /\ saved' = TRUE /\ crossed' = FALSE
      BY <3>1, LoadedTyped DEF Load
    <3>3. t # NoTrip
      BY NoTripIsNoTrip
    <3>4. mount' # 0
      BY <3>1, JournalBounds DEF Mounts
    <3>. QED
      BY <3>1, <3>2, <3>3, <3>4
  <2>. QED
    BY <2>1, <2>2
<1>2. TypeOK'
  BY <1>1 DEF TypeInv, TypeOK
<1>3. UploadsApart'
  BY DEF TypeInv, UploadsApart
<1>. QED
  BY <1>1, <1>2, <1>3 DEF TypeInv

LEMMA TypesInit == Init => TypeInv
<1>. SUFFICES ASSUME Init
              PROVE  TypeInv
  OBVIOUS
<1>1. /\ trip = NoTrip /\ mount = 0 /\ journal = NoJournal /\ stored = NoJournal /\ saved = TRUE
      /\ uploads = {} /\ slot = "none" /\ photos = {} /\ crossed = FALSE
  BY DEF Init
<1>2. TypeOK
  BY <1>1 DEF TypeOK
<1>. QED
  BY <1>1, <1>2 DEF TypeInv, UploadsApart

LEMMA TypesNext == TypeInv /\ [Next]_vars => TypeInv'
<1>. SUFFICES ASSUME TypeInv, [Next]_vars
              PROVE  TypeInv'
  OBVIOUS
<1>1. CASE \E s \in Stops : Note(s) \/ Rate(s) \/ RemovePhoto(s)
  BY <1>1, FormTyped
<1>2. CASE \E s \in Stops : AttachPhoto(s)
  BY <1>2, AttachTyped
<1>3. CASE \/ \E l \in Labels : AddExpense(l)
           \/ \E i \in DOMAIN journal.expenses : DeleteExpense(i)
  BY <1>3, ListTyped
<1>4. CASE \E u \in uploads : PhotoAnswer(u) \/ UploadFails(u)
  BY <1>4, UploadEndsTyped
<1>5. CASE \E t \in Trips : OpenPage(t)
  <2>1. Min(Mounts \ {u.mount : u \in uploads}) \in Mounts
    BY MountIsFree
  <2>2. \E t \in Trips : trip' = t /\ mount' \in Mounts /\ Load(t)
    BY <1>5, <2>1 DEF OpenPage
  <2>3. UNCHANGED <<stored, photos, uploads>> /\ slot' = "none"
    BY <1>5 DEF OpenPage
  <2>. QED
    BY <2>2, <2>3, PageTyped
<1>6. ASSUME NEW t \in Trips, RebuildTo(t)
      PROVE  TypeInv'
  <2>1. trip # NoTrip /\ trip' = t /\ UNCHANGED <<mount, stored, uploads, slot, photos>>
    BY <1>6 DEF RebuildTo
  <2>2. mount \in Mounts
    BY <2>1 DEF TypeInv, TypeOK
  <2>3. CASE t # trip
    <3>1. Load(t)
      BY <1>6, <2>3 DEF RebuildTo
    <3>. QED
      BY <2>1, <2>2, <3>1, PageTyped
  <2>4. CASE t = trip
    <3>1. UNCHANGED vars
      BY <1>6, <2>1, <2>4 DEF RebuildTo, vars, page
    <3>. QED
      BY <3>1 DEF TypeInv, TypeOK, UploadsApart, vars, page
  <2>. QED
    BY <2>3, <2>4
<1>7. CASE LeavePage \/ Reload
  <2>1. 1 \in Mounts
    BY JournalBounds DEF Mounts
  <2>2. UNCHANGED <<stored, photos>> /\ uploads' \in {uploads, {}} /\ slot' = "none"
    BY <1>7 DEF LeavePage, Reload
  <2>3. \/ trip' = NoTrip /\ mount' = 0 /\ Unload
        \/ \E t \in Trips : trip' = t /\ mount' \in Mounts /\ Load(t)
    BY <1>7, <2>1 DEF LeavePage, Reload
  <2>. QED
    BY <2>2, <2>3, PageTyped
<1>8. CASE UNCHANGED vars
  BY <1>8 DEF TypeInv, TypeOK, UploadsApart, vars, page
<1>. QED
  BY <1>1, <1>2, <1>3, <1>4, <1>5, <1>6, <1>7, <1>8 DEF Next

(* Every variable keeps its type, for every set of trips and stops and any *)
(* number of uploads and expenses: a page that opens always finds a mount  *)
(* no upload under way was started on.                                     *)
THEOREM NotebookTypes == Spec => []TypeOK
<1>1. TypeInv => TypeOK
  BY DEF TypeInv
<1>. QED
  BY <1>1, TypesInit, TypesNext, PTL DEF Spec

(* The journal on screen is of the trip on screen, is what a reload would  *)
(* bring back, and is what the next build learns its taste from, over      *)
(* edits, rebuilds, remounts and reloads, unless the last save found no    *)
(* room: only an upload that answers late can part them. With one text in  *)
(* it that is too long, a reload brings back an empty notebook.            *)
THEOREM NotebookAgrees == Spec => []NotebookOfThisTrip
<1>1. Agreement => JournalOfThisTrip /\ ScreenIsStored /\ TasteOfThisTrip
  BY DEF Agreement, ScreenIsStored, TasteOfThisTrip, TasteFor
<1>2. TypeOK /\ Agreement => NotebookOfThisTrip
  BY <1>1 DEF NotebookOfThisTrip
<1>. QED
  BY <1>2, NotebookTypes, AgreementInit, AgreementNext, JournalInvariant, PTL DEF Spec
=============================================================================
