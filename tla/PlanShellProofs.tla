-------------------------- MODULE PlanShellProofs --------------------------
(* Theorems about PlanShell, for every set of trips and number of requests. *)
EXTENDS PlanShell, SequenceTheorems, TLAPS

(* Appending to a sequence of one element.                                 *)
LEMMA AppendToOne ==
  ASSUME NEW S, NEW s \in Seq(S), Len(s) = 1, NEW x \in S
  PROVE  /\ Append(s, x) \in Seq(S)
         /\ Len(Append(s, x)) = 2
         /\ Append(s, x)[1] = s[1]
         /\ Append(s, x)[2] = x
<1>1. Append(s, x) \in Seq(S)
  BY AppendProperties
<1>2. Len(Append(s, x)) = 2
  <2>1. Len(Append(s, x)) = Len(s) + 1
    BY AppendProperties
  <2>. QED
    BY <2>1
<1>3. Append(s, x)[1] = s[1]
  BY AppendProperties
<1>4. Append(s, x)[2] = x
  BY AppendProperties
<1>. QED
  BY <1>1, <1>2, <1>3, <1>4

(* Pushing an entry onto a history of the application that does not stand  *)
(* on a plan leaves the tab on the plan's entry, right after its base.     *)
LEMMA PushPlan ==
  ASSUME NEW e \in Histories, NEW p \in 1 .. Len(e), e[p] # "plan"
  PROVE  /\ p = 1
         /\ Append(SubSeq(e, 1, p), "plan") \in Histories
         /\ Len(Append(SubSeq(e, 1, p), "plan")) = 2
<1>1. e \in Seq(Entry) /\ Len(e) \in 1 .. 2 /\ e[1] = "base" /\ p = 1
  BY DEF Histories
<1>2. PICK s : s = SubSeq(e, 1, p)
  OBVIOUS
<1>3. s \in Seq(Entry) /\ Len(s) = 1 /\ s[1] = "base"
  BY <1>1, <1>2, SubSeqProperties
<1>4. "plan" \in Entry
  BY DEF Entry
<1>5. PICK t : t = Append(s, "plan")
  OBVIOUS
<1>6. t \in Seq(Entry) /\ Len(t) = 2 /\ t[1] = "base" /\ t[2] = "plan"
  BY <1>3, <1>4, <1>5, AppendToOne
<1>7. t \in Histories
  BY <1>6 DEF Histories
<1>. QED
  BY <1>1, <1>2, <1>5, <1>6, <1>7

(***************************************************************************)
(* The inductive invariant: the invariants the runs check support each     *)
(* other only through one more fact, that no wizard waits behind a plan on *)
(* screen.                                                                 *)
(***************************************************************************)
NoWizardBehindPlan == PlanShown => wizardId = 0

IInv == TypeOK /\ PlanHasBackStop /\ ShelfHoldsPlan /\ SpinnersHaveRequests
               /\ NoWizardBehindPlan

LEMMA InitIInv == Init => IInv
<1>. SUFFICES ASSUME Init PROVE IInv
  OBVIOUS
<1>1. entries \in Histories /\ Len(entries) = 1
  BY DEF Init, Histories, Entry
<1>2. TypeOK
  <2>1. nextId \in 1 .. MaxRequests + 1 /\ rebuildId \in Nat /\ rebuildId < nextId
      /\ wizardId \in Nat /\ wizardId < nextId
    BY MaxRequestsAssumption DEF Init
  <2>2. pos \in 1 .. Len(entries)
    BY <1>1 DEF Init
  <2>. QED
    BY <1>1, <2>1, <2>2, Zenon DEF Init, TypeOK
<1>. QED
  BY <1>2 DEF Init, IInv, PlanHasBackStop, PlanShown, ShelfHoldsPlan,
              SpinnersHaveRequests, NoWizardBehindPlan

(* The push effect leaves a well-formed history, and a plan that is on     *)
(* screen afterwards on its own entry.                                     *)
LEMMA HistoryEffectKeeps ==
  ASSUME TypeOK, PlanHasBackStop, HistoryEffect
  PROVE  /\ entries' \in Histories /\ pos' \in 1 .. Len(entries')
         /\ PlanHasBackStop'
<1>1. CASE generated' # None /\ ~editing' /\ view' # view /\ entries[pos] # "plan"
  <2>0. entries \in Histories /\ pos \in 1 .. Len(entries) /\ entries[pos] # "plan"
    BY <1>1 DEF TypeOK
  <2>a. entries' = Append(SubSeq(entries, 1, pos), "plan") /\ pos' = pos + 1
    BY <1>1 DEF HistoryEffect
  <2>1. pos = 1 /\ entries' \in Histories /\ Len(entries') = 2 /\ pos' = 2
    BY <2>0, <2>a, PushPlan
  <2>2. entries'[2] = "plan"
    BY <2>1 DEF Histories
  <2>. QED
    BY <2>1, <2>2 DEF PlanHasBackStop
<1>2. CASE ~(generated' # None /\ ~editing' /\ view' # view /\ entries[pos] # "plan")
  <2>1. entries' = entries /\ pos' = pos
    BY <1>2 DEF HistoryEffect, tab
  <2>2. pos = 1 => entries[pos] = "base"
    BY DEF TypeOK, Histories
  <2>3. entries[pos] = "plan" => pos = 2
    BY <2>2 DEF TypeOK, Histories
  <2>4. view' = view => (PlanShown' <=> PlanShown)
    BY DEF view, PlanShown
  <2>. QED
    BY <1>2, <2>1, <2>3, <2>4 DEF TypeOK, PlanHasBackStop, PlanShown
<1>. QED
  BY <1>1, <1>2

(* Accepting an answer keeps every part of the invariant but the typing of *)
(* the variables it leaves alone.                                          *)
LEMMA AcceptKeeps ==
  ASSUME IInv, NEW f \in flights, Accept(f)
  PROVE  /\ generated' \in Plans /\ editing' = FALSE /\ wizardId' = 0
         /\ saved' \in BOOLEAN /\ shelf' \in Plans \cup {None}
         /\ entries' \in Histories /\ pos' \in 1 .. Len(entries')
         /\ PlanHasBackStop' /\ ShelfHoldsPlan'
<1>1. generated' \in Plans /\ editing' = FALSE /\ wizardId' = 0
  BY DEF IInv, TypeOK, Flights, Plans, Accept
<1>2. saved' \in BOOLEAN /\ shelf' \in Plans \cup {None} /\ ShelfHoldsPlan'
  BY <1>1 DEF IInv, TypeOK, Accept, ShelfHoldsPlan
<1>. QED
  BY <1>1, <1>2, HistoryEffectKeeps DEF IInv, Accept

LEMMA AnswerKeeps == ASSUME IInv, NEW f \in flights, Answer(f) PROVE IInv'
<1>a. TypeOK /\ PlanHasBackStop /\ ShelfHoldsPlan /\ SpinnersHaveRequests /\ NoWizardBehindPlan
  BY DEF IInv
<1>0. /\ nextId' = nextId /\ online' = online /\ flights' = flights \ {f}
      /\ rebuildIgnored' = rebuildIgnored
  BY DEF Answer, WizardAnswer, RebuildAnswer
<1>1. CASE WizardAnswer(f)
  <2>1. Accept(f) /\ rebuildId' = rebuildId /\ f.by = "wizard"
    BY <1>1 DEF WizardAnswer
  <2>a. /\ generated' \in Plans /\ editing' = FALSE /\ wizardId' = 0
        /\ saved' \in BOOLEAN /\ shelf' \in Plans \cup {None}
        /\ entries' \in Histories /\ pos' \in 1 .. Len(entries')
        /\ PlanHasBackStop' /\ ShelfHoldsPlan'
    BY <2>1, AcceptKeeps
  <2>b. wizardId' \in Nat /\ wizardId' < nextId' /\ rebuildId' \in Nat /\ rebuildId' < nextId'
    BY <1>a, <1>0, <2>1, <2>a DEF TypeOK
  <2>2. TypeOK' /\ PlanHasBackStop' /\ ShelfHoldsPlan' /\ wizardId' = 0
    BY <1>a, <1>0, <2>a, <2>b DEF TypeOK
  <2>3. SpinnersHaveRequests'
    BY <1>a, <1>0, <2>1, <2>2 DEF SpinnersHaveRequests
  <2>. QED
    BY <2>2, <2>3 DEF IInv, NoWizardBehindPlan
<1>2. CASE RebuildAnswer(f) /\ CallbacksFire(f) /\ ~rebuildIgnored
  <2>1. Accept(f) /\ rebuildId' = 0
    BY <1>2 DEF RebuildAnswer
  <2>a. /\ generated' \in Plans /\ editing' = FALSE /\ wizardId' = 0
        /\ saved' \in BOOLEAN /\ shelf' \in Plans \cup {None}
        /\ entries' \in Histories /\ pos' \in 1 .. Len(entries')
        /\ PlanHasBackStop' /\ ShelfHoldsPlan'
    BY <2>1, AcceptKeeps
  <2>b. wizardId' \in Nat /\ wizardId' < nextId' /\ rebuildId' \in Nat /\ rebuildId' < nextId'
    BY <1>a, <1>0, <2>1, <2>a DEF TypeOK
  <2>2. TypeOK' /\ PlanHasBackStop' /\ ShelfHoldsPlan' /\ wizardId' = 0
    BY <1>a, <1>0, <2>a, <2>b DEF TypeOK
  <2>. QED
    BY <2>1, <2>2 DEF IInv, SpinnersHaveRequests, NoWizardBehindPlan
<1>3. CASE RebuildAnswer(f) /\ ~(CallbacksFire(f) /\ ~rebuildIgnored)
  <2>1. /\ UNCHANGED <<generated, editing, wizardId, entries, pos, shelf, saved>>
        /\ f.by = "rebuild" /\ rebuildId' \in {0, rebuildId}
        /\ f.id = rebuildId => rebuildId' = 0
    BY <1>3 DEF RebuildAnswer, CallbacksFire
  <2>2. TypeOK'
    BY <1>a, <1>0, <2>1 DEF TypeOK
  <2>3. SpinnersHaveRequests'
    BY <1>a, <1>0, <2>1 DEF SpinnersHaveRequests
  <2>. QED
    BY <1>a, <2>1, <2>2, <2>3 DEF IInv, PlanHasBackStop, ShelfHoldsPlan, NoWizardBehindPlan, PlanShown
<1>. QED
  BY <1>1, <1>2, <1>3 DEF Answer

LEMMA SettleKeeps == ASSUME IInv, NEW f \in flights, Settle(f) PROVE IInv'
<1>. USE DEF IInv
<1>1. CASE Retry(f)
  <2>1. PICK g : g = [f EXCEPT !.failures = f.failures + 1]
    OBVIOUS
  <2>2. g \in Flights /\ g.id = f.id /\ g.by = f.by /\ g.id < nextId
    BY <1>1, <2>1 DEF Retry, TypeOK, Flights
  <2>3. /\ flights' = (flights \ {f}) \cup {g}
        /\ UNCHANGED <<generated, editing, rebuildId, rebuildIgnored, wizardId,
                        nextId, online, entries, pos, shelf, saved>>
    BY <1>1, <2>1 DEF Retry
  <2>4. TypeOK'
    BY <2>2, <2>3 DEF TypeOK
  <2>5. SpinnersHaveRequests'
    BY <2>2, <2>3 DEF SpinnersHaveRequests
  <2>. QED
    BY <2>3, <2>4, <2>5 DEF PlanHasBackStop, ShelfHoldsPlan, NoWizardBehindPlan, PlanShown
<1>2. CASE GiveUp(f)
  <2>1. TypeOK'
    BY <1>2 DEF GiveUp, TypeOK
  <2>2. SpinnersHaveRequests'
    BY <1>2 DEF GiveUp, SpinnersHaveRequests, CallbacksFire
  <2>. QED
    BY <1>2, <2>1, <2>2
       DEF GiveUp, PlanHasBackStop, ShelfHoldsPlan, NoWizardBehindPlan, PlanShown
<1>. QED
  BY <1>1, <1>2, AnswerKeeps DEF Settle

LEMMA OpenKeeps ==
  ASSUME IInv, NEW shared \in Trips \cup {NoTrip}, NEW here,
         here.entries \in Histories, here.pos \in 1 .. Len(here.entries),
         OpenWith(shared, here)
  PROVE  IInv'
<1>. USE DEF IInv
<1>1. /\ editing' = FALSE /\ wizardId' = 0 /\ rebuildIgnored' = FALSE
      /\ UNCHANGED <<online, shelf, saved>>
  BY DEF OpenWith
<1>2. /\ generated' \in Cached
      /\ nextId' \in 1 .. MaxRequests + 1 /\ rebuildId' \in Nat /\ rebuildId' < nextId'
      /\ flights' \in SUBSET Flights /\ \A f \in flights' : f.id < nextId'
      /\ rebuildId' # 0 => \E f \in flights' : f.by = "rebuild" /\ f.id = rebuildId'
  <2>1. CASE shared = NoTrip
    BY <2>1, MaxRequestsAssumption DEF OpenWith, TypeOK
  <2>2. CASE shared # NoTrip /\ online /\ nextId <= MaxRequests
    <3>1. PICK g : g = [id |-> nextId, by |-> "rebuild", input |-> shared, failures |-> 0]
      OBVIOUS
    <3>2. flights' = {g} /\ nextId' = nextId + 1 /\ rebuildId' = nextId /\ generated' = None
      BY <2>2, <3>1 DEF OpenWith
    <3>3. g \in Flights /\ g.id = nextId /\ g.by = "rebuild"
      BY <2>2, <3>1 DEF Flights, TypeOK, RequestIds
    <3>. QED
      BY <2>2, <3>2, <3>3, MaxRequestsAssumption DEF TypeOK, Cached
  <2>3. CASE shared # NoTrip /\ ~(online /\ nextId <= MaxRequests)
    BY <2>3, MaxRequestsAssumption DEF OpenWith, TypeOK, Cached
  <2>. QED
    BY <2>1, <2>2, <2>3
<1>3. entries' \in Histories /\ pos' \in 1 .. Len(entries') /\ PlanHasBackStop'
  <2>1. CASE generated' # None /\ here.entries[here.pos] # "plan"
    <3>1. entries' = Append(SubSeq(here.entries, 1, here.pos), "plan") /\ pos' = here.pos + 1
      BY <2>1 DEF OpenWith
    <3>2. here.pos = 1 /\ entries' \in Histories /\ Len(entries') = 2
      BY <2>1, <3>1, PushPlan
    <3>3. entries'[2] = "plan"
      BY <3>2 DEF Histories
    <3>. QED
      BY <3>1, <3>2, <3>3 DEF PlanHasBackStop
  <2>2. CASE ~(generated' # None /\ here.entries[here.pos] # "plan")
    <3>1. entries' = here.entries /\ pos' = here.pos
      BY <2>2 DEF OpenWith
    <3>2. here.entries[here.pos] = "plan" => here.pos = 2
      BY DEF Histories
    <3>. QED
      BY <2>2, <3>1, <3>2 DEF PlanHasBackStop, PlanShown
  <2>. QED
    BY <2>1, <2>2
<1>a. wizardId' \in Nat /\ wizardId' < nextId'
  <2>1. nextId' \in 1 .. MaxRequests + 1
    BY <1>2
  <2>2. nextId' \in Nat /\ nextId' >= 1
    BY <2>1, MaxRequestsAssumption
  <2>. QED
    BY <1>1, <2>2
<1>b. generated' \in Plans \cup {None}
  BY <1>2 DEF TypeOK, Cached
<1>4. TypeOK'
  BY <1>1, <1>2, <1>3, <1>a, <1>b DEF TypeOK
<1>5. ShelfHoldsPlan'
  BY <1>1, <1>2 DEF ShelfHoldsPlan, Cached
<1>. QED
  BY <1>1, <1>2, <1>3, <1>4, <1>5 DEF SpinnersHaveRequests, NoWizardBehindPlan

(* Every step keeps the invariant.                                         *)
LEMMA StepKeeps == IInv /\ [Next]_vars => IInv'
<1>. SUFFICES ASSUME IInv, [Next]_vars PROVE IInv'
  OBVIOUS
<1>a. TypeOK /\ PlanHasBackStop /\ ShelfHoldsPlan /\ SpinnersHaveRequests /\ NoWizardBehindPlan
  BY DEF IInv
<1>1. ASSUME NEW trip \in Trips, Submit(trip) PROVE IInv'
  <2>1. PICK g : g = [id |-> nextId, by |-> "wizard", input |-> trip, failures |-> 0]
    OBVIOUS
  <2>2. /\ nextId <= MaxRequests /\ nextId' = nextId + 1 /\ wizardId' = nextId
        /\ flights' = flights \cup {g} /\ ~PlanShown
        /\ UNCHANGED <<generated, editing, rebuildId, rebuildIgnored, online,
                        entries, pos, shelf, saved>>
    BY <1>1, <2>1 DEF Submit, Issue
  <2>3. g \in Flights /\ g.id = nextId /\ g.by = "wizard"
    BY <1>a, <2>1, <2>2 DEF Flights, TypeOK, RequestIds
  <2>a. /\ nextId \in Nat /\ nextId' \in 1 .. MaxRequests + 1
        /\ rebuildId' \in Nat /\ rebuildId' < nextId'
        /\ wizardId' \in Nat /\ wizardId' < nextId'
    BY <1>a, <2>2, MaxRequestsAssumption DEF TypeOK
  <2>b. flights' \in SUBSET Flights /\ \A f \in flights' : f.id < nextId'
    <3>1. \A f \in flights : f \in Flights /\ f.id \in Nat /\ f.id < nextId
      BY <1>a, MaxRequestsAssumption DEF TypeOK, Flights, RequestIds
    <3>. QED
      BY <2>2, <2>3, <2>a, <3>1
  <2>4. TypeOK'
    BY <1>a, <2>2, <2>a, <2>b DEF TypeOK
  <2>5. SpinnersHaveRequests'
    BY <1>a, <2>2, <2>3 DEF SpinnersHaveRequests
  <2>. QED
    BY <1>a, <2>2, <2>4, <2>5
       DEF IInv, PlanHasBackStop, ShelfHoldsPlan, NoWizardBehindPlan, PlanShown
<1>2. ASSUME NEW trip \in Trips, RebuildWith(trip) PROVE IInv'
  <2>1. PICK g : g = [id |-> nextId, by |-> "rebuild", input |-> trip, failures |-> 0]
    OBVIOUS
  <2>2. /\ nextId <= MaxRequests /\ nextId' = nextId + 1 /\ rebuildId' = nextId
        /\ flights' = flights \cup {g} /\ rebuildIgnored' = FALSE
        /\ UNCHANGED <<generated, editing, wizardId, online, entries, pos, shelf, saved>>
    BY <1>2, <2>1 DEF RebuildWith, Issue
  <2>3. g \in Flights /\ g.id = nextId /\ g.by = "rebuild"
    BY <1>a, <2>1, <2>2 DEF Flights, TypeOK, RequestIds
  <2>a. /\ nextId \in Nat /\ nextId' \in 1 .. MaxRequests + 1
        /\ rebuildId' \in Nat /\ rebuildId' < nextId'
        /\ wizardId' \in Nat /\ wizardId' < nextId'
    BY <1>a, <2>2, MaxRequestsAssumption DEF TypeOK
  <2>b. flights' \in SUBSET Flights /\ \A f \in flights' : f.id < nextId'
    <3>1. \A f \in flights : f \in Flights /\ f.id \in Nat /\ f.id < nextId
      BY <1>a, MaxRequestsAssumption DEF TypeOK, Flights, RequestIds
    <3>. QED
      BY <2>2, <2>3, <2>a, <3>1
  <2>4. TypeOK'
    BY <1>a, <2>2, <2>a, <2>b DEF TypeOK
  <2>5. SpinnersHaveRequests'
    BY <1>a, <2>2, <2>3 DEF SpinnersHaveRequests
  <2>. QED
    BY <1>a, <2>2, <2>4, <2>5
       DEF IInv, PlanHasBackStop, ShelfHoldsPlan, NoWizardBehindPlan, PlanShown
<1>3. ASSUME NEW f \in flights, Settle(f) PROVE IInv'
  BY <1>3, SettleKeeps
<1>4. ASSUME CancelRebuild PROVE IInv'
  <2>1. TypeOK'
    BY <1>a, <1>4 DEF TypeOK, CancelRebuild
  <2>. QED
    BY <1>a, <1>4, <2>1 DEF CancelRebuild, IInv, PlanHasBackStop, ShelfHoldsPlan,
       SpinnersHaveRequests, NoWizardBehindPlan, PlanShown
<1>5. ASSUME Edit PROVE IInv'
  <2>1. TypeOK'
    BY <1>a, <1>5 DEF TypeOK, Edit
  <2>. QED
    BY <1>a, <1>5, <2>1 DEF Edit, IInv, PlanHasBackStop, ShelfHoldsPlan,
       SpinnersHaveRequests, NoWizardBehindPlan, PlanShown
<1>6. ASSUME CancelEdit PROVE IInv'
  <2>1. entries' \in Histories /\ pos' \in 1 .. Len(entries') /\ PlanHasBackStop'
    BY <1>a, <1>6, HistoryEffectKeeps DEF CancelEdit
  <2>a. wizardId' \in Nat /\ wizardId' < nextId' /\ rebuildId' = rebuildId /\ nextId' = nextId
    BY <1>a, <1>6, MaxRequestsAssumption DEF TypeOK, CancelEdit
  <2>2. TypeOK'
    BY <1>a, <1>6, <2>1, <2>a DEF TypeOK, CancelEdit
  <2>. QED
    BY <1>a, <1>6, <2>1, <2>2 DEF CancelEdit, IInv, ShelfHoldsPlan,
       SpinnersHaveRequests, NoWizardBehindPlan
<1>7. ASSUME New PROVE IInv'
  <2>1. TypeOK'
    BY <1>a, <1>7 DEF TypeOK, New
  <2>. QED
    BY <1>a, <1>7, <2>1 DEF New, IInv, PlanHasBackStop, ShelfHoldsPlan,
       SpinnersHaveRequests, NoWizardBehindPlan, PlanShown
<1>8. ASSUME LoadTrip PROVE IInv'
  <2>1. TypeOK'
    BY <1>a, <1>8 DEF TypeOK, LoadTrip
  <2>. QED
    BY <1>a, <1>8, <2>1 DEF LoadTrip, IInv, PlanHasBackStop, ShelfHoldsPlan,
       SpinnersHaveRequests, NoWizardBehindPlan, PlanShown
<1>9. ASSUME Back \/ Forward PROVE IInv'
  <2>1. pos' \in 1 .. Len(entries) /\ OnPop
    BY <1>a, <1>9 DEF Back, Forward, TypeOK, Histories
  <2>2. TypeOK'
    BY <1>a, <2>1 DEF TypeOK, OnPop
  <2>3. ~PlanShown'
    BY <2>1 DEF OnPop, PlanShown
  <2>. QED
    BY <1>a, <2>1, <2>2, <2>3 DEF OnPop, IInv, PlanHasBackStop, ShelfHoldsPlan,
       SpinnersHaveRequests, NoWizardBehindPlan
<1>10. ASSUME Reload PROVE IInv'
  <2>1. PICK here : here = [entries |-> entries, pos |-> pos]
    OBVIOUS
  <2>. QED
    BY <1>a, <1>10, <2>1, OpenKeeps DEF Reload, TypeOK
<1>11. ASSUME Launch PROVE IInv'
  <2>1. NewTab.entries \in Histories /\ NewTab.pos \in 1 .. Len(NewTab.entries)
    BY DEF NewTab, Histories, Entry
  <2>. QED
    BY <1>11, <2>1, OpenKeeps DEF Launch
<1>12. ASSUME Network PROVE IInv'
  <2>1. TypeOK'
    BY <1>a, <1>12 DEF TypeOK, Network
  <2>. QED
    BY <1>a, <1>12, <2>1 DEF Network, IInv, PlanHasBackStop, ShelfHoldsPlan,
       SpinnersHaveRequests, NoWizardBehindPlan, PlanShown
<1>13. ASSUME UNCHANGED vars PROVE IInv'
  BY <1>a, <1>13 DEF vars, IInv, TypeOK, PlanHasBackStop, ShelfHoldsPlan,
     SpinnersHaveRequests, NoWizardBehindPlan, PlanShown
<1>. QED
  BY <1>1, <1>2, <1>3, <1>4, <1>5, <1>6, <1>7, <1>8, <1>9, <1>10, <1>11, <1>12, <1>13
     DEF Next

(* The invariant holds in every behaviour of the shell.                    *)
THEOREM ShellInvariant == Spec => []IInv
<1>. QED
  BY InitIInv, StepKeeps, PTL DEF Spec

(* Types, for every set of trips and every number of requests.             *)
THEOREM ShellTypes == Spec => []TypeOK
<1>1. IInv => TypeOK
  BY DEF IInv
<1>. QED
  BY <1>1, ShellInvariant, PTL

(* A plan on screen always has the edit form behind the back button.       *)
THEOREM BackStop == Spec => []PlanHasBackStop
<1>1. IInv => PlanHasBackStop
  BY DEF IInv
<1>. QED
  BY <1>1, ShellInvariant, PTL

(* A reload brings back the plan of the screen.                            *)
THEOREM ShelfIsPlan == Spec => []ShelfHoldsPlan
<1>1. IInv => ShelfHoldsPlan
  BY DEF IInv
<1>. QED
  BY <1>1, ShellInvariant, PTL

(* No spinner outlives its request.                                        *)
THEOREM SpinnersLive == Spec => []SpinnersHaveRequests
<1>1. IInv => SpinnersHaveRequests
  BY DEF IInv
<1>. QED
  BY <1>1, ShellInvariant, PTL

(* Neither the back button nor a reload loses the plan of the screen.      *)
THEOREM PlanStays == Spec => []PlanIsKept
<1>1. PlanHasBackStop /\ ShelfHoldsPlan => PlanIsKept
  BY DEF PlanIsKept
<1>. QED
  BY <1>1, BackStop, ShelfIsPlan, PTL

(***************************************************************************)
(* The shell implements PlanPromise. What the mapping needs beyond IInv is *)
(* that a request has one flight: otherwise an answer could leave its own  *)
(* question open.                                                          *)
(***************************************************************************)
OneFlightEach == \A f, g \in flights : f.id = g.id => f = g

Open == {f \in flights : f.by = "wizard" \/ f.id = rebuildId}
Question(f) == [id |-> f.id, input |-> f.input]

LEMMA AskedIsOpen == Asked = {Question(f) : f \in Open}
BY DEF Asked, Open, Question

LEMMA OneFlightKept ==
  ASSUME TypeOK, OneFlightEach, [Next]_vars
  PROVE  OneFlightEach'
<1>1. CASE flights' \subseteq flights
  BY <1>1 DEF OneFlightEach
<1>2. ASSUME NEW who \in {"wizard", "rebuild"}, NEW trip \in Trips, Issue(who, trip)
      PROVE  OneFlightEach'
  BY <1>2 DEF OneFlightEach, Issue, TypeOK, Flights
<1>3. ASSUME NEW f \in flights, Settle(f) PROVE OneFlightEach'
  <2>1. CASE Retry(f)
    <3>1. PICK g : g = [f EXCEPT !.failures = f.failures + 1]
      OBVIOUS
    <3>2. g.id = f.id
      BY <3>1 DEF TypeOK, Flights
    <3>. QED
      BY <2>1, <3>1, <3>2 DEF OneFlightEach, Retry
  <2>2. CASE Answer(f) \/ GiveUp(f)
    BY <1>1, <2>2 DEF Answer, GiveUp
  <2>. QED
    BY <1>3, <2>1, <2>2 DEF Settle
<1>4. ASSUME NEW shared, NEW here, OpenWith(shared, here) PROVE OneFlightEach'
  BY <1>4 DEF OneFlightEach, OpenWith
<1>5. CASE Reload \/ Launch
  BY <1>4, <1>5 DEF Reload, Launch
<1>6. CASE \E trip \in Trips : Submit(trip) \/ RebuildWith(trip)
  BY <1>2, <1>6 DEF Submit, RebuildWith
<1>7. CASE CancelRebuild \/ Edit \/ CancelEdit \/ New \/ LoadTrip \/ Back \/ Forward \/ Network
            \/ UNCHANGED vars
  BY <1>1, <1>7 DEF CancelRebuild, Edit, CancelEdit, New, LoadTrip, Back, Forward, OnPop, Network, vars
<1>. QED
  BY <1>3, <1>5, <1>6, <1>7 DEF Next

(* A question that is settled leaves the others open.                      *)
LEMMA QuestionCloses ==
  ASSUME TypeOK, OneFlightEach, NEW f \in Open, Open' = Open \ {f}
  PROVE  Question(f) \in Asked /\ Asked' = Asked \ {Question(f)}
<1>1. \A g \in Open : Question(g) = Question(f) => g = f
  <2>1. \A g \in Open : g \in flights
    BY DEF Open
  <2>. QED
    BY <2>1 DEF OneFlightEach, Question
<1>2. Asked' = {Question(g) : g \in Open'}
  BY DEF Asked, Open, Question
<1>. QED
  BY <1>1, <1>2, AskedIsOpen

(* The questions of the page are those of the specification.               *)
LEMMA AskedAreQuestions == TypeOK => Asked \in SUBSET Promise!Questions
BY DEF TypeOK, Flights, RequestIds, Asked, Promise!Questions

(* A request that is sent is asked: beside the others, or in the place of  *)
(* the rebuild that was observed.                                          *)
LEMMA IssueAsks ==
  ASSUME TypeOK, OneFlightEach, SpinnersHaveRequests,
         NEW who \in {"wizard", "rebuild"}, NEW trip \in Trips, Issue(who, trip),
         \/ who = "wizard" /\ rebuildId' = rebuildId
         \/ who = "rebuild" /\ rebuildId' = nextId,
         UNCHANGED <<generated, shelf>>
  PROVE  Promise!PromiseNext
<1>1. PICK f : f = [id |-> nextId, by |-> who, input |-> trip, failures |-> 0]
  OBVIOUS
<1>2. flights' = flights \cup {f} /\ f.id = nextId /\ f.by = who /\ Question(f) \in Promise!Questions
  BY <1>1, MaxRequestsAssumption DEF Issue, TypeOK, Question, Promise!Questions
<1>3. \A g \in flights : g.id \in Nat /\ g.id # 0 /\ g.id < nextId
  BY DEF TypeOK, Flights, RequestIds
<1>5. Asked' = {Question(g) : g \in Open'}
  BY DEF Asked, Open, Question
<1>6. CASE who = "wizard" \/ rebuildId = 0
  <2>1. Open' = Open \cup {f}
    BY <1>2, <1>3, <1>6 DEF Open, TypeOK
  <2>2. Asked' = Asked \cup {Question(f)}
    BY <1>5, <2>1, AskedIsOpen
  <2>. QED
    BY <1>2, <2>2 DEF Promise!PromiseNext, Promise!Ask
<1>7. CASE who = "rebuild" /\ rebuildId # 0
  <2>1. PICK old \in flights : old.by = "rebuild" /\ old.id = rebuildId
    BY <1>7 DEF SpinnersHaveRequests
  <2>2. old \in Open /\ \A g \in flights : g.id = rebuildId => g = old
    BY <2>1 DEF Open, OneFlightEach
  <2>3. Open' = (Open \ {old}) \cup {f}
    BY <1>2, <1>3, <1>7, <2>1, <2>2 DEF Open, TypeOK
  <2>4. \A g \in Open : Question(g) = Question(old) => g = old
    BY <2>2 DEF Open, OneFlightEach, Question
  <2>5. Question(old) \in Asked /\ Question(old) \in Promise!Questions
    BY <2>2, AskedIsOpen, AskedAreQuestions
  <2>6. Asked' = (Asked \ {Question(old)}) \cup {Question(f)}
    BY <1>5, <2>2, <2>3, <2>4, AskedIsOpen
  <2>7. Promise!AskInstead(Question(f), Question(old))
    BY <2>5, <2>6 DEF Promise!AskInstead
  <2>. QED
    BY <1>2, <2>5, <2>7 DEF Promise!PromiseNext
<1>. QED
  BY <1>6, <1>7

(* An answer that is accepted answers an open question.                    *)
LEMMA AcceptAnswers ==
  ASSUME TypeOK, OneFlightEach, NEW f \in Open, Open' = Open \ {f}, Accept(f)
  PROVE  Promise!PromiseNext
<1>1. Question(f) \in Asked /\ Asked' = Asked \ {Question(f)}
  BY QuestionCloses
<1>2. Question(f) \in Promise!Questions
  BY <1>1, AskedAreQuestions
<1>3. Question(f).id = f.id /\ Question(f).input = f.input
  BY DEF Question
<1>4. generated' = [req |-> f.id, input |-> f.input] /\ shelf' \in {generated', shelf}
  BY DEF Accept
<1>5. Promise!Answer(Question(f))
  BY <1>1, <1>3, <1>4 DEF Promise!Answer
<1>. QED
  BY <1>2, <1>5 DEF Promise!PromiseNext

(* A request that ends without a plan closes its question.                 *)
LEMMA EndCloses ==
  ASSUME TypeOK, OneFlightEach, NEW f \in Open, Open' = Open \ {f}, UNCHANGED <<generated, shelf>>
  PROVE  Promise!PromiseNext
<1>1. Question(f) \in Asked /\ Asked' = Asked \ {Question(f)}
  BY QuestionCloses
<1>2. Question(f) \in Promise!Questions
  BY <1>1, AskedAreQuestions
<1>. QED
  BY <1>1, <1>2 DEF Promise!PromiseNext, Promise!Close

(* Every end of a flight is a step of the specification or a stutter.      *)
LEMMA SettleMaps ==
  ASSUME IInv, OneFlightEach, NEW f \in flights, Settle(f)
  PROVE  [Promise!PromiseNext]_<<generated, shelf, Asked>>
<1>0. TypeOK
  BY DEF IInv
<1>1. ASSUME flights' = flights \ {f}, f \in Open, rebuildId' = IF f.id = rebuildId THEN 0 ELSE rebuildId
      PROVE  Open' = Open \ {f}
  <2>1. \A g \in flights : g.id # 0 /\ (g.id = f.id => g = f)
    BY <1>0 DEF TypeOK, Flights, RequestIds, OneFlightEach
  <2>. QED
    BY <1>1, <2>1 DEF Open
<1>2. ASSUME flights' = flights \ {f}, f \notin Open, rebuildId' = rebuildId
      PROVE  Asked' = Asked
  BY <1>2 DEF Asked, Open
<1>3. CASE Answer(f)
  <2>1. flights' = flights \ {f}
    BY <1>3 DEF Answer
  <2>2. CASE WizardAnswer(f)
    <3>1. f \in Open /\ rebuildId' = rebuildId /\ Accept(f)
      BY <2>2 DEF WizardAnswer, Open
    <3>2. Open' = Open \ {f}
      BY <2>1, <3>1 DEF Open
    <3>. QED
      BY <1>0, <3>1, <3>2, AcceptAnswers
  <2>3. CASE RebuildAnswer(f) /\ CallbacksFire(f)
    <3>1. f \in Open /\ Open' = Open \ {f}
      BY <1>1, <2>1, <2>3 DEF RebuildAnswer, CallbacksFire, Open
    <3>2. CASE rebuildIgnored
      <4>1. UNCHANGED <<generated, shelf>>
        BY <2>3, <3>2 DEF RebuildAnswer
      <4>. QED
        BY <1>0, <3>1, <4>1, EndCloses
    <3>3. CASE ~rebuildIgnored
      <4>1. Accept(f)
        BY <2>3, <3>3 DEF RebuildAnswer
      <4>. QED
        BY <1>0, <3>1, <4>1, AcceptAnswers
    <3>. QED
      BY <3>2, <3>3
  <2>4. CASE RebuildAnswer(f) /\ ~CallbacksFire(f)
    <3>1. f \notin Open /\ rebuildId' = rebuildId /\ UNCHANGED <<generated, shelf>>
      BY <2>4 DEF RebuildAnswer, CallbacksFire, Open
    <3>. QED
      BY <1>2, <2>1, <3>1
  <2>. QED
    BY <1>3, <2>2, <2>3, <2>4 DEF Answer
<1>4. CASE Retry(f)
  <2>1. PICK g : g = [f EXCEPT !.failures = f.failures + 1]
    OBVIOUS
  <2>2. g.id = f.id /\ g.by = f.by /\ Question(g) = Question(f)
    BY <1>0, <2>1 DEF TypeOK, Flights, Question
  <2>3. flights' = (flights \ {f}) \cup {g} /\ rebuildId' = rebuildId /\ UNCHANGED <<generated, shelf>>
    BY <1>4, <2>1 DEF Retry
  <2>4. Open' = IF f \in Open THEN (Open \ {f}) \cup {g} ELSE Open
    BY <2>2, <2>3 DEF Open
  <2>5. Asked' = {Question(h) : h \in Open'}
    BY DEF Asked, Open, Question
  <2>6. Asked' = Asked
    BY <2>2, <2>4, <2>5, AskedIsOpen
  <2>. QED
    BY <2>3, <2>6
<1>5. CASE GiveUp(f)
  <2>1. flights' = flights \ {f} /\ UNCHANGED <<generated, shelf>>
    BY <1>5 DEF GiveUp
  <2>2. rebuildId' = IF f.by = "rebuild" /\ f.id = rebuildId THEN 0 ELSE rebuildId
    BY <1>5 DEF GiveUp, CallbacksFire
  <2>3. CASE f \in Open
    <3>1. CASE f.by = "wizard"
      <4>1. rebuildId' = rebuildId
        BY <2>2, <3>1
      <4>2. Open' = Open \ {f}
        BY <2>1, <4>1 DEF Open
      <4>. QED
        BY <1>0, <2>1, <2>3, <4>2, EndCloses
    <3>2. CASE f.by = "rebuild"
      <4>1. Open' = Open \ {f}
        BY <1>1, <2>1, <2>2, <2>3, <3>2
      <4>. QED
        BY <1>0, <2>1, <2>3, <4>1, EndCloses
    <3>. QED
      BY <1>0, <3>1, <3>2 DEF TypeOK, Flights
  <2>4. CASE f \notin Open
    <3>1. rebuildId' = rebuildId
      BY <1>0, <2>2, <2>4 DEF Open
    <3>. QED
      BY <1>2, <2>1, <2>4, <3>1
  <2>. QED
    BY <2>3, <2>4
<1>. QED
  BY <1>3, <1>4, <1>5 DEF Settle

(* Waving the backdrop away closes the question of the rebuild under it.   *)
LEMMA CancelMaps ==
  ASSUME IInv, OneFlightEach, CancelRebuild
  PROVE  Promise!PromiseNext
<1>0. TypeOK /\ SpinnersHaveRequests
  BY DEF IInv
<1>1. PICK f \in flights : f.by = "rebuild" /\ f.id = rebuildId
  BY <1>0 DEF CancelRebuild, Covered, SpinnersHaveRequests
<1>2. flights' = flights /\ rebuildId' = 0 /\ UNCHANGED <<generated, shelf>>
  BY DEF CancelRebuild
<1>3. \A g \in flights : g.id # 0 /\ (g.id = f.id => g = f)
  BY <1>0, <1>1 DEF TypeOK, Flights, RequestIds, OneFlightEach
<1>4. f \in Open /\ Open' = Open \ {f}
  BY <1>1, <1>2, <1>3 DEF Open
<1>. QED
  BY <1>0, <1>2, <1>4, EndCloses

(* Every step of the shell is a step of what it promises or a stutter.     *)
LEMMA StepMaps ==
  ASSUME IInv, IInv', OneFlightEach, [Next]_vars
  PROVE  [Promise!PromiseNext]_<<generated, shelf, Asked>>
<1>0. TypeOK /\ TypeOK' /\ SpinnersHaveRequests
  BY DEF IInv
<1>1. ASSUME NEW trip \in Trips, Submit(trip) PROVE Promise!PromiseNext
  BY <1>0, <1>1, IssueAsks DEF Submit
<1>2. ASSUME NEW trip \in Trips, RebuildWith(trip) PROVE Promise!PromiseNext
  <2>1. Issue("rebuild", trip) /\ rebuildId' = nextId /\ UNCHANGED <<generated, shelf>>
    BY <1>2 DEF RebuildWith
  <2>. QED
    BY <1>0, <2>1, IssueAsks
<1>3. CASE \E f \in flights : Settle(f)
  BY <1>3, SettleMaps
<1>4. CASE CancelRebuild
  BY <1>4, CancelMaps
<1>5. CASE New \/ LoadTrip
  <2>1. generated' = None /\ shelf' = shelf /\ flights' = flights /\ rebuildId' = rebuildId
    BY <1>5 DEF New, LoadTrip
  <2>2. Asked' = Asked
    BY <2>1 DEF Asked
  <2>. QED
    BY <2>1, <2>2 DEF Promise!PromiseNext, Promise!PutAside
<1>6. CASE Edit \/ CancelEdit \/ Back \/ Forward \/ Network \/ UNCHANGED vars
  <2>1. generated' = generated /\ shelf' = shelf /\ flights' = flights /\ rebuildId' = rebuildId
    BY <1>6 DEF Edit, CancelEdit, Back, Forward, OnPop, Network, vars
  <2>. QED
    BY <2>1 DEF Asked
<1>7. ASSUME NEW shared, NEW here, OpenWith(shared, here) PROVE Promise!PromiseNext
  <2>1. generated' \in {None, shelf} /\ shelf' = shelf
    BY <1>7 DEF OpenWith, Cached
  <2>2. Asked' \in SUBSET Promise!Questions
    BY <1>0 DEF TypeOK, Flights, RequestIds, Asked, Promise!Questions
  <2>. QED
    BY <2>1, <2>2 DEF Promise!PromiseNext, Promise!Reopen
<1>8. CASE Reload \/ Launch
  BY <1>7, <1>8 DEF Reload, Launch
<1>. QED
  BY <1>1, <1>2, <1>3, <1>4, <1>5, <1>6, <1>8 DEF Next

(* What comes on screen is what was kept or an answer somebody still waits *)
(* for: the shell, with its two mutations, backdrop, history and cache,    *)
(* implements PlanPromise.                                                 *)
THEOREM ShellKeepsPromise == FairSpec => PromiseKept
<1>1. Init => Promise!PromiseInit
  BY DEF Init, Asked, Promise!PromiseInit
<1>2. Init => OneFlightEach
  BY DEF Init, OneFlightEach
<1>3. IInv /\ OneFlightEach /\ [Next]_vars => OneFlightEach'
  BY OneFlightKept DEF IInv
<1>4. IInv /\ IInv' /\ OneFlightEach /\ [Next]_vars
         => [Promise!PromiseNext]_<<generated, shelf, Asked>>
  BY StepMaps
<1>. QED
  BY <1>1, <1>2, <1>3, <1>4, ShellInvariant, PTL
     DEF Spec, FairSpec, PromiseKept, Promise!PromiseSpec, Promise!promiseVars
=============================================================================
