----------------------------- MODULE PlanShell -----------------------------
(***************************************************************************)
(* The shell of the web application (web/src/App.tsx, with the wizard of   *)
(* features/wizard/WizardPage.tsx and the plan cache of                    *)
(* offline/planStore.ts): which page is on screen, which build requests    *)
(* are under way, what their late answers do, what the back button does    *)
(* and what survives a reload.                                             *)
(*                                                                         *)
(* A plan is identified by the request that produced it and the trip input *)
(* the request carried. Two mutation objects ask for plans. The wizard     *)
(* awaits its own (mutateAsync), so its answer is accepted whatever has    *)
(* become of the wizard meanwhile; the shell's rebuild takes callbacks     *)
(* that only the observed, latest mutate call fires.                       *)
(***************************************************************************)
EXTENDS Naturals, Sequences

CONSTANTS Trips,        \* the trip inputs a user may fill in
          MaxRequests,  \* bound: requests issued in one behaviour
          None,         \* no plan
          NoTrip        \* no trip came with the page's address

ASSUME MaxRequestsAssumption == MaxRequests \in Nat
ASSUME NoneAssumption == None \notin [req : 1 .. MaxRequests, input : Trips]
ASSUME NoTripAssumption == NoTrip \notin Trips

VARIABLES
    generated,       \* the plan with its input, or None
    editing,         \* the wizard is open over a plan that is kept
    rebuildId,       \* request observed by the shell's mutation, 0 for none
    rebuildIgnored,  \* the user waved the rebuild away
    wizardId,        \* request observed by the wizard on screen, 0 for none
    flights,         \* requests without an answer yet
    nextId,          \* number of the next request
    online,          \* what the browser believes about the network
    entries, pos,    \* the session history of the tab and the place in it
    shelf,           \* the plan in localStorage
    saved            \* whether the last save of a plan found room

view  == <<generated, editing>>
tab   == <<entries, pos>>
disk  == <<shelf, saved>>
vars  == <<generated, editing, rebuildId, rebuildIgnored, wizardId, flights,
           nextId, online, entries, pos, shelf, saved>>

RequestIds == 1 .. MaxRequests
Plans   == [req : RequestIds, input : Trips]
Flights == [id : RequestIds, by : {"wizard", "rebuild"}, input : Trips,
            failures : 0 .. 2]

\* The page the application was opened on, and at most one plan after it.
Entry     == {"base", "plan"}
Histories == {e \in Seq(Entry) :
                 Len(e) \in 1 .. 2 /\ e[1] = "base" /\ (Len(e) = 2 => e[2] = "plan")}

PlanShown == generated # None /\ ~editing

\* The backdrop lies over the page. It only catches the pointer: the undo of a
\* toast and an open dialog lie above it, and the keyboard reaches what is under it.
Covered == rebuildId # 0

-----------------------------------------------------------------------------
(* Navigation.                                                             *)

\* Mutant: pushes without looking at the entry it stands on.
HistoryEffectBlind ==
    IF generated' # None /\ ~editing' /\ view' # view
    THEN /\ entries' = Append(SubSeq(entries, 1, pos), "plan")
         /\ pos' = pos + 1
    ELSE UNCHANGED tab

\* Mutant: the effect depends on the plan alone, not on the edit form.
HistoryEffectPlanOnly ==
    IF generated' # None /\ ~editing' /\ generated' # generated /\ entries[pos] # "plan"
    THEN /\ entries' = Append(SubSeq(entries, 1, pos), "plan")
         /\ pos' = pos + 1
    ELSE UNCHANGED tab

\* The effect that runs after a commit which changed the view.
HistoryEffect ==
    IF generated' # None /\ ~editing' /\ view' # view /\ entries[pos] # "plan"
    THEN /\ entries' = Append(SubSeq(entries, 1, pos), "plan")
         /\ pos' = pos + 1
    ELSE UNCHANGED tab

\* The popstate listener: over a plan, going back opens its edit form.
OnPop ==
    /\ editing' = (editing \/ generated # None)
    /\ UNCHANGED <<generated, rebuildId, rebuildIgnored, wizardId, flights,
                   nextId, online, entries, shelf, saved>>

Back    == pos > 1 /\ pos' = pos - 1 /\ OnPop
Forward == pos < Len(entries) /\ pos' = pos + 1 /\ OnPop

-----------------------------------------------------------------------------
(* Building plans.                                                         *)

\* Mutant: shows a plan without keeping it.
AcceptUnsaved(f) ==
    /\ generated' = [req |-> f.id, input |-> f.input]
    /\ editing' = FALSE
    /\ wizardId' = 0
    /\ UNCHANGED <<shelf, saved>>
    /\ HistoryEffect

\* Mutant: the wizard stays mounted, still waiting.
AcceptWaiting(f) ==
    /\ generated' = [req |-> f.id, input |-> f.input]
    /\ editing' = FALSE
    /\ UNCHANGED wizardId
    /\ \E ok \in BOOLEAN :
          /\ saved' = ok
          /\ shelf' = IF ok THEN generated' ELSE shelf
    /\ HistoryEffect

\* savePlan, setGenerated, setEditing(false); the wizard, if any, unmounts.
Accept(f) ==
    /\ generated' = [req |-> f.id, input |-> f.input]
    /\ editing' = FALSE
    /\ wizardId' = 0
    /\ \E ok \in BOOLEAN :
          /\ saved' = ok
          /\ shelf' = IF ok THEN generated' ELSE shelf
    /\ HistoryEffect

Issue(who, trip) ==
    /\ nextId <= MaxRequests
    /\ nextId' = nextId + 1
    /\ flights' = flights \cup {[id |-> nextId, by |-> who, input |-> trip, failures |-> 0]}

Submit(trip) ==
    /\ ~PlanShown
    /\ wizardId = 0                 \* the button is disabled while pending
    /\ Issue("wizard", trip)
    /\ wizardId' = nextId
    /\ UNCHANGED <<generated, editing, rebuildId, rebuildIgnored, online,
                   entries, pos, shelf, saved>>

\* rebuildWith: moved, removed, added or restored stops and budget levers. A
\* removal undone from its toast asks again while the removal is under way; the
\* request observed before goes on, unobserved.
RebuildWith(trip) ==
    /\ PlanShown
    /\ Issue("rebuild", trip)
    /\ rebuildIgnored' = FALSE
    /\ rebuildId' = nextId
    /\ UNCHANGED <<generated, editing, wizardId, online, entries, pos, shelf, saved>>

\* The button on the backdrop.
CancelRebuild ==
    /\ Covered
    /\ rebuildIgnored' = TRUE
    /\ rebuildId' = 0
    /\ UNCHANGED <<generated, editing, wizardId, flights, nextId, online,
                   entries, pos, shelf, saved>>

\* mutateAsync resolves and onPlanReady runs, wizard on screen or not.
WizardAnswer(f) ==
    /\ f.by = "wizard"
    /\ Accept(f)
    /\ UNCHANGED <<rebuildId, rebuildIgnored>>

\* Callbacks of a mutate call fire only while its mutation is observed.
CallbacksFire(f) == f.id = rebuildId

\* Mutant: the plan is accepted in a callback of the hook, which every answer
\* fires, under the flag of the latest rebuild.
RebuildAnswerOfHook(f) ==
    /\ f.by = "rebuild"
    /\ rebuildId' = IF CallbacksFire(f) THEN 0 ELSE rebuildId
    /\ IF ~rebuildIgnored
       THEN Accept(f)
       ELSE UNCHANGED <<generated, editing, wizardId, entries, pos, shelf, saved>>
    /\ UNCHANGED rebuildIgnored

RebuildAnswer(f) ==
    /\ f.by = "rebuild"
    /\ rebuildId' = IF CallbacksFire(f) THEN 0 ELSE rebuildId
    /\ IF CallbacksFire(f) /\ ~rebuildIgnored
       THEN Accept(f)
       ELSE UNCHANGED <<generated, editing, wizardId, entries, pos, shelf, saved>>
    /\ UNCHANGED rebuildIgnored

Answer(f) ==
    /\ online
    /\ flights' = flights \ {f}
    /\ WizardAnswer(f) \/ RebuildAnswer(f)
    /\ UNCHANGED <<nextId, online>>

\* Mutant: the count starts over instead of ending the attempts.
RetryForever(f) ==
    /\ flights' = (flights \ {f}) \cup {[f EXCEPT !.failures = (f.failures + 1) % 3]}
    /\ UNCHANGED <<generated, editing, rebuildId, rebuildIgnored, wizardId,
                   nextId, online, entries, pos, shelf, saved>>

\* A lost connection, the client's timeout or a 5xx: tried three times in all.
Retry(f) ==
    /\ f.failures < 2
    /\ flights' = (flights \ {f}) \cup {[f EXCEPT !.failures = f.failures + 1]}
    /\ UNCHANGED <<generated, editing, rebuildId, rebuildIgnored, wizardId,
                   nextId, online, entries, pos, shelf, saved>>

\* The third failure, or an error that no retry cures.
GiveUp(f) ==
    /\ flights' = flights \ {f}
    /\ rebuildId' = IF f.by = "rebuild" /\ CallbacksFire(f) THEN 0 ELSE rebuildId
    /\ wizardId' = IF f.id = wizardId THEN 0 ELSE wizardId
    /\ UNCHANGED <<generated, editing, rebuildIgnored, nextId, online,
                   entries, pos, shelf, saved>>

\* Mutations pause while the browser is offline.
Settle(f) == Answer(f) \/ (online /\ (Retry(f) \/ GiveUp(f)))

-----------------------------------------------------------------------------
(* Moving between the pages.                                               *)

\* «ویرایش ورودی‌ها»
Edit ==
    /\ PlanShown
    /\ editing' = TRUE
    /\ UNCHANGED <<generated, rebuildId, rebuildIgnored, wizardId, flights,
                   nextId, online, entries, pos, shelf, saved>>

\* «بازگشت به برنامهٔ فعلی — بدون تغییر»
CancelEdit ==
    /\ editing /\ generated # None
    /\ editing' = FALSE
    /\ wizardId' = 0
    /\ UNCHANGED generated
    /\ HistoryEffect
    /\ UNCHANGED <<rebuildId, rebuildIgnored, flights, nextId, online, shelf, saved>>

\* «سفر جدید»
New ==
    /\ PlanShown
    /\ generated' = None
    /\ editing' = FALSE
    /\ UNCHANGED <<rebuildId, rebuildIgnored, wizardId, flights, nextId, online,
                   entries, pos, shelf, saved>>

\* A trip of the account, chosen from the app bar: a fresh wizard, no plan.
LoadTrip ==
    /\ generated' = None
    /\ wizardId' = 0
    /\ UNCHANGED <<editing, rebuildId, rebuildIgnored, flights, nextId, online,
                   entries, pos, shelf, saved>>

-----------------------------------------------------------------------------
(* Opening the application.                                                *)

Cached == {None, shelf}     \* None: written by a version with another contract

\* A fresh page: state from the cache, or a shared trip built at once if online.
OpenWith(shared, here) ==
    /\ editing' = FALSE /\ wizardId' = 0 /\ rebuildIgnored' = FALSE
    /\ IF shared = NoTrip
       THEN /\ generated' \in Cached
            /\ rebuildId' = 0 /\ flights' = {} /\ UNCHANGED nextId
       ELSE /\ generated' = None
            /\ IF online /\ nextId <= MaxRequests
               THEN /\ rebuildId' = nextId
                    /\ flights' = {[id |-> nextId, by |-> "rebuild",
                                    input |-> shared, failures |-> 0]}
                    /\ nextId' = nextId + 1
               ELSE rebuildId' = 0 /\ flights' = {} /\ UNCHANGED nextId
    /\ IF generated' # None /\ here.entries[here.pos] # "plan"
       THEN /\ entries' = Append(SubSeq(here.entries, 1, here.pos), "plan")
            /\ pos' = here.pos + 1
       ELSE entries' = here.entries /\ pos' = here.pos
    /\ UNCHANGED <<online, shelf, saved>>

NewTab == [entries |-> <<"base">>, pos |-> 1]

\* Reloading keeps the tab's history; a link or the icon opens a new tab.
Reload == OpenWith(NoTrip, [entries |-> entries, pos |-> pos])
Launch == \E shared \in Trips \cup {NoTrip} : OpenWith(shared, NewTab)

Network ==
    /\ online' = ~online
    /\ UNCHANGED <<generated, editing, rebuildId, rebuildIgnored, wizardId,
                   flights, nextId, entries, pos, shelf, saved>>

\* First visit of the device, before anything was built or shared.
Init ==
    /\ generated = None /\ editing = FALSE
    /\ rebuildId = 0 /\ rebuildIgnored = FALSE /\ wizardId = 0
    /\ flights = {} /\ nextId = 1
    /\ online \in BOOLEAN
    /\ entries = <<"base">> /\ pos = 1
    /\ shelf = None /\ saved = TRUE

Next ==
    \/ \E trip \in Trips : Submit(trip) \/ RebuildWith(trip)
    \/ \E f \in flights : Settle(f)
    \/ CancelRebuild
    \/ Edit \/ CancelEdit \/ New \/ LoadTrip
    \/ Back \/ Forward
    \/ Reload \/ Launch
    \/ Network

Spec == Init /\ [][Next]_vars

\* Requests end by themselves: the client's 120-second timeout, three attempts.
Fairness == WF_vars(\E f \in flights : f.id = rebuildId /\ Settle(f))

FairSpec == Spec /\ Fairness

-----------------------------------------------------------------------------
(* Properties.                                                             *)

\* Every variable keeps its type; request numbers stay below the next one.
TypeOK ==
    /\ generated \in Plans \cup {None}
    /\ editing \in BOOLEAN /\ rebuildIgnored \in BOOLEAN
    /\ online \in BOOLEAN /\ saved \in BOOLEAN
    /\ nextId \in 1 .. MaxRequests + 1
    /\ rebuildId \in Nat /\ rebuildId < nextId
    /\ wizardId \in Nat /\ wizardId < nextId
    /\ flights \in SUBSET Flights
    /\ \A f \in flights : f.id < nextId
    /\ entries \in Histories
    /\ pos \in 1 .. Len(entries)
    /\ shelf \in Plans \cup {None}

(* While a plan is on screen the browser's back button has one stop, the   *)
(* edit form, before it leaves the application: the current entry is the   *)
(* plan's own and an entry lies behind it. (App.tsx: the push effect and   *)
(* the popstate listener, over reloads, forward moves and late answers.)   *)
PlanHasBackStop == PlanShown => pos = 2 /\ entries[pos] = "plan"

(* A reload brings back the plan the user was looking at or editing: what  *)
(* is kept on the device is the plan of the screen, unless the save of     *)
(* that plan found no room. (accept and savePlan, from every path a plan   *)
(* comes by.)                                                              *)
ShelfHoldsPlan == generated # None /\ saved => shelf = generated

(* Neither the browser's back button nor a reload loses the plan: both     *)
(* find what they need of it.                                              *)
PlanIsKept == PlanHasBackStop /\ ShelfHoldsPlan

(* The backdrop always has a request under it whose answer will lift it,   *)
(* and the wizard's disabled button one whose answer enables it again: no  *)
(* cancel, remount or reload leaves a spinner without its request.         *)
SpinnersHaveRequests ==
    /\ rebuildId # 0 => \E f \in flights : f.by = "rebuild" /\ f.id = rebuildId
    /\ wizardId # 0 => \E f \in flights : f.by = "wizard" /\ f.id = wizardId

(* An answer that changes the plan answers an open question: a wizard's    *)
(* request or the rebuild still observed, never one that was cancelled or  *)
(* superseded. (The rebuild half of App.tsx, the comment of                *)
(* rebuildIgnored: a late answer must not change the plan unannounced.)    *)
Asked == {[id |-> f.id, input |-> f.input] :
             f \in {g \in flights : g.by = "wizard" \/ g.id = rebuildId}}

Promise == INSTANCE PlanPromise WITH shown <- generated, asked <- Asked

PromiseKept == Promise!PromiseSpec

(* The backdrop lifts by itself once the network stays up: no plan build   *)
(* hides the page for ever.                                                *)
BackdropLifts == <>[]online => (Covered ~> ~Covered)
=============================================================================
