---------------------------- MODULE PlanPromise ----------------------------
(***************************************************************************)
(* What the browser application promises about the plan on screen, told    *)
(* without wizards, overlays, browser history or mutation objects.         *)
(*                                                                         *)
(* A plan comes on screen either because the application has just been     *)
(* opened and reads it from the device, or as the answer to a question     *)
(* that is still open: asked in this session, not answered yet, not called off     *)
(* and not asked anew.                                                     *)
(***************************************************************************)
EXTENDS Naturals

CONSTANTS Trips,        \* the trip inputs a user may fill in
          MaxRequests,  \* questions asked are numbered 1 .. MaxRequests
          None          \* no plan

VARIABLES shown,  \* the plan on screen, or kept behind an open edit form
          shelf,  \* the plan kept on the device
          asked   \* the open questions: requests that may still bring a plan

promiseVars == <<shown, shelf, asked>>

Plans     == [req : 1 .. MaxRequests, input : Trips]
Questions == [id : 1 .. MaxRequests, input : Trips]

PromiseInit ==
    /\ shelf = None
    /\ shown = None
    /\ asked \in SUBSET Questions

Ask(q) ==
    /\ asked' = asked \cup {q}
    /\ UNCHANGED <<shown, shelf>>

\* Asked in the place of a question that is still open, which it closes.
AskInstead(q, old) ==
    /\ old \in asked
    /\ asked' = (asked \ {old}) \cup {q}
    /\ UNCHANGED <<shown, shelf>>

(* The answer is shown with the input it was computed from, and kept on    *)
(* the device unless the device has no room for it.                        *)
Answer(q) ==
    /\ q \in asked
    /\ shown' = [req |-> q.id, input |-> q.input]
    /\ shelf' \in {shown', shelf}
    /\ asked' = asked \ {q}

\* Failed, or called off by the user.
Close(q) ==
    /\ q \in asked
    /\ asked' = asked \ {q}
    /\ UNCHANGED <<shown, shelf>>

PutAside ==
    /\ shown' = None
    /\ UNCHANGED <<shelf, asked>>

\* Questions of the earlier session die with its page.
Reopen ==
    /\ shown' \in {None, shelf}
    /\ asked' \in SUBSET Questions
    /\ UNCHANGED shelf

PromiseNext ==
    \/ \E q \in Questions : Ask(q) \/ Answer(q) \/ Close(q)
    \/ \E q, old \in Questions : AskInstead(q, old)
    \/ PutAside
    \/ Reopen

PromiseSpec == PromiseInit /\ [][PromiseNext]_promiseVars
=============================================================================
