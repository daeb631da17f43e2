---------------------------- MODULE AccountPage ----------------------------
(***************************************************************************)
(* The account on the page (web/src/features/auth: session.ts,             *)
(* AccountButton.tsx, SaveTripButton.tsx) beside AccountServer: the held   *)
(* session and its copy in localStorage, the list of saved trips in the    *)
(* query cache, one entry for whoever is signed in, and the requests whose *)
(* answers the page still takes.                                           *)
(*                                                                         *)
(* A render that meets the error 401 drops the session; effects of a       *)
(* render run before the page takes the next event. A query pauses while   *)
(* the browser is offline, before it is sent and before it is sent again.  *)
(* A mutation pauses as well: it is taken to be made when it leaves, for   *)
(* it reads the session only then.                                         *)
(***************************************************************************)
EXTENDS AccountServer

VARIABLES
    session, stored,    \* [token, user] or NoSession
    open,               \* the dialog of saved trips is open
    list,               \* entry ['me', 'trips'] of the query cache
    wants,              \* a render has asked for the list, its effect is to run
    online,             \* what the browser believes about the network
    paused,             \* the list waits for it: "no", or its "first" try, or "again"
    loggedOut,          \* history: tokens the page has logged out
    mine,               \* history: trips saved here, as the page was told, and not removed here
    lagging             \* history: the list under way may have been read before the last save

account  == <<session, stored, open>>
network  == <<online, paused>>
pageVars == <<account, list, wants, network, loggedOut, mine, lagging>>
vars     == <<serverVars, pageVars>>

NoSession == [token |-> 0, user |-> Nobody]
NoList    == [known |-> FALSE, trips |-> {}, error |-> "none"]

MustDrop == session # NoSession /\ list.error = "dead"
\* What was to be rendered and run has been.
Settled  == ~MustDrop /\ ~wants

Heard(kinds) == {c \in Slots : calls[c].heard /\ calls[c].kind \in kinds}
Listing      == calls[ListSlot].heard
Underway     == Listing \/ paused # "no"
Hang(c)      == calls' = [calls EXCEPT ![c] = Free]

\* Mutant: what storage holds is left when there is no session to write.
WriteOver(next) ==
    /\ session' = next
    /\ stored' \in IF next = NoSession THEN {stored} ELSE {next, stored}

\* write: the session of a full storage is the page's alone.
Write(next) ==
    /\ session' = next
    /\ stored' \in IF next = NoSession THEN {NoSession} ELSE {next, stored}

-----------------------------------------------------------------------------
(* Signing in and out.                                                     *)

\* Two dialogs, each waiting for its answer before it asks again.
Submit(c, kind, user) ==
    /\ Settled /\ session = NoSession /\ c \in FreeSlots
    /\ Cardinality(Heard({"register", "login"})) < 2
    /\ calls' = [calls EXCEPT ![c] = Request(kind, 0, user, 0, TRUE)]
    /\ UNCHANGED <<store, history, pageVars>>

\* The list is mounted with the session; an open dialog asks for the trips
\* anew, and shows an error again if it has any trips to show beside it.
SignedIn(c) ==
    /\ Settled /\ At(c, "answered", {"register", "login"})
    /\ Hang(c)
    /\ IF calls[c].reply = "ok"
       THEN /\ Write([token |-> calls[c].token, user |-> calls[c].user])
            /\ mine' = {}
            /\ LET mounts == session = NoSession /\ open IN
                  /\ wants' = mounts
                  /\ list' = IF mounts /\ ~list.known THEN NoList ELSE list
       ELSE UNCHANGED <<session, stored, list, wants, mine>>
    /\ UNCHANGED <<store, history, open, network, loggedOut, lagging>>

\* logout, from the menu: the server hears of it if it can be reached.
Logout ==
    /\ Settled /\ session # NoSession /\ ~open
    /\ Write(NoSession)
    /\ loggedOut' = loggedOut \cup {session.token}
    /\ mine' = {}
    /\ \/ \E c \in FreeSlots :
             calls' = [calls EXCEPT ![c] = Request("logout", session.token, Nobody, 0, FALSE)]
       \/ UNCHANGED calls
    /\ UNCHANGED <<store, history, open, list, wants, network, lagging>>

\* dropSession, called by the render of the list.
DropDead ==
    /\ MustDrop
    /\ Write(NoSession)
    /\ mine' = {}
    /\ UNCHANGED <<serverVars, open, list, wants, network, loggedOut, lagging>>

Reload ==
    /\ session' = stored /\ UNCHANGED stored
    /\ open' = FALSE /\ list' = NoList /\ wants' = FALSE
    /\ online' = TRUE /\ paused' = "no"
    /\ mine' = {} /\ lagging' = FALSE
    /\ calls' = [c \in Slots |-> IF c = ListSlot \/ calls[c].step = "answered" THEN Free
                                 ELSE [calls[c] EXCEPT !.heard = FALSE]]
    /\ UNCHANGED <<store, history, loggedOut>>

-----------------------------------------------------------------------------
(* The list.                                                               *)

OpenDialog ==
    /\ Settled /\ session # NoSession /\ ~open
    /\ open' = TRUE /\ wants' = TRUE
    /\ UNCHANGED <<serverVars, session, stored, list, network, loggedOut, mine, lagging>>

CloseDialog ==
    /\ Settled /\ open /\ session # NoSession
    /\ open' = FALSE
    /\ UNCHANGED <<serverVars, session, stored, list, wants, network, loggedOut, mine, lagging>>

\* The request for the list, with the session of the moment: it is sent, or
\* waits for the network.
Ask(try) ==
    IF online
    THEN /\ calls' = [calls EXCEPT ![ListSlot] =
                [Request("list", session.token, Nobody, 0, TRUE) EXCEPT !.again = (try = "again")]]
         /\ paused' = "no"
    ELSE Hang(ListSlot) /\ paused' = try

\* The effect: a list under way is waited for, whoever asked for it.
Fetch ==
    /\ wants /\ ~MustDrop
    /\ wants' = FALSE
    /\ IF Underway
       THEN UNCHANGED <<calls, list, paused, lagging>>
       ELSE IF session = NoSession
       THEN list' = [list EXCEPT !.error = "other"] /\ UNCHANGED <<calls, paused, lagging>>
       ELSE /\ Ask("first")
            /\ list' = IF list.known THEN list ELSE NoList
            /\ lagging' = FALSE
    /\ UNCHANGED <<store, history, account, online, loggedOut, mine>>

\* The network comes and goes. With it comes a dialog that asks anew.
Network ==
    /\ Settled
    /\ online' = ~online
    /\ wants' = (online' /\ session # NoSession /\ open)
    /\ UNCHANGED <<serverVars, account, list, paused, loggedOut, mine, lagging>>

\* Mutant: nothing goes on by itself.
ResumeNever == FALSE /\ UNCHANGED vars

\* A paused list goes on; with nobody signed in it cannot be asked for.
Resume ==
    /\ Settled /\ paused # "no" /\ online
    /\ IF session = NoSession
       THEN /\ paused' = "no" /\ UNCHANGED calls
            /\ list' = [list EXCEPT !.error = "other"]
       ELSE Ask(paused) /\ UNCHANGED list
    /\ UNCHANGED <<store, history, account, wants, online, loggedOut, mine, lagging>>

Listed(c) ==
    /\ Settled /\ At(c, "answered", {"list"})
    /\ Hang(c)
    /\ list' = IF calls[c].reply = "ok"
               THEN [known |-> TRUE, trips |-> calls[c].seen, error |-> "none"]
               ELSE [list EXCEPT !.error = "dead"]
    /\ UNCHANGED <<store, history, account, wants, network, loggedOut, mine, lagging>>

\* Nobody has been signed in for five minutes.
Forget ==
    /\ session = NoSession /\ ~wants /\ list # NoList /\ ~Underway
    /\ list' = NoList
    /\ UNCHANGED <<serverVars, account, wants, network, loggedOut, mine, lagging>>

-----------------------------------------------------------------------------
(* Trips.                                                                  *)

\* From the dialog, or from the button over the plan.
Save(c) ==
    /\ Settled /\ session # NoSession /\ c \in FreeSlots
    /\ Cardinality(Heard({"save"})) < 2
    /\ calls' = [calls EXCEPT ![c] = Request("save", session.token, Nobody, 0, TRUE)]
    /\ UNCHANGED <<store, history, pageVars>>

Remove(c, trip) ==
    /\ Settled /\ session # NoSession /\ open /\ c \in FreeSlots
    /\ list.known /\ list.error = "none" /\ trip \in list.trips
    /\ \A r \in Heard({"remove"}) : calls[r].token # session.token
    /\ calls' = [calls EXCEPT ![c] = Request("remove", session.token, Nobody, trip, TRUE)]
    /\ UNCHANGED <<store, history, pageVars>>

\* Mutant: the list under way is waited for.
InvalidateGently(c) == wants' = (session # NoSession /\ open) /\ Hang(c) /\ UNCHANGED paused

\* invalidateQueries: a dialog on screen asks again, and does not wait for a
\* list under way unless it is the first.
Invalidate(c) ==
    LET active == session # NoSession /\ open IN
    /\ wants' = active
    /\ calls' = [calls EXCEPT ![c] = Free,
                             ![ListSlot] = IF active /\ list.known THEN Free ELSE @]
    /\ paused' = IF active /\ list.known THEN "no" ELSE paused

Changed(c) ==
    /\ Settled /\ At(c, "answered", {"save", "remove"})
    /\ IF calls[c].reply = "ok"
       THEN /\ Invalidate(c)
            /\ lagging' = (lagging \/ (Listing /\ ~(open /\ list.known)))
            /\ mine' = IF calls[c].token # session.token THEN mine
                       ELSE IF calls[c].kind = "save" THEN mine \cup {calls[c].trip}
                       ELSE mine \ {calls[c].trip}
       ELSE Hang(c) /\ UNCHANGED <<wants, paused, lagging, mine>>
    /\ UNCHANGED <<store, history, account, list, online, loggedOut>>

-----------------------------------------------------------------------------
\* Mutant: a list that fails is asked for again for as long as it takes.
AgainAlways(c) == session # NoSession

\* Mutant: it is asked for again without looking at the session.
AgainSignedOut(c) == ~calls[c].again

\* A list is asked for once more, with the session of the moment.
Again(c) == session # NoSession /\ ~calls[c].again

\* No network, an error of the server or its silence for twenty seconds: the
\* server may go on without a listener.
Fail(c) ==
    /\ Settled /\ calls[c].heard
    /\ IF calls[c].kind = "list"
       THEN IF Again(c)
            THEN Ask("again") /\ UNCHANGED list
            ELSE Hang(c) /\ list' = [list EXCEPT !.error = "other"] /\ UNCHANGED paused
       ELSE /\ \/ Hang(c)
               \/ calls[c].step # "answered" /\ calls' = [calls EXCEPT ![c].heard = FALSE]
            /\ UNCHANGED <<list, paused>>
    /\ UNCHANGED <<store, history, account, wants, online, loggedOut, mine, lagging>>

-----------------------------------------------------------------------------
Init ==
    /\ ServerInit
    /\ session = NoSession /\ stored = NoSession /\ open = FALSE
    /\ list = NoList /\ wants = FALSE /\ online = TRUE /\ paused = "no"
    /\ loggedOut = {} /\ mine = {} /\ lagging = FALSE

Served(c)   == ServerStep(c) /\ UNCHANGED pageVars
Answer(c)   == SignedIn(c) \/ Listed(c) \/ Changed(c)
Rendering   == DropDead \/ Fetch

Person ==
    \/ \E c \in Slots, user \in People, kind \in {"register", "login"} : Submit(c, kind, user)
    \/ Logout \/ Reload \/ OpenDialog \/ CloseDialog
    \/ \E c \in Slots : Save(c) \/ \E trip \in TripIds : Remove(c, trip)

World ==
    /\ \/ \E s \in sessions : Expire(s)
       \/ \E c \in Slots : Abort(c)
    /\ UNCHANGED pageVars

Next ==
    \/ Person \/ World \/ Rendering \/ Forget \/ Network \/ Resume
    \/ \E c \in Slots : Served(c) \/ Answer(c) \/ Fail(c)

Spec == Init /\ [][Next]_vars

\* A list that was sent is answered, or the twenty seconds it is given run
\* out (the other requests need not end: a removal has no time limit); one
\* that is paused goes on while there is a network; React renders.
FairSpec ==
    /\ Spec /\ WF_vars(Rendering) /\ WF_vars(Resume)
    /\ WF_vars(Served(ListSlot) \/ Answer(ListSlot) \/ Fail(ListSlot))

-----------------------------------------------------------------------------
(* Properties.                                                             *)

\* A request that bears a token bears one that was issued.
TypeOK ==
    /\ ServerTypeOK
    /\ {session, stored} \subseteq Session \cup {NoSession}
    /\ list \in [known : BOOLEAN, trips : SUBSET TripIds, error : {"none", "dead", "other"}]
    /\ {open, wants, online, lagging} \subseteq BOOLEAN
    /\ paused \in {"no", "first", "again"}
    /\ loggedOut \subseteq Tokens /\ mine \subseteq TripIds
    /\ \A c \in Slots : calls[c].kind = "list" <=> c = ListSlot /\ calls[c] # Free
    /\ \A c \in Heard(Bearing) : calls[c].token # 0

(* A session that was logged out of does not come back, on the page or     *)
(* with a reload, whatever logins were still under way.                    *)
LogoutIsFinal == {session.token, stored.token} \cap loggedOut = {}

(* What the page holds of a session: a token that was issued, and none     *)
(* that was given up.                                                      *)
SessionsHold == TypeOK /\ LogoutIsFinal

(* SaveTripButton.tsx:47: with nothing under way, the dialog shows every   *)
(* trip that was saved here and is still on the account, unless a list     *)
(* that was asked for before the save came in after it.                    *)
Quiet == session # NoSession /\ open /\ Settled /\ ~Underway /\ list.error = "none"
FreshUnlessLagging ==
    Quiet /\ ~lagging => mine \cap (trips[session.user] \ restored) \subseteq list.trips

(* The spinner of the dialog gives way to the trips or to an error, if the *)
(* browser stays online from some moment on: without a network a list that *)
(* is paused spins for as long as the person waits.                        *)
Loading == session # NoSession /\ open /\ ~list.known /\ list.error = "none"
LoadingEnds == <>[]online => (Loading ~> ~Loading)
=============================================================================
