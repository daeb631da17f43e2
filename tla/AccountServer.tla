--------------------------- MODULE AccountServer ---------------------------
(***************************************************************************)
(* Accounts, sessions and saved trips on the server (backend/src:          *)
(* LeaderTrip.Application/Auth/AuthCommands.cs, LeaderTrip.Api/Endpoints/  *)
(* AuthEndpoints.cs, over either store of accounts). Requests run side by  *)
(* side and touch the store one call at a time: a step of a request is     *)
(* what it does between two awaits. Who has sent a request, and whether    *)
(* the sender still listens, is of the call; AccountPage adds the page.    *)
(***************************************************************************)
EXTENDS Naturals, FiniteSets

CONSTANTS
    People,         \* an account is one e-mail address, a person's
    Slots,          \* requests that can be under way at once
    ListSlot,       \* the slot of the page's list of trips, which it has one of
    MaxTokens,      \* bound: sessions ever issued
    MaxTrips,       \* bound: trips ever made
    Quota,          \* trips one account may keep
    Nobody

ASSUME AccountAssumption ==
    /\ Nobody \notin People /\ ListSlot \in Slots
    /\ MaxTokens \in Nat /\ MaxTrips \in Nat /\ Quota \in Nat \ {0}

VARIABLES
    accounts,       \* SUBSET People
    sessions,       \* live sessions, [token, user]
    issued,         \* tokens issued
    trips,          \* [People -> set of trip ids]
    made,           \* trip ids made
    calls,          \* [Slots -> Call]
    overlapped,     \* history: accounts for which two new trips were let in at once
    restored        \* history: trips an update made again after they were deleted

store      == <<accounts, sessions, issued, trips, made>>
history    == <<overlapped, restored>>
serverVars == <<store, calls, history>>

Tokens  == 1 .. MaxTokens
TripIds == 1 .. MaxTrips
Bearing == {"list", "save", "update", "remove", "logout"}
Session == [token : Tokens, user : People]
Call    == [kind : Bearing \cup {"register", "login", "none"},
            token : Tokens \cup {0}, user : People \cup {Nobody}, trip : TripIds \cup {0},
            step : {"free", "arrived", "passed", "writing", "issuing", "answered"},
            reply : {"none", "ok", "dead", "refused"},
            heard : BOOLEAN, again : BOOLEAN, seen : SUBSET TripIds]

Free == [kind |-> "none", token |-> 0, user |-> Nobody, trip |-> 0, step |-> "free",
         reply |-> "none", heard |-> FALSE, again |-> FALSE, seen |-> {}]

Request(kind, token, user, trip, heard) ==
    [Free EXCEPT !.kind = kind, !.token = token, !.user = user, !.trip = trip,
                 !.step = "arrived", !.heard = heard]

\* Slots are alike: a request takes one that is free, whichever.
FreeSlots == LET free == {c \in Slots \ {ListSlot} : calls[c].step = "free"} IN
             IF free = {} THEN {} ELSE {CHOOSE c \in free : TRUE}
Live(token) == \E s \in sessions : s.token = token
UserOf(token) == (CHOOSE s \in sessions : s.token = token).user

At(c, step, kinds) == calls[c].step = step /\ calls[c].kind \in kinds
Goes(c, step)      == calls' = [calls EXCEPT ![c].step = step]

\* The answer, if somebody listens for it.
Answered(call, reply, token, trip, seen) ==
    IF call.heard
    THEN [call EXCEPT !.step = "answered", !.reply = reply, !.token = token,
                      !.trip = trip, !.seen = seen]
    ELSE Free
Replies(c, reply) ==
    calls' = [calls EXCEPT ![c] = Answered(@, reply, @.token, @.trip, {})]

-----------------------------------------------------------------------------
(* Registration and login.                                                 *)

\* Mutant: the session is issued and the account is not kept.
CreateAccountUnsaved(c) ==
    /\ At(c, "arrived", {"register"})
    /\ Goes(c, "issuing")
    /\ UNCHANGED <<accounts, sessions, issued, trips, made, history>>

\* The e-mail address is unique in the store: the second of two loses.
CreateAccount(c) ==
    /\ At(c, "arrived", {"register"})
    /\ IF calls[c].user \in accounts
       THEN Replies(c, "refused") /\ UNCHANGED accounts
       ELSE accounts' = accounts \cup {calls[c].user} /\ Goes(c, "issuing")
    /\ UNCHANGED <<sessions, issued, trips, made, history>>

CheckPassword(c) ==
    /\ At(c, "arrived", {"login"})
    /\ IF calls[c].user \in accounts THEN Goes(c, "issuing") ELSE Replies(c, "refused")
    /\ UNCHANGED <<store, history>>

IssueSession(c) ==
    /\ calls[c].step = "issuing" /\ issued < MaxTokens
    /\ issued' = issued + 1
    /\ sessions' = sessions \cup {[token |-> issued + 1, user |-> calls[c].user]}
    /\ calls' = [calls EXCEPT ![c] = Answered(@, "ok", issued + 1, 0, {})]
    /\ UNCHANGED <<accounts, trips, made, history>>

-----------------------------------------------------------------------------
(* Requests that bear a token.                                             *)

\* BearerFilter.
Filter(c) ==
    /\ At(c, "arrived", Bearing)
    /\ IF Live(calls[c].token)
       THEN calls' = [calls EXCEPT ![c].step = "passed", ![c].user = UserOf(calls[c].token)]
       ELSE Replies(c, "dead")
    /\ UNCHANGED <<store, history>>

Revoke(c) ==
    /\ At(c, "passed", {"logout"})
    /\ sessions' = {s \in sessions : s.token # calls[c].token}
    /\ Replies(c, "ok")
    /\ UNCHANGED <<accounts, issued, trips, made, history>>

List(c) ==
    /\ At(c, "passed", {"list"})
    /\ calls' = [calls EXCEPT ![c] = Answered(@, "ok", @.token, 0, trips[@.user])]
    /\ UNCHANGED <<store, history>>

Writing(user) == {c \in Slots : At(c, "writing", {"save"}) /\ calls[c].user = user}

\* Mutant: the trips are not counted.
HasRoomAlways(user) == TRUE
\* Mutant: one trip too many is let in.
HasRoomForOneMore(user) == Cardinality(trips[user]) <= Quota

HasRoom(user) == Cardinality(trips[user]) < Quota

\* Mutant: an update is let in with the id of any trip.
OnAccountOfAnybody(user, trip) == \E u \in People : trip \in trips[u]

OnAccount(user, trip) == trip \in trips[user]

\* A trip is new, and there has to be room for it, or on this account.
CheckSave(c) ==
    /\ At(c, "passed", {"save", "update"})
    /\ LET call == calls[c] IN
       IF IF call.kind = "save" THEN HasRoom(call.user) ELSE OnAccount(call.user, call.trip)
       THEN /\ Goes(c, "writing")
            /\ overlapped' = IF call.kind = "save" /\ Writing(call.user) # {}
                             THEN overlapped \cup {call.user} ELSE overlapped
       ELSE Replies(c, "refused") /\ UNCHANGED overlapped
    /\ UNCHANGED <<store, restored>>

Insert(c) ==
    /\ At(c, "writing", {"save"}) /\ made < MaxTrips
    /\ made' = made + 1
    /\ trips' = [trips EXCEPT ![calls[c].user] = @ \cup {made + 1}]
    /\ calls' = [calls EXCEPT ![c] = Answered(@, "ok", @.token, made + 1, {})]
    /\ UNCHANGED <<accounts, sessions, issued, history>>

\* A trip deleted since it was found is made again, or the database refuses.
Upsert(c) ==
    /\ At(c, "writing", {"update"})
    /\ LET gone == calls[c].trip \notin trips[calls[c].user] IN
       \/ /\ trips' = [trips EXCEPT ![calls[c].user] = @ \cup {calls[c].trip}]
          /\ restored' = IF gone THEN restored \cup {calls[c].trip} ELSE restored
          /\ Replies(c, "ok")
       \/ /\ gone
          /\ Replies(c, "refused") /\ UNCHANGED <<trips, restored>>
    /\ UNCHANGED <<accounts, sessions, issued, made, overlapped>>

Delete(c) ==
    /\ At(c, "passed", {"remove"})
    /\ trips' = [trips EXCEPT ![calls[c].user] = @ \ {calls[c].trip}]
    /\ Replies(c, IF calls[c].trip \in trips[calls[c].user] THEN "ok" ELSE "refused")
    /\ UNCHANGED <<accounts, sessions, issued, made, history>>

ServerStep(c) ==
    \/ CreateAccount(c) \/ CheckPassword(c) \/ IssueSession(c)
    \/ Filter(c) \/ Revoke(c) \/ List(c)
    \/ CheckSave(c) \/ Insert(c) \/ Upsert(c) \/ Delete(c)

-----------------------------------------------------------------------------
\* Thirty days have passed.
Expire(s) ==
    /\ s \in sessions
    /\ sessions' = sessions \ {s}
    /\ UNCHANGED <<accounts, issued, trips, made, calls, history>>

\* A request nobody listens to is cancelled between two awaits.
Abort(c) ==
    /\ calls[c].step # "free" /\ ~calls[c].heard
    /\ calls' = [calls EXCEPT ![c] = Free]
    /\ UNCHANGED <<store, history>>

\* What any client may send, with the tokens and the trips it may know of.
Sends(c, kind, token, user, trip) ==
    calls' = [calls EXCEPT ![c] = Request(kind, token, user, trip, FALSE)]

Arrive(c) ==
    /\ c \in FreeSlots
    /\ \/ \E kind \in {"register", "login"}, user \in People : Sends(c, kind, 0, user, 0)
       \/ \E kind \in {"list", "save", "logout"}, token \in 1 .. issued :
             Sends(c, kind, token, Nobody, 0)
       \/ \E kind \in {"update", "remove"}, token \in 1 .. issued, trip \in 1 .. made :
             Sends(c, kind, token, Nobody, trip)
    /\ UNCHANGED <<store, history>>

ServerInit ==
    /\ accounts = {} /\ sessions = {} /\ issued = 0
    /\ trips = [u \in People |-> {}] /\ made = 0
    /\ calls = [c \in Slots |-> Free] /\ overlapped = {} /\ restored = {}

ServerNext ==
    \/ \E c \in Slots : Arrive(c) \/ ServerStep(c) \/ Abort(c)
    \/ \E s \in sessions : Expire(s)

ServerSpec == ServerInit /\ [][ServerNext]_serverVars

-----------------------------------------------------------------------------
(* Properties.                                                             *)

\* A session is of an account, and so is a request that was let in.
ServerTypeOK ==
    /\ accounts \subseteq People
    /\ issued \in 0 .. MaxTokens /\ made \in 0 .. MaxTrips
    /\ sessions \subseteq [token : 1 .. issued, user : accounts]
    /\ trips \in [People -> SUBSET (1 .. made)]
    /\ calls \in [Slots -> Call]
    /\ \A c \in Slots : calls[c].step \in {"issuing", "passed", "writing"} => calls[c].user \in accounts
    /\ overlapped \subseteq People /\ restored \subseteq TripIds

(* An account keeps no more trips than its quota (AuthEndpoints.cs:112),   *)
(* however the requests of its devices interleave, unless two new trips    *)
(* passed the count before either was written, and not counting a trip     *)
(* that a late update made again after it was deleted.                     *)
QuotaUnlessOverlap ==
    \A u \in People \ overlapped : Cardinality(trips[u] \ restored) <= Quota

(* AuthEndpoints.cs:118: an update with the id of somebody else's trip is  *)
(* refused, and no trip ends up on two accounts, deleted and made again    *)
(* meanwhile or not.                                                       *)
TripHasOneOwner ==
    \A u, v \in People : u # v => trips[u] \cap trips[v] = {}
=============================================================================
