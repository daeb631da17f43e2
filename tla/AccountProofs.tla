--------------------------- MODULE AccountProofs ---------------------------
(***************************************************************************)
(* Theorems about AccountServer, for any number of people, requests under  *)
(* way, sessions and trips and any quota: the quota holds on every account *)
(* that no two inserts raced on, and no trip is ever on two accounts. Then *)
(* the same with AccountPage as the client, and that no session the page   *)
(* has logged out of comes back.                                           *)
(***************************************************************************)
EXTENDS AccountPage, FiniteSetTheorems, TLAPS

Inside == {"issuing", "passed", "writing"}

(* Whoever registers or signs in is somebody.                              *)
Applicants == \A c \in Slots : calls[c].kind \in {"register", "login"} => calls[c].user \in People

(* An update about to be written is of a trip that was made, and nobody    *)
(* but its sender has that trip or is about to have it.                    *)
Updating(c) == At(c, "writing", {"update"})
UpdatesKnown ==
    \A c \in Slots : Updating(c) =>
        /\ calls[c].trip \in 1 .. made
        /\ \A v \in People : calls[c].trip \in trips[v] => v = calls[c].user
UpdatesApart ==
    \A c, d \in Slots : Updating(c) /\ Updating(d) /\ calls[c].trip = calls[d].trip
        => calls[c].user = calls[d].user

(* One insert at most is about to be written, and there is room for it.    *)
OneWriter ==
    \A u \in People \ overlapped : \A c, d \in Slots : c \in Writing(u) /\ d \in Writing(u) => c = d
RoomForWriter ==
    \A u \in People \ overlapped :
        Writing(u) # {} => Cardinality(trips[u] \ restored) < Quota

IInv == /\ ServerTypeOK /\ Applicants
        /\ TripHasOneOwner /\ UpdatesKnown /\ UpdatesApart
        /\ OneWriter /\ RoomForWriter /\ QuotaUnlessOverlap

-----------------------------------------------------------------------------
(* Answers, and what one request that moves leaves as it was.              *)

LEMMA AnswerType ==
  ASSUME NEW call \in Call, NEW reply \in {"ok", "dead", "refused"},
         NEW token \in Tokens \cup {0}, NEW trip \in TripIds \cup {0}, NEW seen \in SUBSET TripIds,
         NEW x, x = Answered(call, reply, token, trip, seen)
  PROVE  /\ x \in Call /\ x.step \in {"answered", "free"}
         /\ x.kind \in {call.kind, "none"}
         /\ x.kind # "none" => x.user = call.user
<1>1. CASE call.heard
  BY <1>1 DEF Answered, Call
<1>2. CASE ~call.heard
  BY <1>2 DEF Answered, Call, Free
<1>. QED
  BY <1>1, <1>2 DEF Call

LEMMA OneCallMoves ==
  ASSUME ServerTypeOK, Applicants, NEW c \in Slots, NEW x \in Call,
         calls' = [calls EXCEPT ![c] = x], accounts \subseteq accounts',
         x.step \in Inside => x.user \in accounts',
         x.kind \in {"register", "login"} => x.user \in People
  PROVE  /\ calls' \in [Slots -> Call] /\ Applicants'
         /\ \A d \in Slots : calls'[d].step \in Inside => calls'[d].user \in accounts'
<1>1. calls \in [Slots -> Call]
  BY DEF ServerTypeOK
<1>2. calls' \in [Slots -> Call]
  BY <1>1
<1>3. \A d \in Slots : calls'[d] = IF d = c THEN x ELSE calls[d]
  BY <1>1
<1>4. Applicants'
  BY <1>3 DEF Applicants
<1>5. \A d \in Slots : calls[d].step \in Inside => calls[d].user \in accounts
  BY DEF ServerTypeOK, Inside
<1>. QED
  BY <1>2, <1>3, <1>4, <1>5

(* A request that is not about to write afterwards adds no writer.         *)
LEMMA NoNewWriter ==
  ASSUME ServerTypeOK, NEW c \in Slots, NEW x,
         calls' = [calls EXCEPT ![c] = x], x.step # "writing"
  PROVE  /\ \A u : Writing(u)' = Writing(u) \ {c}
         /\ \A d \in Slots : Updating(d)' <=> d # c /\ Updating(d)
         /\ \A d \in Slots : d # c => calls'[d] = calls[d]
<1>1. \A d \in Slots : calls'[d] = IF d = c THEN x ELSE calls[d]
  BY DEF ServerTypeOK
<1>. QED
  BY <1>1 DEF Writing, Updating, At

LEMMA TripsAreFinite ==
  ASSUME ServerTypeOK, NEW u \in People, NEW S \in SUBSET trips[u]
  PROVE  IsFiniteSet(S) /\ Cardinality(S) \in Nat
<1>1. made \in Nat /\ S \in SUBSET (1 .. made)
  BY DEF ServerTypeOK
<1>2. IsFiniteSet(1 .. made)
  BY <1>1, FS_Interval
<1>3. IsFiniteSet(S)
  BY <1>1, <1>2, FS_Subset
<1>. QED
  BY <1>3, FS_CardinalityType

LEMMA RepliesType ==
  ASSUME ServerTypeOK, Applicants, NEW c \in Slots, NEW reply \in {"ok", "dead", "refused"},
         Replies(c, reply)
  PROVE  \E x \in Call : /\ calls' = [calls EXCEPT ![c] = x] /\ x.step \in {"answered", "free"}
                         /\ x.kind \in {"register", "login"} => x.user \in People
<1>1. calls[c] \in Call /\ calls[c].token \in Tokens \cup {0} /\ calls[c].trip \in TripIds \cup {0}
  BY DEF ServerTypeOK, Call
<1>2. calls' = [calls EXCEPT ![c] = Answered(calls[c], reply, calls[c].token, calls[c].trip, {})]
  BY DEF Replies, ServerTypeOK
<1>0. PICK x : x = Answered(calls[c], reply, calls[c].token, calls[c].trip, {})
  OBVIOUS
<1>3. /\ x \in Call /\ x.step \in {"answered", "free"}
      /\ x.kind \in {calls[c].kind, "none"}
      /\ x.kind # "none" => x.user = calls[c].user
  BY <1>0, <1>1, AnswerType
<1>4. x.kind \in {"register", "login"} => x.user \in People
  BY <1>3 DEF Applicants
<1>5. calls' = [calls EXCEPT ![c] = x]
  BY <1>0, <1>2
<1>. QED
  BY <1>3, <1>4, <1>5

-----------------------------------------------------------------------------
(* What a step does to the requests: one of them becomes x, of the type of *)
(* a request, let in only for an account and signing in only a person.     *)

Proper(x) == /\ x \in Call
             /\ x.step \in Inside => x.user \in accounts'
             /\ x.kind \in {"register", "login"} => x.user \in People
Becomes(c, x) == calls' = [calls EXCEPT ![c] = x] /\ Proper(x)

LEMMA Quietly ==
  ASSUME ServerTypeOK, Applicants, NEW c \in Slots, NEW reply \in {"ok", "dead", "refused"},
         Replies(c, reply)
  PROVE  \E x : Becomes(c, x) /\ x.step # "writing"
<1>1. PICK x \in Call : /\ calls' = [calls EXCEPT ![c] = x] /\ x.step \in {"answered", "free"}
                        /\ x.kind \in {"register", "login"} => x.user \in People
  BY RepliesType
<1>. QED
  BY <1>1 DEF Becomes, Proper, Inside

LEMMA GoesOn ==
  ASSUME ServerTypeOK, Applicants, NEW c \in Slots, NEW step \in Inside, Goes(c, step),
         calls[c].user \in accounts'
  PROVE  \E x : /\ Becomes(c, x) /\ x = [calls[c] EXCEPT !.step = step]
<1>1. calls[c] \in Call
  BY DEF ServerTypeOK
<1>2. PICK x : x = [calls[c] EXCEPT !.step = step]
  OBVIOUS
<1>3. x \in Call /\ x.step = step /\ x.user = calls[c].user /\ x.kind = calls[c].kind
  BY <1>1, <1>2 DEF Call, Inside
<1>4. calls' = [calls EXCEPT ![c] = x]
  BY <1>2 DEF Goes
<1>. QED
  BY <1>2, <1>3, <1>4 DEF Becomes, Proper, Applicants

LEMMA AnswersWith ==
  ASSUME ServerTypeOK, Applicants, NEW c \in Slots, NEW token \in Tokens \cup {0},
         NEW trip \in TripIds \cup {0}, NEW seen \in SUBSET TripIds,
         NEW x, x = Answered(calls[c], "ok", token, trip, seen),
         calls' = [calls EXCEPT ![c] = x]
  PROVE  Becomes(c, x) /\ x.step # "writing"
<1>1. calls[c] \in Call
  BY DEF ServerTypeOK
<1>2. /\ x \in Call /\ x.step \in {"answered", "free"}
      /\ x.kind \in {calls[c].kind, "none"}
      /\ x.kind # "none" => x.user = calls[c].user
  BY <1>1, AnswerType
<1>3. x.kind \in {"register", "login"} => x.user \in People
  BY <1>2 DEF Applicants
<1>. QED
  BY <1>2, <1>3 DEF Becomes, Proper, Inside

(* A user that was let in is a person, and the trips of a person are ids.  *)
LEMMA UserInside ==
  ASSUME ServerTypeOK, NEW c \in Slots, calls[c].step \in Inside
  PROVE  calls[c].user \in accounts /\ calls[c].user \in People /\ trips[calls[c].user] \in SUBSET (1 .. made)
<1>1. calls[c].user \in accounts /\ accounts \subseteq People
  BY DEF ServerTypeOK, Inside
<1>. QED
  BY <1>1 DEF ServerTypeOK

-----------------------------------------------------------------------------
(* Every step of a request makes it Proper, and the store keeps its type.  *)

StoreTypes ==
    /\ accounts \subseteq People
    /\ issued \in 0 .. MaxTokens /\ made \in 0 .. MaxTrips
    /\ sessions \subseteq [token : 1 .. issued, user : accounts]
    /\ trips \in [People -> SUBSET (1 .. made)]
    /\ overlapped \subseteq People /\ restored \subseteq TripIds

LEMMA StoreIsTyped == ServerTypeOK => StoreTypes
  BY DEF ServerTypeOK, StoreTypes

LEMMA TypedAgain ==
  ASSUME ServerTypeOK, Applicants, NEW c \in Slots, NEW x, Becomes(c, x),
         accounts \subseteq accounts', StoreTypes'
  PROVE  ServerTypeOK' /\ Applicants'
<1>1. /\ calls' \in [Slots -> Call] /\ Applicants'
      /\ \A d \in Slots : calls'[d].step \in Inside => calls'[d].user \in accounts'
  BY OneCallMoves DEF Becomes, Proper
<1>. QED
  BY <1>1 DEF ServerTypeOK, StoreTypes, Inside

LEMMA SigningIn ==
  ASSUME ServerTypeOK, Applicants, NEW c \in Slots,
         CreateAccount(c) \/ CheckPassword(c) \/ IssueSession(c)
  PROVE  /\ accounts \subseteq accounts' /\ StoreTypes'
         /\ \E x : Becomes(c, x) /\ x.step # "writing"
         /\ UNCHANGED <<trips, made, history>>
<1>. USE StoreIsTyped
<1>1. CASE CreateAccount(c)
  <2>1. calls[c].user \in People
    BY <1>1 DEF CreateAccount, At, Applicants
  <2>2. CASE calls[c].user \in accounts
    <3>1. Replies(c, "refused") /\ UNCHANGED <<store, history>>
      BY <1>1, <2>2 DEF CreateAccount, store
    <3>. QED
      BY <3>1, Quietly DEF store, StoreTypes, history
  <2>3. CASE calls[c].user \notin accounts
    <3>1. /\ accounts' = accounts \cup {calls[c].user} /\ Goes(c, "issuing")
          /\ UNCHANGED <<sessions, issued, trips, made, history>>
      BY <1>1, <2>3 DEF CreateAccount
    <3>2. PICK x : Becomes(c, x) /\ x = [calls[c] EXCEPT !.step = "issuing"]
      BY <3>1, GoesOn DEF Inside
    <3>3. x.step # "writing"
      BY <3>2 DEF Becomes, Proper, ServerTypeOK, Call
    <3>4. StoreTypes'
      BY <2>1, <3>1 DEF StoreTypes, history
    <3>. QED
      BY <3>1, <3>2, <3>3, <3>4
  <2>. QED
    BY <2>2, <2>3
<1>2. CASE CheckPassword(c)
  <2>1. UNCHANGED <<store, history>> /\ StoreTypes'
    BY <1>2 DEF CheckPassword, StoreTypes, store, history
  <2>2. CASE calls[c].user \in accounts
    <3>1. Goes(c, "issuing") /\ calls[c].user \in accounts'
      BY <1>2, <2>1, <2>2 DEF CheckPassword, store
    <3>2. PICK x : Becomes(c, x) /\ x = [calls[c] EXCEPT !.step = "issuing"]
      BY <3>1, GoesOn DEF Inside
    <3>3. x.step # "writing"
      BY <3>2 DEF Becomes, Proper, ServerTypeOK, Call
    <3>. QED
      BY <2>1, <3>2, <3>3 DEF store
  <2>3. CASE calls[c].user \notin accounts
    <3>1. Replies(c, "refused")
      BY <1>2, <2>3 DEF CheckPassword
    <3>. QED
      BY <2>1, <3>1, Quietly DEF store
  <2>. QED
    BY <2>2, <2>3
<1>3. CASE IssueSession(c)
  <2>1. /\ calls[c].step = "issuing" /\ issued < MaxTokens /\ issued' = issued + 1
        /\ sessions' = sessions \cup {[token |-> issued + 1, user |-> calls[c].user]}
        /\ UNCHANGED <<accounts, trips, made, history>>
    BY <1>3 DEF IssueSession
  <2>2. calls' = [calls EXCEPT ![c] = Answered(calls[c], "ok", issued + 1, 0, {})]
    BY <1>3 DEF IssueSession
  <2>3. issued + 1 \in Tokens /\ issued + 1 \in 1 .. issued' /\ issued' \in 0 .. MaxTokens
    BY <2>1, AccountAssumption DEF StoreTypes, Tokens
  <2>4. calls[c].user \in accounts
    BY <2>1, UserInside DEF Inside
  <2>5. 1 .. issued \subseteq 1 .. issued'
    BY <2>1 DEF StoreTypes
  <2>6. sessions' \subseteq [token : 1 .. issued', user : accounts']
    BY <2>1, <2>3, <2>4, <2>5 DEF StoreTypes
  <2>7. StoreTypes'
    BY <2>1, <2>3, <2>6 DEF StoreTypes, history
  <2>8. PICK x : x = Answered(calls[c], "ok", issued + 1, 0, {})
    OBVIOUS
  <2>9. calls' = [calls EXCEPT ![c] = x]
    BY <2>2, <2>8
  <2>10. Becomes(c, x) /\ x.step # "writing"
    BY <2>3, <2>8, <2>9, AnswersWith
  <2>. QED
    BY <2>1, <2>7, <2>10
<1>. QED
  BY <1>1, <1>2, <1>3

LEMMA FreeType == Free \in Call /\ Free.step = "free" /\ Free.kind = "none"
  BY DEF Free, Call

LEMMA RequestSent ==
  ASSUME ServerTypeOK, NEW c \in Slots,
         NEW kind \in {"register", "login", "list", "save", "logout", "update", "remove"},
         NEW token \in Tokens \cup {0}, NEW user \in People \cup {Nobody}, NEW trip \in TripIds \cup {0},
         kind \in {"register", "login"} => user \in People,
         NEW x, x = Request(kind, token, user, trip, FALSE), calls' = [calls EXCEPT ![c] = x]
  PROVE  Becomes(c, x) /\ x.step # "writing"
<1>1. x \in Call /\ x.step = "arrived" /\ x.kind = kind /\ x.user = user
  BY DEF Request, Free, Call, Bearing
<1>. QED
  BY <1>1 DEF Becomes, Proper, Inside

LEMMA PassingBy ==
  ASSUME ServerTypeOK, Applicants, NEW c \in Slots,
         Filter(c) \/ Revoke(c) \/ List(c) \/ Arrive(c) \/ Abort(c)
  PROVE  /\ accounts \subseteq accounts' /\ StoreTypes'
         /\ \E x : Becomes(c, x) /\ x.step # "writing"
         /\ UNCHANGED <<trips, made, history>>
<1>. USE StoreIsTyped
<1>0. calls[c] \in Call
  BY DEF ServerTypeOK
<1>1. CASE Filter(c)
  <2>1. UNCHANGED <<store, history>> /\ StoreTypes'
    BY <1>1 DEF Filter, StoreTypes, store, history
  <2>2. CASE Live(calls[c].token)
    <3>1. PICK x : x = [calls[c] EXCEPT !.step = "passed", !.user = UserOf(calls[c].token)]
      OBVIOUS
    <3>2. calls' = [calls EXCEPT ![c] = x]
      BY <1>1, <2>2, <3>1 DEF Filter
    <3>3. PICK s \in sessions : s = (CHOOSE t \in sessions : t.token = calls[c].token)
      BY <2>2 DEF Live
    <3>4. UserOf(calls[c].token) \in accounts
      BY <3>3 DEF UserOf, StoreTypes
    <3>5. calls[c].kind \in Bearing /\ accounts \subseteq People
      BY <1>1 DEF Filter, At, StoreTypes
    <3>6. /\ x \in Call /\ x.step = "passed" /\ x.user \in accounts /\ x.kind = calls[c].kind
      BY <1>0, <3>1, <3>4, <3>5 DEF Call
    <3>7. Becomes(c, x)
      BY <2>1, <3>2, <3>5, <3>6 DEF Becomes, Proper, Bearing, store
    <3>. QED
      BY <2>1, <3>6, <3>7 DEF store
  <2>3. CASE ~Live(calls[c].token)
    <3>1. Replies(c, "dead")
      BY <1>1, <2>3 DEF Filter
    <3>. QED
      BY <2>1, <3>1, Quietly DEF store
  <2>. QED
    BY <2>2, <2>3
<1>2. CASE Revoke(c)
  <2>1. /\ sessions' \subseteq sessions /\ Replies(c, "ok")
        /\ UNCHANGED <<accounts, issued, trips, made, history>>
    BY <1>2 DEF Revoke
  <2>2. StoreTypes'
    BY <2>1 DEF StoreTypes, history
  <2>. QED
    BY <2>1, <2>2, Quietly
<1>3. CASE List(c)
  <2>1. UNCHANGED <<store, history>> /\ StoreTypes'
    BY <1>3 DEF List, StoreTypes, store, history
  <2>2. PICK x : x = Answered(calls[c], "ok", calls[c].token, 0, trips[calls[c].user])
    OBVIOUS
  <2>3. calls' = [calls EXCEPT ![c] = x]
    BY <1>3, <2>2 DEF List
  <2>4. trips[calls[c].user] \in SUBSET (1 .. made)
    BY <1>3, UserInside DEF List, At, Inside
  <2>5. trips[calls[c].user] \in SUBSET TripIds
    BY <2>4, AccountAssumption DEF StoreTypes, TripIds
  <2>6. calls[c].token \in Tokens \cup {0}
    BY <1>0 DEF Call
  <2>7. Becomes(c, x) /\ x.step # "writing"
    BY <2>2, <2>3, <2>5, <2>6, AnswersWith
  <2>. QED
    BY <2>1, <2>7 DEF store
<1>4. CASE Arrive(c)
  <2>1. UNCHANGED <<store, history>> /\ StoreTypes'
    BY <1>4 DEF Arrive, StoreTypes, store, history
  <2>2. 1 .. issued \subseteq Tokens /\ 1 .. made \subseteq TripIds
    BY AccountAssumption DEF StoreTypes, Tokens, TripIds
  <2>3. CASE \E kind \in {"register", "login"}, user \in People : Sends(c, kind, 0, user, 0)
    <3>1. PICK kind \in {"register", "login"}, user \in People : Sends(c, kind, 0, user, 0)
      BY <2>3
    <3>2. /\ kind \in {"register", "login", "list", "save", "logout", "update", "remove"}
          /\ 0 \in Tokens \cup {0} /\ 0 \in TripIds \cup {0} /\ user \in People \cup {Nobody}
          /\ user \in People
      OBVIOUS
    <3>3. PICK x : x = Request(kind, 0, user, 0, FALSE)
      OBVIOUS
    <3>4. calls' = [calls EXCEPT ![c] = x]
      BY <3>1, <3>3 DEF Sends
    <3>5. Becomes(c, x) /\ x.step # "writing"
      BY <3>2, <3>3, <3>4, RequestSent
    <3>. QED
      BY <2>1, <3>5 DEF store
  <2>4. CASE \E kind \in {"list", "save", "logout"}, token \in 1 .. issued :
                Sends(c, kind, token, Nobody, 0)
    <3>1. PICK kind \in {"list", "save", "logout"}, token \in 1 .. issued : Sends(c, kind, token, Nobody, 0)
      BY <2>4
    <3>2. /\ kind \in {"register", "login", "list", "save", "logout", "update", "remove"}
          /\ kind \notin {"register", "login"} /\ token \in Tokens \cup {0}
          /\ 0 \in TripIds \cup {0} /\ Nobody \in People \cup {Nobody}
      BY <2>2
    <3>3. PICK x : x = Request(kind, token, Nobody, 0, FALSE)
      OBVIOUS
    <3>4. calls' = [calls EXCEPT ![c] = x]
      BY <3>1, <3>3 DEF Sends
    <3>5. Becomes(c, x) /\ x.step # "writing"
      BY <3>2, <3>3, <3>4, RequestSent
    <3>. QED
      BY <2>1, <3>5 DEF store
  <2>5. CASE \E kind \in {"update", "remove"}, token \in 1 .. issued, trip \in 1 .. made :
                Sends(c, kind, token, Nobody, trip)
    <3>1. PICK kind \in {"update", "remove"}, token \in 1 .. issued, trip \in 1 .. made :
             Sends(c, kind, token, Nobody, trip)
      BY <2>5
    <3>2. /\ kind \in {"register", "login", "list", "save", "logout", "update", "remove"}
          /\ kind \notin {"register", "login"} /\ token \in Tokens \cup {0}
          /\ trip \in TripIds \cup {0} /\ Nobody \in People \cup {Nobody}
      BY <2>2
    <3>3. PICK x : x = Request(kind, token, Nobody, trip, FALSE)
      OBVIOUS
    <3>4. calls' = [calls EXCEPT ![c] = x]
      BY <3>1, <3>3 DEF Sends
    <3>5. Becomes(c, x) /\ x.step # "writing"
      BY <3>2, <3>3, <3>4, RequestSent
    <3>. QED
      BY <2>1, <3>5 DEF store
  <2>. QED
    BY <1>4, <2>3, <2>4, <2>5 DEF Arrive
<1>5. CASE Abort(c)
  <2>1. UNCHANGED <<store, history>> /\ StoreTypes'
    BY <1>5 DEF Abort, StoreTypes, store, history
  <2>2. Becomes(c, Free) /\ Free.step # "writing"
    BY <1>5, FreeType DEF Becomes, Proper, Inside, Abort
  <2>. QED
    BY <2>1, <2>2 DEF store
<1>. QED
  BY <1>1, <1>2, <1>3, <1>4, <1>5

(* Such a step keeps the invariant: it writes nothing, and nobody is about *)
(* to write who was not.                                                   *)
LEMMA NothingWritten ==
  ASSUME IInv, NEW c \in Slots, NEW x, Becomes(c, x), x.step # "writing",
         accounts \subseteq accounts', StoreTypes', UNCHANGED <<trips, made, history>>
  PROVE  IInv'
<1>. USE DEF IInv
<1>1. ServerTypeOK' /\ Applicants'
  BY TypedAgain
<1>2. /\ \A u : Writing(u)' = Writing(u) \ {c}
      /\ \A d \in Slots : Updating(d)' <=> d # c /\ Updating(d)
      /\ \A d \in Slots : d # c => calls'[d] = calls[d]
  BY NoNewWriter DEF Becomes
<1>3. UpdatesKnown' /\ UpdatesApart'
  BY <1>2 DEF UpdatesKnown, UpdatesApart
<1>4. OneWriter' /\ RoomForWriter'
  BY <1>2 DEF OneWriter, RoomForWriter, history
<1>5. TripHasOneOwner' /\ QuotaUnlessOverlap'
  BY DEF TripHasOneOwner, QuotaUnlessOverlap, history
<1>. QED
  BY <1>1, <1>3, <1>4, <1>5

-----------------------------------------------------------------------------
(* The steps that read before a write, and the writes.                     *)

LEMMA Checked ==
  ASSUME IInv, NEW c \in Slots, CheckSave(c)
  PROVE  IInv'
<1>. USE StoreIsTyped DEF IInv
<1>0. PICK u : u = calls[c].user
  OBVIOUS
<1>. USE <1>0
<1>1. /\ calls[c].step = "passed" /\ calls[c].kind \in {"save", "update"}
      /\ UNCHANGED <<store, restored>>
  BY DEF CheckSave, At
<1>2. u \in accounts /\ u \in People /\ trips[u] \in SUBSET (1 .. made)
  BY <1>1, UserInside DEF Inside
<1>3. CASE IF calls[c].kind = "save" THEN HasRoom(u) ELSE OnAccount(u, calls[c].trip)
  <2>1. /\ Goes(c, "writing")
        /\ overlapped' = IF calls[c].kind = "save" /\ Writing(u) # {}
                         THEN overlapped \cup {u} ELSE overlapped
    BY <1>3 DEF CheckSave
  <2>2. u \in accounts'
    BY <1>1, <1>2 DEF store
  <2>3. PICK x : Becomes(c, x) /\ x = [calls[c] EXCEPT !.step = "writing"]
    BY <2>1, <2>2, GoesOn DEF Inside
  <2>4. StoreTypes'
    BY <1>1, <1>2, <2>1 DEF StoreTypes, store
  <2>5. ServerTypeOK' /\ Applicants'
    BY <1>1, <2>3, <2>4, TypedAgain DEF store
  <2>6. /\ x.step = "writing" /\ x.kind = calls[c].kind /\ x.user = u /\ x.trip = calls[c].trip
    BY <2>3 DEF ServerTypeOK, Call
  <2>7. \A d \in Slots : calls'[d] = IF d = c THEN x ELSE calls[d]
    BY <2>3 DEF Becomes, ServerTypeOK
  <2>8. TripHasOneOwner'
    BY <1>1 DEF TripHasOneOwner, store
  <2>9. trips' = trips /\ made' = made /\ restored' = restored
    BY <1>1 DEF store
  <2>10. CASE calls[c].kind = "save"
    <3>1. \A d \in Slots : Updating(d)' <=> d # c /\ Updating(d)
      BY <1>1, <2>6, <2>7, <2>10 DEF Updating, At
    <3>2. UpdatesKnown' /\ UpdatesApart'
      BY <2>7, <2>9, <3>1 DEF UpdatesKnown, UpdatesApart
    <3>3. /\ Writing(u)' = Writing(u) \cup {c}
          /\ \A v : v # u => Writing(v)' = Writing(v)
      BY <1>1, <2>6, <2>7, <2>10 DEF Writing, At
    <3>4. Cardinality(trips[u]) < Quota
      BY <1>3, <2>10 DEF HasRoom
    <3>5. /\ Cardinality(trips[u] \ restored) <= Cardinality(trips[u])
          /\ Cardinality(trips[u] \ restored) \in Nat /\ Cardinality(trips[u]) \in Nat
      <4>1. trips[u] \in SUBSET trips[u] /\ (trips[u] \ restored) \in SUBSET trips[u]
        OBVIOUS
      <4>2. IsFiniteSet(trips[u]) /\ Cardinality(trips[u]) \in Nat /\ Cardinality(trips[u] \ restored) \in Nat
        BY <1>2, <4>1, TripsAreFinite
      <4>. QED
        BY <4>1, <4>2, FS_Subset
    <3>6. Cardinality(trips[u] \ restored) < Quota
      BY <3>4, <3>5, AccountAssumption
    <3>7. \A v \in People \ overlapped' : v \notin overlapped /\ (v = u => Writing(u) = {})
      BY <2>1, <2>10
    <3>8. OneWriter'
      <4>1. ASSUME NEW v \in People \ overlapped', NEW d \in Slots, NEW e \in Slots,
                   d \in Writing(v)', e \in Writing(v)'
            PROVE  d = e
        <5>1. CASE v = u
          <6>1. Writing(u)' = {c}
            BY <3>3, <3>7, <5>1
          <6>. QED
            BY <4>1, <5>1, <6>1
        <5>2. CASE v # u
          BY <3>3, <3>7, <4>1, <5>2 DEF OneWriter
        <5>. QED
          BY <5>1, <5>2
      <4>. QED
        BY <4>1 DEF OneWriter
    <3>9. RoomForWriter' /\ QuotaUnlessOverlap'
      BY <2>9, <3>3, <3>6, <3>7 DEF RoomForWriter, QuotaUnlessOverlap
    <3>. QED
      BY <2>5, <2>8, <3>2, <3>8, <3>9
  <2>11. CASE calls[c].kind = "update"
    <3>1. OnAccount(u, calls[c].trip) /\ overlapped' = overlapped
      BY <1>3, <2>1, <2>11
    <3>2. calls[c].trip \in trips[u] /\ calls[c].trip \in 1 .. made
      BY <1>2, <3>1 DEF OnAccount
    <3>3. \A d \in Slots : Updating(d)' <=> d = c \/ Updating(d)
      BY <1>1, <2>6, <2>7, <2>11 DEF Updating, At
    <3>4. \A v \in People : calls[c].trip \in trips[v] => v = u
      BY <1>2, <3>2 DEF TripHasOneOwner
    <3>5. UpdatesKnown'
      BY <2>6, <2>7, <2>9, <3>2, <3>3, <3>4 DEF UpdatesKnown
    <3>6. \A d \in Slots : Updating(d) /\ calls[d].trip = calls[c].trip => calls[d].user = u
      BY <1>2, <3>2 DEF UpdatesKnown
    <3>7. UpdatesApart'
      BY <2>6, <2>7, <3>3, <3>6 DEF UpdatesApart
    <3>8. \A v : Writing(v)' = Writing(v)
      BY <1>1, <2>6, <2>7, <2>11 DEF Writing, At
    <3>9. OneWriter' /\ RoomForWriter' /\ QuotaUnlessOverlap'
      BY <2>9, <3>1, <3>8 DEF OneWriter, RoomForWriter, QuotaUnlessOverlap
    <3>. QED
      BY <2>5, <2>8, <3>5, <3>7, <3>9
  <2>. QED
    BY <1>1, <2>10, <2>11
<1>4. CASE ~(IF calls[c].kind = "save" THEN HasRoom(u) ELSE OnAccount(u, calls[c].trip))
  <2>1. Replies(c, "refused") /\ UNCHANGED <<store, history>>
    BY <1>1, <1>4 DEF CheckSave, history
  <2>2. PICK x : Becomes(c, x) /\ x.step # "writing"
    BY <2>1, Quietly
  <2>3. accounts \subseteq accounts' /\ StoreTypes' /\ UNCHANGED <<trips, made, history>>
    BY <2>1 DEF store, StoreTypes, history
  <2>. QED
    BY <2>2, <2>3, NothingWritten
<1>. QED
  BY <1>3, <1>4

(* Removing trips, or adding one that does not count, keeps the quota.     *)
LEMMA FewerTrips ==
  ASSUME ServerTypeOK, NEW u \in People, NEW S, S \subseteq trips[u] \ restored
  PROVE  /\ Cardinality(S) <= Cardinality(trips[u] \ restored)
         /\ Cardinality(S) \in Nat /\ Cardinality(trips[u] \ restored) \in Nat
<1>1. (trips[u] \ restored) \in SUBSET trips[u] /\ S \in SUBSET (trips[u] \ restored) /\ S \in SUBSET trips[u]
  OBVIOUS
<1>2. /\ IsFiniteSet(trips[u] \ restored) /\ Cardinality(trips[u] \ restored) \in Nat
      /\ Cardinality(S) \in Nat
  BY <1>1, TripsAreFinite
<1>. QED
  BY <1>1, <1>2, FS_Subset

LEMMA QuotaStays ==
  ASSUME IInv, overlapped' = overlapped,
         \A u \in People : trips'[u] \ restored' \subseteq trips[u] \ restored,
         \A u \in People : Writing(u)' \subseteq Writing(u)
  PROVE  OneWriter' /\ RoomForWriter' /\ QuotaUnlessOverlap'
<1>. USE DEF IInv
<1>1. \A u \in People : /\ Cardinality(trips'[u] \ restored') <= Cardinality(trips[u] \ restored)
                        /\ Cardinality(trips'[u] \ restored') \in Nat
                        /\ Cardinality(trips[u] \ restored) \in Nat
  BY FewerTrips
<1>2. Quota \in Nat
  BY AccountAssumption
<1>3. OneWriter'
  BY DEF OneWriter
<1>4. ASSUME NEW u \in People \ overlapped
      PROVE  /\ Cardinality(trips'[u] \ restored') <= Quota
             /\ Writing(u)' # {} => Cardinality(trips'[u] \ restored') < Quota
  <2>1. /\ Cardinality(trips[u] \ restored) <= Quota
        /\ Writing(u) # {} => Cardinality(trips[u] \ restored) < Quota
    BY DEF RoomForWriter, QuotaUnlessOverlap
  <2>2. Writing(u)' # {} => Writing(u) # {}
    OBVIOUS
  <2>3. /\ Cardinality(trips'[u] \ restored') <= Cardinality(trips[u] \ restored)
        /\ Cardinality(trips'[u] \ restored') \in Nat
        /\ Cardinality(trips[u] \ restored) \in Nat
    BY <1>1
  <2>4. \A m, n \in Nat : m <= n => (n <= Quota => m <= Quota) /\ (n < Quota => m < Quota)
    BY <1>2
  <2>. QED
    BY <2>1, <2>2, <2>3, <2>4
<1>5. RoomForWriter' /\ QuotaUnlessOverlap'
  BY <1>4 DEF RoomForWriter, QuotaUnlessOverlap
<1>. QED
  BY <1>3, <1>5

LEMMA Inserted ==
  ASSUME IInv, NEW c \in Slots, Insert(c)
  PROVE  IInv'
<1>. USE StoreIsTyped DEF IInv
<1>0. PICK u : u = calls[c].user
  OBVIOUS
<1>1. /\ At(c, "writing", {"save"}) /\ made < MaxTrips /\ made' = made + 1
      /\ trips' = [trips EXCEPT ![u] = @ \cup {made + 1}]
      /\ UNCHANGED <<accounts, sessions, issued, history>>
  BY <1>0 DEF Insert
<1>2. u \in People /\ trips[u] \in SUBSET (1 .. made) /\ c \in Writing(u)
  BY <1>0, <1>1, UserInside DEF At, Inside, Writing
<1>3. made \in Nat /\ made + 1 \in TripIds /\ 1 .. made \subseteq 1 .. made' /\ made + 1 \in 1 .. made'
      /\ made + 1 \notin 1 .. made
  BY <1>1, AccountAssumption DEF StoreTypes, TripIds
<1>4. trips \in [People -> SUBSET (1 .. made)]
  BY DEF StoreTypes
<1>5. /\ trips'[u] = trips[u] \cup {made + 1}
      /\ \A v \in People : v # u => trips'[v] = trips[v]
      /\ trips' \in [People -> SUBSET (1 .. made')]
  BY <1>1, <1>2, <1>3, <1>4
<1>6. StoreTypes'
  BY <1>1, <1>3, <1>5, AccountAssumption DEF StoreTypes, TripIds, history
<1>7. PICK x : x = Answered(calls[c], "ok", calls[c].token, made + 1, {})
  OBVIOUS
<1>8. calls' = [calls EXCEPT ![c] = x]
  BY <1>7 DEF Insert
<1>9. calls[c].token \in Tokens \cup {0}
  BY DEF ServerTypeOK, Call
<1>10. Becomes(c, x) /\ x.step # "writing"
  BY <1>3, <1>7, <1>8, <1>9, AnswersWith
<1>11. ServerTypeOK' /\ Applicants'
  BY <1>1, <1>6, <1>10, TypedAgain
<1>12. /\ \A v : Writing(v)' = Writing(v) \ {c}
       /\ \A d \in Slots : Updating(d)' <=> d # c /\ Updating(d)
       /\ \A d \in Slots : d # c => calls'[d] = calls[d]
  BY <1>8, <1>10, NoNewWriter
<1>13. \A v \in People : made + 1 \notin trips[v]
  BY <1>3, <1>4
<1>14. TripHasOneOwner'
  BY <1>5, <1>13 DEF TripHasOneOwner
<1>15. \A d \in Slots : Updating(d) => calls[d].trip \in 1 .. made /\ calls[d].trip # made + 1
  BY <1>3 DEF UpdatesKnown
<1>16. UpdatesKnown' /\ UpdatesApart'
  <2>1. UpdatesKnown'
    BY <1>3, <1>5, <1>12, <1>15 DEF UpdatesKnown
  <2>2. UpdatesApart'
    BY <1>12 DEF UpdatesApart
  <2>. QED
    BY <2>1, <2>2
<1>17. restored' = restored /\ overlapped' = overlapped
  BY <1>1 DEF history
<1>18. OneWriter'
  BY <1>12, <1>17 DEF OneWriter
<1>19. u \notin overlapped => /\ Writing(u)' = {}
                             /\ Cardinality(trips'[u] \ restored) <= Quota
  <2>. SUFFICES ASSUME u \notin overlapped
                PROVE  Writing(u)' = {} /\ Cardinality(trips'[u] \ restored) <= Quota
    OBVIOUS
  <2>1. \A d \in Writing(u) : d = c
    BY <1>2 DEF OneWriter, Writing
  <2>2. Writing(u)' = {}
    BY <1>12, <2>1
  <2>3. Cardinality(trips[u] \ restored) < Quota
    BY <1>2 DEF RoomForWriter
  <2>4. PICK S : S = trips[u] \ restored
    OBVIOUS
  <2>5. S \in SUBSET trips[u]
    BY <2>4
  <2>6. IsFiniteSet(S) /\ Cardinality(S) \in Nat
    BY <1>2, <2>5, TripsAreFinite
  <2>7. /\ IsFiniteSet(S \cup {made + 1}) /\ Cardinality(S \cup {made + 1}) <= Cardinality(S) + 1
        /\ Cardinality(S \cup {made + 1}) \in Nat
    <3>1. PICK T : T = S \cup {made + 1}
      OBVIOUS
    <3>2. IsFiniteSet(T) /\ Cardinality(T) = IF made + 1 \in S THEN Cardinality(S) ELSE Cardinality(S) + 1
      BY <2>6, <3>1, FS_AddElement
    <3>3. Cardinality(T) \in Nat /\ Cardinality(T) <= Cardinality(S) + 1
      BY <2>6, <3>2
    <3>. QED
      BY <3>1, <3>2, <3>3
  <2>8. (trips'[u] \ restored) \in SUBSET (S \cup {made + 1})
    BY <1>5, <2>4
  <2>9. /\ Cardinality(trips'[u] \ restored) <= Cardinality(S \cup {made + 1})
        /\ IsFiniteSet(trips'[u] \ restored)
    BY <2>7, <2>8, FS_Subset
  <2>10. Cardinality(trips'[u] \ restored) \in Nat
    BY <2>9, FS_CardinalityType
  <2>11. Cardinality(S) < Quota
    BY <2>3, <2>4
  <2>12. Cardinality(trips'[u] \ restored) <= Quota
    BY <2>6, <2>7, <2>9, <2>10, <2>11, AccountAssumption
  <2>. QED
    BY <2>2, <2>12
<1>20. RoomForWriter'
  BY <1>5, <1>12, <1>17, <1>19 DEF RoomForWriter
<1>21. QuotaUnlessOverlap'
  BY <1>5, <1>17, <1>19 DEF QuotaUnlessOverlap
<1>. QED
  BY <1>11, <1>14, <1>16, <1>18, <1>20, <1>21

LEMMA Upserted ==
  ASSUME IInv, NEW c \in Slots, Upsert(c)
  PROVE  IInv'
<1>. USE StoreIsTyped DEF IInv
<1>0. PICK u, t : u = calls[c].user /\ t = calls[c].trip
  OBVIOUS
<1>1. /\ At(c, "writing", {"update"}) /\ UNCHANGED <<accounts, sessions, issued, made, overlapped>>
      /\ Replies(c, "ok") \/ Replies(c, "refused")
  BY DEF Upsert
<1>2. u \in People /\ t \in 1 .. made /\ 1 .. made \subseteq TripIds /\ Updating(c)
  BY <1>0, <1>1, UserInside, AccountAssumption
     DEF At, Inside, UpdatesKnown, Updating, StoreTypes, TripIds
<1>3. trips \in [People -> SUBSET (1 .. made)]
  BY DEF StoreTypes
<1>4. \/ /\ trips' = [trips EXCEPT ![u] = @ \cup {t}]
         /\ restored' = IF t \notin trips[u] THEN restored \cup {t} ELSE restored
      \/ trips' = trips /\ restored' = restored
  BY <1>0 DEF Upsert
<1>5. /\ trips' \in [People -> SUBSET (1 .. made)] /\ restored' \subseteq TripIds
      /\ \A v \in People : v # u => trips'[v] = trips[v]
      /\ trips'[u] \subseteq trips[u] \cup {t}
  BY <1>2, <1>3, <1>4 DEF StoreTypes
<1>6. StoreTypes'
  BY <1>1, <1>5 DEF StoreTypes
<1>7. PICK x : Becomes(c, x) /\ x.step # "writing"
  BY <1>1, Quietly
<1>8. ServerTypeOK' /\ Applicants'
  BY <1>1, <1>6, <1>7, TypedAgain
<1>9. /\ \A v : Writing(v)' = Writing(v) \ {c}
      /\ \A d \in Slots : Updating(d)' <=> d # c /\ Updating(d)
      /\ \A d \in Slots : d # c => calls'[d] = calls[d]
  BY <1>7, NoNewWriter DEF Becomes
<1>10. \A v \in People : t \in trips[v] => v = u
  BY <1>0, <1>2 DEF UpdatesKnown
<1>11. TripHasOneOwner'
  BY <1>5, <1>10 DEF TripHasOneOwner
<1>12. \A d \in Slots : Updating(d) /\ calls[d].trip = t => calls[d].user = u
  BY <1>0, <1>2 DEF UpdatesApart
<1>13. UpdatesKnown'
  <2>1. ASSUME NEW d \in Slots, Updating(d), NEW v \in People, calls[d].trip \in trips'[v]
        PROVE  v = calls[d].user
    <3>1. CASE calls[d].trip \in trips[v]
      BY <2>1, <3>1 DEF UpdatesKnown
    <3>2. CASE calls[d].trip \notin trips[v]
      BY <1>5, <1>12, <2>1, <3>2
    <3>. QED
      BY <3>1, <3>2
  <2>. QED
    BY <1>1, <1>9, <2>1 DEF UpdatesKnown
<1>14. UpdatesApart'
  BY <1>9 DEF UpdatesApart
<1>15. \A v \in People : trips'[v] \ restored' \subseteq trips[v] \ restored
  <2>1. restored \subseteq restored' /\ trips'[u] \ restored' \subseteq trips[u]
    BY <1>2, <1>3, <1>4
  <2>. QED
    BY <1>5, <2>1
<1>16. OneWriter' /\ RoomForWriter' /\ QuotaUnlessOverlap'
  BY <1>1, <1>9, <1>15, QuotaStays
<1>. QED
  BY <1>8, <1>11, <1>13, <1>14, <1>16

LEMMA Deleted ==
  ASSUME IInv, NEW c \in Slots, Delete(c)
  PROVE  IInv'
<1>. USE StoreIsTyped DEF IInv
<1>0. PICK u, t : u = calls[c].user /\ t = calls[c].trip
  OBVIOUS
<1>1. /\ calls[c].step = "passed" /\ trips' = [trips EXCEPT ![u] = @ \ {t}]
      /\ Replies(c, "ok") \/ Replies(c, "refused")
      /\ UNCHANGED <<accounts, sessions, issued, made, history>>
  BY <1>0 DEF Delete, At
<1>2. u \in People
  BY <1>0, <1>1, UserInside DEF Inside
<1>3. trips \in [People -> SUBSET (1 .. made)]
  BY DEF StoreTypes
<1>4. /\ trips' \in [People -> SUBSET (1 .. made)]
      /\ \A v \in People : trips'[v] \subseteq trips[v]
  BY <1>1, <1>2, <1>3
<1>5. StoreTypes'
  BY <1>1, <1>4 DEF StoreTypes, history
<1>6. PICK x : Becomes(c, x) /\ x.step # "writing"
  BY <1>1, Quietly
<1>7. ServerTypeOK' /\ Applicants'
  BY <1>1, <1>5, <1>6, TypedAgain
<1>8. /\ \A v : Writing(v)' = Writing(v) \ {c}
      /\ \A d \in Slots : Updating(d)' <=> d # c /\ Updating(d)
      /\ \A d \in Slots : d # c => calls'[d] = calls[d]
  BY <1>6, NoNewWriter DEF Becomes
<1>9. TripHasOneOwner'
  BY <1>4 DEF TripHasOneOwner
<1>10. UpdatesKnown'
  BY <1>1, <1>4, <1>8 DEF UpdatesKnown
<1>11. UpdatesApart'
  BY <1>8 DEF UpdatesApart
<1>12. overlapped' = overlapped /\ restored' = restored
  BY <1>1 DEF history
<1>13. OneWriter' /\ RoomForWriter' /\ QuotaUnlessOverlap'
  BY <1>4, <1>8, <1>12, QuotaStays
<1>. QED
  BY <1>7, <1>9, <1>10, <1>11, <1>13

LEMMA Expired ==
  ASSUME IInv, NEW s \in sessions, Expire(s)
  PROVE  IInv'
<1>. USE DEF IInv
<1>1. sessions' \subseteq sessions /\ UNCHANGED <<accounts, issued, trips, made, calls, history>>
  BY DEF Expire
<1>2. ServerTypeOK' /\ Applicants'
  BY <1>1 DEF ServerTypeOK, Applicants, history
<1>3. \A u : Writing(u)' = Writing(u)
  BY <1>1 DEF Writing, At
<1>4. \A c \in Slots : Updating(c)' <=> Updating(c)
  BY <1>1 DEF Updating, At
<1>5. UpdatesKnown' /\ UpdatesApart' /\ TripHasOneOwner'
  BY <1>1, <1>4 DEF UpdatesKnown, UpdatesApart, TripHasOneOwner
<1>6. OneWriter' /\ RoomForWriter' /\ QuotaUnlessOverlap'
  BY <1>1, <1>3 DEF OneWriter, RoomForWriter, QuotaUnlessOverlap, history
<1>. QED
  BY <1>2, <1>5, <1>6

-----------------------------------------------------------------------------
LEMMA InitInv == ServerInit => IInv
<1>. SUFFICES ASSUME ServerInit PROVE IInv
  OBVIOUS
<1>1. /\ accounts = {} /\ sessions = {} /\ issued = 0 /\ made = 0
      /\ trips = [u \in People |-> {}] /\ overlapped = {} /\ restored = {}
      /\ \A c \in Slots : calls[c].step = "free" /\ calls[c].kind = "none"
      /\ calls \in [Slots -> Call]
  BY FreeType DEF ServerInit
<1>2. ServerTypeOK /\ Applicants
  BY <1>1, AccountAssumption DEF ServerTypeOK, Applicants
<1>3. \A u : Writing(u) = {}
  BY <1>1 DEF Writing, At
<1>4. \A c \in Slots : ~Updating(c)
  BY <1>1 DEF Updating, At
<1>5. \A u \in People : trips[u] \ restored = {}
  BY <1>1
<1>6. Cardinality({}) = 0 /\ Quota \in Nat
  BY FS_EmptySet, AccountAssumption
<1>7. TripHasOneOwner /\ UpdatesKnown /\ UpdatesApart
  BY <1>1, <1>4 DEF TripHasOneOwner, UpdatesKnown, UpdatesApart
<1>8. OneWriter /\ RoomForWriter
  BY <1>3 DEF OneWriter, RoomForWriter
<1>9. QuotaUnlessOverlap
  BY <1>5, <1>6 DEF QuotaUnlessOverlap
<1>. QED
  BY <1>2, <1>7, <1>8, <1>9 DEF IInv

LEMMA StepInv == IInv /\ [ServerNext]_serverVars => IInv'
<1>. SUFFICES ASSUME IInv, [ServerNext]_serverVars PROVE IInv'
  OBVIOUS
<1>1. CASE UNCHANGED serverVars
  <2>1. UNCHANGED <<accounts, sessions, issued, trips, made, calls, overlapped, restored>>
    BY <1>1 DEF serverVars, store, history
  <2>. QED
    BY <2>1 DEF IInv, ServerTypeOK, Applicants, TripHasOneOwner, UpdatesKnown, UpdatesApart, OneWriter,
                RoomForWriter, QuotaUnlessOverlap, Writing, Updating, At
<1>2. ASSUME NEW c \in Slots, CreateAccount(c) \/ CheckPassword(c) \/ IssueSession(c)
      PROVE  IInv'
  <2>1. /\ accounts \subseteq accounts' /\ StoreTypes' /\ UNCHANGED <<trips, made, history>>
        /\ \E x : Becomes(c, x) /\ x.step # "writing"
    BY <1>2, SigningIn DEF IInv
  <2>. QED
    BY <2>1, NothingWritten
<1>3. ASSUME NEW c \in Slots, Filter(c) \/ Revoke(c) \/ List(c) \/ Arrive(c) \/ Abort(c)
      PROVE  IInv'
  <2>1. /\ accounts \subseteq accounts' /\ StoreTypes' /\ UNCHANGED <<trips, made, history>>
        /\ \E x : Becomes(c, x) /\ x.step # "writing"
    BY <1>3, PassingBy DEF IInv
  <2>. QED
    BY <2>1, NothingWritten
<1>4. ASSUME NEW c \in Slots, CheckSave(c) \/ Insert(c) \/ Upsert(c) \/ Delete(c)
      PROVE  IInv'
  BY <1>4, Checked, Inserted, Upserted, Deleted
<1>5. ASSUME NEW s \in sessions, Expire(s) PROVE IInv'
  BY <1>5, Expired
<1>. QED
  BY <1>1, <1>2, <1>3, <1>4, <1>5 DEF ServerNext, ServerStep

-----------------------------------------------------------------------------
(* The invariant holds in every state of the server.                       *)
THEOREM ServerInvariant == ServerSpec => []IInv
  BY InitInv, StepInv, PTL DEF ServerSpec

(* Every variable of AccountServer keeps its type, sessions are of         *)
(* accounts, and a request that was let in is of an account.               *)
THEOREM ServerTypes == ServerSpec => []ServerTypeOK
<1>1. IInv => ServerTypeOK
  BY DEF IInv
<1>. QED
  BY <1>1, ServerInvariant, PTL

(* EfAuthStore and POST /me/trips: without two inserts racing each other,  *)
(* no account passes its quota, whatever the number of its devices.        *)
THEOREM QuotaHolds == ServerSpec => []QuotaUnlessOverlap
<1>1. IInv => QuotaUnlessOverlap
  BY DEF IInv
<1>. QED
  BY <1>1, ServerInvariant, PTL

(* EfAuthStore.UpsertAsync: no trip is ever on two accounts, even when an  *)
(* update makes a deleted one again.                                       *)
THEOREM OneOwner == ServerSpec => []TripHasOneOwner
<1>1. IInv => TripHasOneOwner
  BY DEF IInv
<1>. QED
  BY <1>1, ServerInvariant, PTL

-----------------------------------------------------------------------------
(* The page beside the server. A request is fitting in its slot if it is a *)
(* list in the slot of the list, bears a token if it is of a session, is   *)
(* about to be issued one if it signs in, and, being an answered save,     *)
(* names the trip that was made.                                           *)
Fitting(c, x) ==
    /\ x.step = "issuing" => x.kind \in {"register", "login"}
    /\ x.kind = "list" <=> c = ListSlot /\ x # Free
    /\ x.heard /\ x.kind \in Bearing => x.token # 0
    /\ x.step = "answered" /\ x.kind = "save" /\ x.reply = "ok" => x.trip # 0

(* A session that was issued and not taken by the page yet: its token is   *)
(* nobody else's.                                                          *)
Offered(x) == x.step = "answered" /\ x.kind \in {"register", "login"} /\ x.reply = "ok"
Given      == {session.token, stored.token} \cup loggedOut
TokensApart ==
    /\ Given \subseteq 0 .. issued
    /\ \A c \in Slots : Offered(calls[c]) =>
          calls[c].token \in 1 .. issued /\ calls[c].token \notin Given
    /\ \A c, d \in Slots :
          Offered(calls[c]) /\ Offered(calls[d]) /\ calls[c].token = calls[d].token => c = d

Lists == [known : BOOLEAN, trips : SUBSET TripIds, error : {"none", "dead", "other"}]

(* The variables of the page keep their type.                              *)
PageTypes ==
    /\ {session, stored} \subseteq Session \cup {NoSession}
    /\ list \in Lists
    /\ {open, wants, online, lagging} \subseteq BOOLEAN
    /\ paused \in {"no", "first", "again"}
    /\ loggedOut \subseteq Tokens /\ mine \subseteq TripIds

PageInv ==
    /\ IInv /\ PageTypes /\ LogoutIsFinal /\ TokensApart
    /\ \A c \in Slots : Fitting(c, calls[c])

-----------------------------------------------------------------------------
(* What the server does to the requests of the page.                       *)

LEMMA FreeFits == \A c \in Slots : Fitting(c, Free) /\ ~Offered(Free)
BY DEF Fitting, Offered, Free, Bearing

LEMMA StepFits ==
  ASSUME NEW c \in Slots, NEW call \in Call, Fitting(c, call), call.step # "free",
         NEW x \in Call, x.step \in Inside,
         x.kind = call.kind, x.heard = call.heard, x.token = call.token,
         x.step = "issuing" => x.kind \in {"register", "login"}
  PROVE  Fitting(c, x) /\ ~Offered(x)
<1>1. call # Free /\ x # Free
  BY DEF Free, Inside
<1>. QED
  BY <1>1 DEF Fitting, Offered, Inside

LEMMA AnswerFits ==
  ASSUME NEW c \in Slots, NEW call \in Call, Fitting(c, call), call.step # "free",
         NEW reply \in {"ok", "dead", "refused"}, NEW token, NEW trip, NEW seen,
         call.kind \in Bearing => token = call.token,
         call.kind = "save" /\ reply = "ok" => trip # 0,
         NEW x, x = Answered(call, reply, token, trip, seen)
  PROVE  /\ Fitting(c, x)
         /\ Offered(x) => x.token = token /\ reply = "ok" /\ call.kind \in {"register", "login"}
<1>1. CASE ~call.heard
  BY <1>1, FreeFits DEF Answered, Free
<1>2. CASE call.heard
  <2>1. /\ x.kind = call.kind /\ x.heard = call.heard /\ x.step = "answered"
        /\ x.reply = reply /\ x.token = token /\ x.trip = trip
    BY <1>2 DEF Answered, Call
  <2>2. call # Free /\ x # Free
    BY <2>1 DEF Free
  <2>. QED
    BY <2>1, <2>2 DEF Fitting, Offered
<1>. QED
  BY <1>1, <1>2

LEMMA ReplyFits ==
  ASSUME ServerTypeOK, NEW c \in Slots, Fitting(c, calls[c]), calls[c].step # "free",
         NEW reply \in {"ok", "dead", "refused"}, Replies(c, reply),
         reply = "ok" => calls[c].kind \notin {"save", "register", "login"}
  PROVE  \E x : calls' = [calls EXCEPT ![c] = x] /\ Fitting(c, x) /\ ~Offered(x)
<1>1. calls[c] \in Call
  BY DEF ServerTypeOK
<1>2. PICK x : x = Answered(calls[c], reply, calls[c].token, calls[c].trip, {})
  OBVIOUS
<1>3. calls' = [calls EXCEPT ![c] = x]
  BY <1>2 DEF Replies, ServerTypeOK
<1>4. Fitting(c, x) /\ (Offered(x) => reply = "ok" /\ calls[c].kind \in {"register", "login"})
  BY <1>1, <1>2, AnswerFits
<1>. QED
  BY <1>3, <1>4

LEMMA GoesFits ==
  ASSUME ServerTypeOK, NEW c \in Slots, Fitting(c, calls[c]), calls[c].step # "free",
         NEW step \in Inside, Goes(c, step),
         step = "issuing" => calls[c].kind \in {"register", "login"}
  PROVE  \E x : calls' = [calls EXCEPT ![c] = x] /\ Fitting(c, x) /\ ~Offered(x)
<1>1. calls[c] \in Call
  BY DEF ServerTypeOK
<1>2. PICK x : x = [calls[c] EXCEPT !.step = step]
  OBVIOUS
<1>3. /\ x \in Call /\ x.step \in Inside /\ x.step = step
      /\ x.kind = calls[c].kind /\ x.heard = calls[c].heard /\ x.token = calls[c].token
  BY <1>1, <1>2 DEF Call, Inside
<1>4. calls' = [calls EXCEPT ![c] = x]
  BY <1>2 DEF Goes
<1>. QED
  BY <1>1, <1>3, <1>4, StepFits

(* A step of the server answers or moves one request, and offers a session *)
(* with no token but the one it issues.                                    *)
LEMMA ServerFits ==
  ASSUME ServerTypeOK, NEW c \in Slots, Fitting(c, calls[c]), ServerStep(c) \/ Abort(c)
  PROVE  /\ issued' \in {issued, issued + 1}
         /\ \E x : /\ calls' = [calls EXCEPT ![c] = x] /\ Fitting(c, x)
                   /\ Offered(x) => x.token = issued + 1 /\ issued' = issued + 1
<1>0. calls[c] \in Call /\ issued \in Nat
  BY AccountAssumption DEF ServerTypeOK
<1>1. CASE CreateAccount(c)
  <2>1. /\ calls[c].step # "free" /\ calls[c].kind = "register" /\ issued' = issued
        /\ Replies(c, "refused") \/ Goes(c, "issuing")
    BY <1>1 DEF CreateAccount, At
  <2>. QED
    BY <2>1, ReplyFits, GoesFits DEF Inside
<1>2. CASE CheckPassword(c)
  <2>1. /\ calls[c].step # "free" /\ calls[c].kind = "login" /\ issued' = issued
        /\ Replies(c, "refused") \/ Goes(c, "issuing")
    BY <1>2 DEF CheckPassword, At, store
  <2>. QED
    BY <2>1, ReplyFits, GoesFits DEF Inside
<1>3. CASE IssueSession(c)
  <2>1. /\ calls[c].step = "issuing" /\ issued' = issued + 1
        /\ calls' = [calls EXCEPT ![c] = Answered(calls[c], "ok", issued + 1, 0, {})]
    BY <1>3 DEF IssueSession
  <2>2. PICK x : x = Answered(calls[c], "ok", issued + 1, 0, {})
    OBVIOUS
  <2>3. calls[c].kind \notin Bearing
    BY <2>1 DEF Fitting, Bearing
  <2>4. Fitting(c, x) /\ (Offered(x) => x.token = issued + 1)
    BY <1>0, <2>1, <2>2, <2>3, AnswerFits DEF Bearing
  <2>. QED
    BY <2>1, <2>2, <2>4
<1>4. CASE Filter(c)
  <2>1. calls[c].step = "arrived" /\ calls[c].kind \in Bearing /\ issued' = issued
    BY <1>4 DEF Filter, At, store
  <2>2. CASE ~Live(calls[c].token)
    <3>1. Replies(c, "dead")
      BY <1>4, <2>2 DEF Filter
    <3>. QED
      BY <2>1, <3>1, ReplyFits
  <2>3. CASE Live(calls[c].token)
    <3>1. PICK s \in sessions : s = (CHOOSE t \in sessions : t.token = calls[c].token)
      BY <2>3 DEF Live
    <3>2. UserOf(calls[c].token) \in People
      BY <3>1 DEF UserOf, ServerTypeOK
    <3>3. PICK x : x = [calls[c] EXCEPT !.step = "passed", !.user = UserOf(calls[c].token)]
      OBVIOUS
    <3>4. /\ x \in Call /\ x.step \in Inside
          /\ x.kind = calls[c].kind /\ x.heard = calls[c].heard /\ x.token = calls[c].token
          /\ x.step = "passed"
      BY <1>0, <3>2, <3>3 DEF Call, Inside
    <3>5. calls' = [calls EXCEPT ![c] = x]
      BY <1>4, <2>3, <3>3 DEF Filter
    <3>. QED
      BY <1>0, <2>1, <3>4, <3>5, StepFits
  <2>. QED
    BY <2>2, <2>3
<1>5. CASE Revoke(c)
  <2>1. /\ calls[c].step = "passed" /\ calls[c].kind = "logout" /\ issued' = issued
        /\ Replies(c, "ok")
    BY <1>5 DEF Revoke, At
  <2>. QED
    BY <2>1, ReplyFits
<1>6. CASE List(c)
  <2>1. calls[c].step = "passed" /\ calls[c].kind = "list" /\ issued' = issued
    BY <1>6 DEF List, At, store
  <2>2. PICK x : x = Answered(calls[c], "ok", calls[c].token, 0, trips[calls[c].user])
    OBVIOUS
  <2>3. calls' = [calls EXCEPT ![c] = x]
    BY <1>6, <2>2 DEF List
  <2>4. Fitting(c, x) /\ ~Offered(x)
    BY <1>0, <2>1, <2>2, AnswerFits
  <2>. QED
    BY <2>1, <2>3, <2>4
<1>7. CASE CheckSave(c)
  <2>1. calls[c].step # "free" /\ issued' = issued /\ (Replies(c, "refused") \/ Goes(c, "writing"))
    BY <1>7 DEF CheckSave, At, store
  <2>. QED
    BY <2>1, ReplyFits, GoesFits DEF Inside
<1>8. CASE Insert(c)
  <2>1. calls[c].step = "writing" /\ calls[c].kind = "save" /\ issued' = issued
    BY <1>8 DEF Insert, At
  <2>2. PICK x : x = Answered(calls[c], "ok", calls[c].token, made + 1, {})
    OBVIOUS
  <2>3. calls' = [calls EXCEPT ![c] = x]
    BY <1>8, <2>2 DEF Insert
  <2>4. made + 1 # 0
    BY AccountAssumption DEF ServerTypeOK
  <2>5. Fitting(c, x) /\ ~Offered(x)
    BY <1>0, <2>1, <2>2, <2>4, AnswerFits
  <2>. QED
    BY <2>1, <2>3, <2>5
<1>9. CASE Upsert(c)
  <2>1. /\ calls[c].step = "writing" /\ calls[c].kind = "update" /\ issued' = issued
        /\ Replies(c, "ok") \/ Replies(c, "refused")
    BY <1>9 DEF Upsert, At
  <2>. QED
    BY <2>1, ReplyFits
<1>10. CASE Delete(c)
  <2>1. /\ calls[c].step = "passed" /\ calls[c].kind = "remove" /\ issued' = issued
        /\ Replies(c, "ok") \/ Replies(c, "refused")
    BY <1>10 DEF Delete, At
  <2>. QED
    BY <2>1, ReplyFits
<1>11. CASE Abort(c)
  BY <1>11, FreeFits DEF Abort, store
<1>. QED
  BY <1>1, <1>2, <1>3, <1>4, <1>5, <1>6, <1>7, <1>8, <1>9, <1>10, <1>11 DEF ServerStep

(* The world beside the page keeps the invariant of both.                  *)
LEMMA PageUntouched ==
  ASSUME PageInv, UNCHANGED pageVars
  PROVE  PageTypes' /\ LogoutIsFinal' /\ Given' = Given
BY DEF PageInv, PageTypes, LogoutIsFinal, Given, pageVars, account, network

LEMMA ServerKeeps ==
  ASSUME PageInv, NEW c \in Slots, ServerStep(c) \/ Abort(c), UNCHANGED pageVars
  PROVE  PageInv'
<1>1. IInv /\ ServerTypeOK /\ issued \in Nat /\ calls \in [Slots -> Call]
  BY AccountAssumption DEF PageInv, IInv, ServerTypeOK
<1>2. IInv'
  BY <1>1, StepInv DEF ServerNext
<1>3. issued' \in {issued, issued + 1}
  BY <1>1, ServerFits DEF PageInv
<1>4. PICK x : /\ calls' = [calls EXCEPT ![c] = x] /\ Fitting(c, x)
               /\ Offered(x) => x.token = issued + 1 /\ issued' = issued + 1
  BY <1>1, ServerFits DEF PageInv
<1>5. \A d \in Slots : calls'[d] = IF d = c THEN x ELSE calls[d]
  BY <1>1, <1>4
<1>6. \A d \in Slots : Fitting(d, calls'[d])
  BY <1>4, <1>5 DEF PageInv
<1>7. Given' = Given /\ PageTypes' /\ LogoutIsFinal'
  BY PageUntouched
<1>8. TokensApart'
  <2>1. Given \subseteq 0 .. issued /\ Given' \subseteq 0 .. issued'
    BY <1>1, <1>3, <1>7 DEF PageInv, TokensApart
  <2>2. ASSUME NEW d \in Slots, Offered(calls'[d])
        PROVE  calls'[d].token \in 1 .. issued' /\ calls'[d].token \notin Given
    BY <1>1, <1>3, <1>4, <1>5, <2>1, <2>2 DEF PageInv, TokensApart
  <2>3. ASSUME NEW d \in Slots, NEW e \in Slots, Offered(calls'[d]), Offered(calls'[e]),
               calls'[d].token = calls'[e].token
        PROVE  d = e
    BY <1>1, <1>4, <1>5, <2>3 DEF PageInv, TokensApart
  <2>. QED
    BY <1>7, <2>1, <2>2, <2>3 DEF TokensApart
<1>. QED
  BY <1>2, <1>6, <1>7, <1>8 DEF PageInv

LEMMA ExpiryKeeps ==
  ASSUME PageInv, NEW s \in sessions, Expire(s), UNCHANGED pageVars
  PROVE  PageInv'
<1>1. UNCHANGED <<calls, issued>>
  BY DEF Expire
<1>2. IInv'
  BY Expired DEF PageInv
<1>. QED
  BY <1>1, <1>2, PageUntouched DEF PageInv, TokensApart

-----------------------------------------------------------------------------
(* What the page does to its requests: it sends one, stops listening to    *)
(* one, or takes an answer; it never moves one on the server.              *)

Sent(d, x) == /\ x \in Call /\ x.step = "arrived" /\ Fitting(d, x)
              /\ x.kind \in {"register", "login"} => x.user \in People
Tame(d) == \/ calls'[d] \in {calls[d], Free, [calls[d] EXCEPT !.heard = FALSE]}
           \/ Sent(d, calls'[d])
AllTame == calls' = [d \in Slots |-> calls'[d]] /\ \A d \in Slots : Tame(d)

LEMMA DeafCall ==
  ASSUME NEW d \in Slots, NEW call \in Call, Fitting(d, call),
         NEW x, x = [call EXCEPT !.heard = FALSE]
  PROVE  /\ x \in Call /\ Fitting(d, x)
         /\ x.step = call.step /\ x.kind = call.kind /\ x.user = call.user
         /\ x.trip = call.trip /\ x.token = call.token /\ x.reply = call.reply
<1>1. /\ x \in Call /\ x.heard = FALSE
      /\ x.step = call.step /\ x.kind = call.kind /\ x.user = call.user
      /\ x.trip = call.trip /\ x.token = call.token /\ x.reply = call.reply
  BY DEF Call
<1>2. call = Free => x = Free
  <2>1. x = [kind |-> call.kind, token |-> call.token, user |-> call.user, trip |-> call.trip,
             step |-> call.step, reply |-> call.reply, heard |-> FALSE, again |-> call.again,
             seen |-> call.seen]
    BY DEF Call
  <2>2. call = Free =>
          /\ call.kind = "none" /\ call.token = 0 /\ call.user = Nobody /\ call.trip = 0
          /\ call.step = "free" /\ call.reply = "none" /\ call.again = FALSE /\ call.seen = {}
    BY DEF Free
  <2>3. Free = [kind |-> "none", token |-> 0, user |-> Nobody, trip |-> 0, step |-> "free",
                reply |-> "none", heard |-> FALSE, again |-> FALSE, seen |-> {}]
    BY DEF Free
  <2>. QED
    BY <2>1, <2>2, <2>3
<1>3. x = Free => x.kind = "none"
  BY DEF Free
<1>. QED
  BY <1>1, <1>2, <1>3 DEF Fitting

LEMMA TameCalls ==
  ASSUME PageInv, AllTame, NEW d \in Slots
  PROVE  /\ calls'[d] \in Call /\ Fitting(d, calls'[d])
         /\ calls'[d].step \in Inside \cup {"answered"} =>
               /\ calls'[d].step = calls[d].step /\ calls'[d].kind = calls[d].kind
               /\ calls'[d].user = calls[d].user /\ calls'[d].trip = calls[d].trip
               /\ calls'[d].token = calls[d].token /\ calls'[d].reply = calls[d].reply
         /\ calls'[d].kind \in {"register", "login"} => calls'[d].user \in People
<1>1. calls[d] \in Call /\ Fitting(d, calls[d])
  BY DEF PageInv, IInv, ServerTypeOK
<1>2. calls[d].kind \in {"register", "login"} => calls[d].user \in People
  BY DEF PageInv, IInv, Applicants
<1>3. CASE calls'[d] = calls[d]
  BY <1>1, <1>2, <1>3
<1>4. CASE calls'[d] = Free
  BY <1>4, FreeType, FreeFits DEF Inside
<1>5. CASE calls'[d] = [calls[d] EXCEPT !.heard = FALSE]
  BY <1>1, <1>2, <1>5, DeafCall
<1>6. CASE Sent(d, calls'[d])
  BY <1>6 DEF Sent, Inside
<1>. QED
  BY <1>3, <1>4, <1>5, <1>6 DEF AllTame, Tame

(* So the server's invariant is kept, and no session is offered anew.      *)
LEMMA TameKeeps ==
  ASSUME PageInv, AllTame, UNCHANGED <<store, history>>
  PROVE  /\ IInv' /\ \A d \in Slots : Fitting(d, calls'[d])
         /\ \A d \in Slots : Offered(calls'[d]) =>
               Offered(calls[d]) /\ calls'[d].token = calls[d].token
         /\ issued' = issued
<1>1. /\ UNCHANGED <<accounts, sessions, issued, trips, made, overlapped, restored>>
  BY DEF store, history
<1>2. calls' \in [Slots -> Call]
  BY TameCalls DEF AllTame
<1>3. \A d \in Slots : /\ Fitting(d, calls'[d])
                       /\ Offered(calls'[d]) => Offered(calls[d]) /\ calls'[d].token = calls[d].token
  BY TameCalls DEF Offered
<1>4. ServerTypeOK' /\ Applicants'
  <2>1. \A d \in Slots : calls'[d].step \in Inside => calls'[d].user \in accounts
    BY TameCalls DEF PageInv, IInv, ServerTypeOK, Inside
  <2>2. Applicants'
    BY TameCalls DEF Applicants
  <2>. QED
    BY <1>1, <1>2, <2>1, <2>2 DEF PageInv, IInv, ServerTypeOK, Inside
<1>5. \A d \in Slots : Updating(d)' =>
          Updating(d) /\ calls'[d].trip = calls[d].trip /\ calls'[d].user = calls[d].user
  BY TameCalls DEF Updating, At, Inside
<1>6. \A u \in People : Writing(u)' \subseteq Writing(u)
  BY TameCalls DEF Writing, At, Inside
<1>7. TripHasOneOwner' /\ UpdatesKnown' /\ UpdatesApart'
  BY <1>1, <1>5 DEF PageInv, IInv, TripHasOneOwner, UpdatesKnown, UpdatesApart
<1>8. OneWriter' /\ RoomForWriter' /\ QuotaUnlessOverlap'
  BY <1>1, <1>6, QuotaStays DEF PageInv
<1>. QED
  BY <1>1, <1>3, <1>4, <1>7, <1>8 DEF IInv

-----------------------------------------------------------------------------
(* The steps of the page.                                                  *)

LEMMA ListType ==
  ASSUME PageInv
  PROVE  /\ list \in Lists /\ NoList \in Lists
         /\ \A error \in {"dead", "other"} : [list EXCEPT !.error = error] \in Lists
<1>1. list \in Lists
  BY DEF PageInv, PageTypes
<1>2. NoList \in Lists
  BY DEF NoList, Lists
<1>3. \A error \in {"dead", "other"} : [list EXCEPT !.error = error] \in Lists
  BY <1>1 DEF Lists
<1>. QED
  BY <1>1, <1>2, <1>3

LEMMA HangIsTame ==
  ASSUME PageInv, NEW c \in Slots, Hang(c)
  PROVE  AllTame
BY DEF Hang, AllTame, Tame, PageInv, IInv, ServerTypeOK

LEMMA NothingIsTame ==
  ASSUME PageInv, UNCHANGED calls
  PROVE  AllTame
BY DEF AllTame, Tame, PageInv, IInv, ServerTypeOK

LEMMA SessionToken ==
  ASSUME PageInv, session # NoSession
  PROVE  session \in Session /\ session.token \in Tokens /\ session.token # 0
BY AccountAssumption DEF PageInv, PageTypes, Session, Tokens

\* A request of the page is tame in its slot, sent again or not.
LEMMA RequestIsTame ==
  ASSUME PageInv, NEW c \in Slots, NEW kind \in Bearing \cup {"register", "login"},
         kind = "list" <=> c = ListSlot,
         NEW token \in Tokens \cup {0}, kind \in Bearing => token # 0,
         NEW user \in People \cup {Nobody}, kind \in {"register", "login"} => user \in People,
         NEW trip \in TripIds \cup {0}, NEW heard \in BOOLEAN,
         NEW x, \/ x = Request(kind, token, user, trip, heard)
                \/ x = [Request(kind, token, user, trip, heard) EXCEPT !.again = TRUE],
         calls' = [calls EXCEPT ![c] = x]
  PROVE  AllTame
<1>1. /\ x \in Call /\ x.step = "arrived" /\ x.kind = kind /\ x.token = token /\ x.user = user
  BY DEF Request, Free, Call, Bearing
<1>2. x # Free
  BY <1>1 DEF Free
<1>3. Fitting(c, x)
  BY <1>1, <1>2 DEF Fitting
<1>4. Sent(c, x)
  BY <1>1, <1>3 DEF Sent
<1>. QED
  BY <1>4 DEF AllTame, Tame, PageInv, IInv, ServerTypeOK

LEMMA FreeSlotsAre == \A c \in FreeSlots : c \in Slots /\ c # ListSlot
BY DEF FreeSlots

(* A tame step that leaves the session or reads the stored one, one that   *)
(* gives it up, and the answer that brings one.                            *)
LEMMA SessionStays ==
  ASSUME PageInv, AllTame, UNCHANGED <<store, history, stored, loggedOut>>,
         session' \in {session, stored}, PageTypes'
  PROVE  PageInv'
<1>1. /\ IInv' /\ \A d \in Slots : Fitting(d, calls'[d])
      /\ \A d \in Slots : Offered(calls'[d]) =>
            Offered(calls[d]) /\ calls'[d].token = calls[d].token
      /\ issued' = issued
  BY TameKeeps
<1>2. LogoutIsFinal' /\ Given' \subseteq Given
  BY DEF PageInv, LogoutIsFinal, Given
<1>3. TokensApart'
  BY <1>1, <1>2 DEF PageInv, TokensApart
<1>. QED
  BY <1>1, <1>2, <1>3 DEF PageInv

LEMMA SessionGoes ==
  ASSUME PageInv, AllTame, UNCHANGED <<store, history>>, Write(NoSession),
         loggedOut' \in {loggedOut, loggedOut \cup {session.token}}, PageTypes'
  PROVE  PageInv'
<1>1. /\ IInv' /\ \A d \in Slots : Fitting(d, calls'[d])
      /\ \A d \in Slots : Offered(calls'[d]) =>
            Offered(calls[d]) /\ calls'[d].token = calls[d].token
      /\ issued' = issued /\ issued \in Nat
  BY TameKeeps DEF PageInv, IInv, ServerTypeOK
<1>2. session'.token = 0 /\ stored'.token = 0
  BY DEF Write, NoSession
<1>3. 0 \notin loggedOut'
  BY AccountAssumption DEF PageTypes, Tokens
<1>4. LogoutIsFinal'
  BY <1>2, <1>3 DEF LogoutIsFinal
<1>5. Given' \subseteq Given \cup {0}
  BY <1>2 DEF Given
<1>6. TokensApart'
  BY <1>1, <1>5 DEF PageInv, TokensApart
<1>. QED
  BY <1>1, <1>4, <1>6 DEF PageInv

LEMMA SessionComes ==
  ASSUME PageInv, NEW c \in Slots, Offered(calls[c]), Hang(c),
         UNCHANGED <<store, history, loggedOut>>,
         Write([token |-> calls[c].token, user |-> calls[c].user]), PageTypes'
  PROVE  PageInv'
<1>1. AllTame
  BY HangIsTame
<1>2. /\ IInv' /\ \A d \in Slots : Fitting(d, calls'[d])
      /\ \A d \in Slots : Offered(calls'[d]) =>
            Offered(calls[d]) /\ calls'[d].token = calls[d].token
      /\ issued' = issued /\ issued \in Nat
  BY <1>1, TameKeeps DEF PageInv, IInv, ServerTypeOK
<1>3. calls[c].token \in 1 .. issued /\ calls[c].token \notin Given
  BY DEF PageInv, TokensApart
<1>4. session'.token = calls[c].token /\ stored'.token \in {calls[c].token, stored.token}
  BY <1>2, <1>3 DEF Write, NoSession
<1>5. LogoutIsFinal'
  BY <1>3, <1>4 DEF PageInv, LogoutIsFinal, Given
<1>6. Given' \subseteq Given \cup {calls[c].token}
  BY <1>4 DEF Given
<1>7. ~Offered(calls'[c])
  BY FreeFits DEF Hang, PageInv, IInv, ServerTypeOK
<1>8. TokensApart'
  BY <1>2, <1>3, <1>6, <1>7 DEF PageInv, TokensApart
<1>. QED
  BY <1>2, <1>5, <1>8 DEF PageInv

LEMMA Submitted ==
  ASSUME PageInv, NEW c \in Slots, NEW user \in People, NEW kind \in {"register", "login"},
         Submit(c, kind, user)
  PROVE  PageInv'
<1>1. /\ c \in FreeSlots /\ calls' = [calls EXCEPT ![c] = Request(kind, 0, user, 0, TRUE)]
      /\ UNCHANGED <<store, history, pageVars>>
  BY DEF Submit
<1>2. AllTame
  <2>1. PICK x : x = Request(kind, 0, user, 0, TRUE)
    OBVIOUS
  <2>. QED
    BY <1>1, <2>1, FreeSlotsAre, RequestIsTame DEF Bearing
<1>. QED
  BY <1>1, <1>2, SessionStays, PageUntouched DEF pageVars, account

LEMMA Signed ==
  ASSUME PageInv, NEW c \in Slots, SignedIn(c)
  PROVE  PageInv'
<1>1. /\ calls[c].step = "answered" /\ calls[c].kind \in {"register", "login"}
      /\ Hang(c) /\ UNCHANGED <<store, history, open, online, paused, loggedOut, lagging>>
  BY DEF SignedIn, At, network
<1>2. CASE calls[c].reply = "ok"
  <2>1. /\ Write([token |-> calls[c].token, user |-> calls[c].user]) /\ mine' = {}
        /\ wants' \in BOOLEAN /\ list' \in {list, NoList}
    BY <1>2 DEF SignedIn
  <2>2. Offered(calls[c])
    BY <1>1, <1>2 DEF Offered
  <2>3. calls[c].token \in Tokens /\ calls[c].user \in People
    BY <1>1, <2>2, AccountAssumption
       DEF PageInv, IInv, ServerTypeOK, Applicants, TokensApart, Tokens
  <2>4. session' \in Session /\ stored' \in Session \cup {NoSession}
    BY <2>1, <2>3 DEF Write, Session, PageInv, PageTypes
  <2>5. PageTypes'
    BY <1>1, <2>1, <2>4, ListType DEF PageInv, PageTypes
  <2>. QED
    BY <1>1, <2>1, <2>2, <2>5, SessionComes
<1>3. CASE calls[c].reply # "ok"
  <2>1. UNCHANGED <<session, stored, list, wants, mine>>
    BY <1>3 DEF SignedIn
  <2>2. PageTypes' /\ AllTame
    BY <1>1, <2>1, HangIsTame DEF PageInv, PageTypes
  <2>. QED
    BY <1>1, <2>1, <2>2, SessionStays
<1>. QED
  BY <1>2, <1>3

LEMMA LoggedOut ==
  ASSUME PageInv, Logout
  PROVE  PageInv'
<1>1. /\ session # NoSession /\ Write(NoSession) /\ loggedOut' = loggedOut \cup {session.token}
      /\ mine' = {} /\ UNCHANGED <<store, history, open, list, wants, online, paused, lagging>>
  BY DEF Logout, network
<1>2. session.token \in Tokens /\ session.token # 0
  BY <1>1, SessionToken
<1>3. CASE UNCHANGED calls
  BY <1>3, NothingIsTame, <1>1, <1>2, SessionGoes DEF PageInv, PageTypes, Write
<1>4. CASE \E c \in FreeSlots :
             calls' = [calls EXCEPT ![c] = Request("logout", session.token, Nobody, 0, FALSE)]
  <2>1. PICK c \in FreeSlots :
             calls' = [calls EXCEPT ![c] = Request("logout", session.token, Nobody, 0, FALSE)]
    BY <1>4
  <2>2. PICK x : x = Request("logout", session.token, Nobody, 0, FALSE)
    OBVIOUS
  <2>3. AllTame
    BY <1>2, <2>1, <2>2, FreeSlotsAre, RequestIsTame DEF Bearing
  <2>. QED
    BY <2>3, <1>1, <1>2, SessionGoes DEF PageInv, PageTypes, Write
<1>. QED
  BY <1>3, <1>4 DEF Logout

LEMMA Dropped ==
  ASSUME PageInv, DropDead
  PROVE  PageInv'
<1>1. /\ Write(NoSession) /\ mine' = {} /\ UNCHANGED <<store, calls, history>>
      /\ UNCHANGED <<open, list, wants, online, paused, loggedOut, lagging>>
  BY DEF DropDead, serverVars, network
<1>. QED
  BY <1>1, NothingIsTame, SessionGoes DEF PageInv, PageTypes, Write

LEMMA Reloaded ==
  ASSUME PageInv, Reload
  PROVE  PageInv'
<1>1. /\ session' = stored /\ UNCHANGED <<stored, store, history, loggedOut>>
      /\ open' = FALSE /\ list' = NoList /\ wants' = FALSE /\ mine' = {} /\ lagging' = FALSE
      /\ online' = TRUE /\ paused' = "no"
  BY DEF Reload
<1>2. AllTame
  BY DEF Reload, AllTame, Tame
<1>3. PageTypes'
  BY <1>1, ListType DEF PageInv, PageTypes
<1>. QED
  BY <1>1, <1>2, <1>3, SessionStays

LEMMA DialogMoved ==
  ASSUME PageInv, OpenDialog \/ CloseDialog \/ Forget \/ Network
  PROVE  PageInv'
<1>1. /\ UNCHANGED <<store, calls, history, session, stored, paused, loggedOut, mine, lagging>>
      /\ open' \in {open, TRUE, FALSE} /\ wants' \in {wants, TRUE, FALSE}
      /\ online' \in {online, TRUE, FALSE} /\ list' \in {list, NoList}
  BY DEF OpenDialog, CloseDialog, Forget, Network, serverVars, account, network, PageInv, PageTypes
<1>2. PageTypes'
  BY <1>1, ListType DEF PageInv, PageTypes
<1>. QED
  BY <1>1, <1>2, NothingIsTame, SessionStays

\* A list is sent with the session, or waits for the network.
LEMMA AskIsTame ==
  ASSUME PageInv, session # NoSession, NEW try \in {"first", "again"}, Ask(try)
  PROVE  AllTame /\ paused' \in {"no", "first", "again"}
<1>1. CASE ~online
  BY <1>1, HangIsTame, AccountAssumption DEF Ask
<1>2. CASE online
  <2>1. PICK x : x = [Request("list", session.token, Nobody, 0, TRUE) EXCEPT !.again = (try = "again")]
    OBVIOUS
  <2>2. calls' = [calls EXCEPT ![ListSlot] = x] /\ paused' = "no"
    BY <1>2, <2>1 DEF Ask
  <2>3. \/ x = Request("list", session.token, Nobody, 0, TRUE)
        \/ x = [Request("list", session.token, Nobody, 0, TRUE) EXCEPT !.again = TRUE]
    <3>1. CASE try = "again"
      <4>1. (try = "again") = TRUE
        BY <3>1
      <4>. QED
        BY <2>1, <4>1
    <3>2. CASE try = "first"
      <4>1. (try = "again") = FALSE
        BY <3>2
      <4>2. x = [Request("list", session.token, Nobody, 0, TRUE) EXCEPT !.again = FALSE]
        BY <2>1, <4>1
      <4>3. PICK old : old = Request("list", session.token, Nobody, 0, TRUE)
        OBVIOUS
      <4>4. old \in Call /\ old.again = FALSE
        BY <4>3, SessionToken DEF Request, Free, Call, Bearing
      <4>5. [old EXCEPT !.again = FALSE] = old
        BY <4>4 DEF Call
      <4>. QED
        BY <4>2, <4>3, <4>5
    <3>. QED
      BY <3>1, <3>2
  <2>. QED
    BY <2>2, <2>3, SessionToken, RequestIsTame, AccountAssumption DEF Bearing
<1>. QED
  BY <1>1, <1>2

LEMMA Fetched ==
  ASSUME PageInv, Fetch
  PROVE  PageInv'
<1>1. wants' = FALSE /\ UNCHANGED <<store, history, session, stored, open, online, loggedOut, mine>>
  BY DEF Fetch, account
<1>2. list' \in {list, NoList, [list EXCEPT !.error = "other"]} /\ lagging' \in {lagging, FALSE}
  BY DEF Fetch
<1>3. \/ UNCHANGED <<calls, paused>>
      \/ session # NoSession /\ Ask("first")
  BY DEF Fetch
<1>4. AllTame /\ paused' \in {"no", "first", "again"}
  BY <1>3, NothingIsTame, AskIsTame DEF PageInv, PageTypes
<1>5. PageTypes'
  BY <1>1, <1>2, <1>4, ListType DEF PageInv, PageTypes
<1>. QED
  BY <1>1, <1>4, <1>5, SessionStays

LEMMA Resumed ==
  ASSUME PageInv, Resume
  PROVE  PageInv'
<1>1. UNCHANGED <<store, history, session, stored, open, wants, online, loggedOut, mine, lagging>>
  BY DEF Resume, account
<1>2. list' \in {list, [list EXCEPT !.error = "other"]} /\ paused \in {"first", "again"}
  BY DEF Resume, PageInv, PageTypes
<1>3. \/ UNCHANGED calls /\ paused' = "no"
      \/ session # NoSession /\ Ask(paused)
  BY DEF Resume
<1>4. AllTame /\ paused' \in {"no", "first", "again"}
  BY <1>2, <1>3, NothingIsTame, AskIsTame
<1>5. PageTypes'
  BY <1>1, <1>2, <1>4, ListType DEF PageInv, PageTypes
<1>. QED
  BY <1>1, <1>4, <1>5, SessionStays

LEMMA ListTaken ==
  ASSUME PageInv, NEW c \in Slots, Listed(c)
  PROVE  PageInv'
<1>1. /\ Hang(c) /\ UNCHANGED <<store, history, session, stored, open, wants, online, paused, loggedOut, mine, lagging>>
  BY DEF Listed, account, network
<1>2. calls[c].seen \in SUBSET TripIds
  BY DEF PageInv, IInv, ServerTypeOK, Call
<1>3. list' \in {[known |-> TRUE, trips |-> calls[c].seen, error |-> "none"],
                [list EXCEPT !.error = "dead"]}
  BY DEF Listed
<1>4. list' \in Lists
  <2>1. [known |-> TRUE, trips |-> calls[c].seen, error |-> "none"] \in Lists
    BY <1>2 DEF Lists
  <2>. QED
    BY <1>3, <2>1, ListType
<1>5. PageTypes'
  BY <1>1, <1>4 DEF PageInv, PageTypes
<1>. QED
  BY <1>1, <1>5, HangIsTame, SessionStays

LEMMA TripSent ==
  ASSUME PageInv, NEW c \in Slots, Save(c) \/ \E trip \in TripIds : Remove(c, trip)
  PROVE  PageInv'
<1>1. session # NoSession /\ c \in FreeSlots /\ UNCHANGED <<store, history, pageVars>>
  BY DEF Save, Remove
<1>2. PICK kind \in {"save", "remove"}, trip \in TripIds \cup {0} :
          calls' = [calls EXCEPT ![c] = Request(kind, session.token, Nobody, trip, TRUE)]
  BY DEF Save, Remove
<1>3. AllTame
  <2>1. PICK x : x = Request(kind, session.token, Nobody, trip, TRUE)
    OBVIOUS
  <2>. QED
    BY <1>1, <1>2, <2>1, SessionToken, FreeSlotsAre, RequestIsTame DEF Bearing
<1>. QED
  BY <1>1, <1>3, SessionStays, PageUntouched DEF pageVars, account

LEMMA ChangeTaken ==
  ASSUME PageInv, NEW c \in Slots, Changed(c)
  PROVE  PageInv'
<1>1. /\ calls[c].step = "answered" /\ calls[c].kind \in {"save", "remove"}
      /\ UNCHANGED <<store, history, session, stored, open, list, online, loggedOut>>
  BY DEF Changed, At, account
<1>2. CASE calls[c].reply # "ok"
  <2>1. Hang(c) /\ UNCHANGED <<wants, paused, lagging, mine>>
    BY <1>2 DEF Changed
  <2>2. PageTypes'
    BY <1>1, <2>1 DEF PageInv, PageTypes
  <2>. QED
    BY <1>1, <2>1, <2>2, HangIsTame, SessionStays
<1>3. CASE calls[c].reply = "ok"
  <2>1. Invalidate(c)
    BY <1>3 DEF Changed
  <2>2. lagging' = (lagging \/ (Listing /\ ~(open /\ list.known)))
    BY <1>3 DEF Changed
  <2>3. lagging' \in BOOLEAN
    BY <2>2
  <2>4. \/ mine' \in {mine, mine \ {calls[c].trip}}
        \/ calls[c].kind = "save" /\ mine' = mine \cup {calls[c].trip}
    BY <1>3 DEF Changed
  <2>5. calls[c].kind = "save" => calls[c].trip \in TripIds
    BY <1>1, <1>3 DEF PageInv, Fitting, IInv, ServerTypeOK, Call
  <2>6. wants' \in BOOLEAN /\ paused' \in {paused, "no"}
    BY <2>1 DEF Invalidate, PageInv, PageTypes
  <2>7. PageTypes'
    BY <1>1, <2>5, <2>6, <2>3, <2>4 DEF PageInv, PageTypes
  <2>8. AllTame
    BY <2>1, AccountAssumption DEF Invalidate, AllTame, Tame, PageInv, IInv, ServerTypeOK
  <2>. QED
    BY <1>1, <2>7, <2>8, SessionStays
<1>. QED
  BY <1>2, <1>3

LEMMA Failed ==
  ASSUME PageInv, NEW c \in Slots, Fail(c)
  PROVE  PageInv'
<1>1. /\ UNCHANGED <<store, history, session, stored, open, wants, online, loggedOut, mine, lagging>>
      /\ list' \in {list, [list EXCEPT !.error = "other"]}
  BY DEF Fail, account
<1>2. \/ session # NoSession /\ Ask("again")
      \/ Hang(c) /\ UNCHANGED paused
      \/ calls' = [calls EXCEPT ![c].heard = FALSE] /\ UNCHANGED paused
  BY DEF Fail, Again
<1>3. AllTame /\ paused' \in {"no", "first", "again"}
  <2>1. ASSUME calls' = [calls EXCEPT ![c].heard = FALSE]
        PROVE  AllTame
    BY <2>1 DEF AllTame, Tame, PageInv, IInv, ServerTypeOK
  <2>. QED
    BY <1>2, <2>1, HangIsTame, AskIsTame DEF PageInv, PageTypes
<1>4. PageTypes'
  BY <1>1, <1>3, ListType DEF PageInv, PageTypes
<1>. QED
  BY <1>1, <1>3, <1>4, SessionStays

LEMMA PageInit == Init => PageInv
<1>. SUFFICES ASSUME Init PROVE PageInv
  OBVIOUS
<1>1. IInv /\ issued = 0 /\ \A c \in Slots : calls[c] = Free
  BY InitInv DEF Init, ServerInit
<1>2. PageTypes
  BY DEF Init, PageTypes, NoList, Lists
<1>3. LogoutIsFinal
  BY DEF Init, LogoutIsFinal
<1>4. TokensApart
  BY <1>1, FreeFits DEF Init, TokensApart, Given, NoSession
<1>. QED
  BY <1>1, <1>2, <1>3, <1>4, FreeFits DEF PageInv

LEMMA PageNext == PageInv /\ [Next]_vars => PageInv'
<1>. SUFFICES ASSUME PageInv, [Next]_vars PROVE PageInv'
  OBVIOUS
<1>1. CASE Person
  BY <1>1, Submitted, LoggedOut, Reloaded, DialogMoved, TripSent DEF Person
<1>2. CASE World
  BY <1>2, ExpiryKeeps, ServerKeeps DEF World
<1>3. CASE Rendering \/ Forget \/ Network \/ Resume
  BY <1>3, Dropped, Fetched, DialogMoved, Resumed DEF Rendering
<1>4. CASE \E c \in Slots : Served(c) \/ Answer(c) \/ Fail(c)
  BY <1>4, ServerKeeps, Signed, ListTaken, ChangeTaken, Failed DEF Served, Answer
<1>5. CASE UNCHANGED vars
  <2>1. UNCHANGED <<store, history, calls, pageVars>>
    BY <1>5 DEF vars, serverVars
  <2>. QED
    BY <2>1, NothingIsTame, PageUntouched, SessionStays DEF pageVars, account
<1>. QED
  BY <1>1, <1>2, <1>3, <1>4, <1>5 DEF Next

LEMMA PageInvariant == Spec => []PageInv
BY PageInit, PageNext, PTL DEF Spec

(* session.ts: a session the page has logged out of never comes back, in   *)
(* the page or with a reload, whatever logins were under way and however   *)
(* full the storage; and every request of the page that is of a session    *)
(* bears a token that was issued.                                          *)
THEOREM SessionsAlwaysHold == Spec => []SessionsHold
<1>1. PageInv => SessionsHold
  BY DEF PageInv, PageTypes, IInv, Fitting, SessionsHold, TypeOK, Heard, Lists
<1>. QED
  BY <1>1, PageInvariant, PTL

(* What the server promises of quotas and of owners holds with the page as *)
(* its client: a page that listens, hangs up, asks again and is reloaded.  *)
THEOREM PageKeepsAccounts == Spec => [](QuotaUnlessOverlap /\ TripHasOneOwner)
<1>1. PageInv => QuotaUnlessOverlap /\ TripHasOneOwner
  BY DEF PageInv, IInv
<1>. QED
  BY <1>1, PageInvariant, PTL

-----------------------------------------------------------------------------
(* What the page shows of the trips saved on it. A session is of the       *)
(* person it was issued to, wherever the page or an answer holds it; a     *)
(* trip the page knows of was made; the list under way is the page's own   *)
(* and, unless it lags, will bring or has brought every trip of the page   *)
(* that is still there; and with no list under way or to be asked for, the *)
(* list of an open dialog has them.                                        *)
Owned(x) == \A s \in sessions : s.token = x.token => s.user = x.user
OwnersAgree ==
    /\ Owned(session) /\ Owned(stored)
    /\ \A c \in Slots : Offered(calls[c]) => Owned(calls[c])

Saved(x) == x.step = "answered" /\ x.kind = "save" /\ x.reply = "ok"
Bore(x)  == x.step = "answered" /\ x.kind \in Bearing
MineIsMade ==
    /\ mine \subseteq 1 .. made /\ (session = NoSession => mine = {})
    /\ \A c \in Slots : Saved(calls[c]) => calls[c].trip \in 1 .. made
    /\ \A c \in Slots : Bore(calls[c]) => calls[c].token # 0

Kept == mine \cap (trips[session.user] \ restored)
Reads(x) ==
    /\ x.token = session.token
    /\ x.step = "passed" => x.user = session.user
    /\ x.step = "answered" /\ x.reply = "ok" => Kept \subseteq x.seen

ListIsHeard == calls[ListSlot] # Free => calls[ListSlot].heard
ListReads   == Listing /\ ~lagging /\ mine # {} => Reads(calls[ListSlot])
ListShows   ==
    session # NoSession /\ open /\ ~wants /\ ~Underway /\ list.error = "none" /\ ~lagging =>
        Kept \subseteq list.trips

FreshInv == PageInv /\ OwnersAgree /\ MineIsMade /\ ListIsHeard /\ ListReads /\ ListShows

-----------------------------------------------------------------------------
(* The steps of the server.                                                *)

LEMMA AnswerIs ==
  ASSUME NEW call \in Call, NEW reply, NEW token, NEW trip, NEW seen,
         NEW x, x = Answered(call, reply, token, trip, seen)
  PROVE  \/ x = Free /\ ~call.heard
         \/ /\ x.kind = call.kind /\ x.heard = call.heard /\ x.user = call.user
            /\ x.step = "answered" /\ x.reply = reply /\ x.token = token
            /\ x.trip = trip /\ x.seen = seen /\ call.heard
BY DEF Answered, Call

(* What a call may become by a step of the server: see the parts of        *)
(* FreshInv that speak of calls.                                           *)
Moves(c, x) ==
    /\ calls' = [calls EXCEPT ![c] = x]
    /\ x.heard = calls[c].heard \/ (x = Free /\ ~calls[c].heard)
    /\ x.step = "answered" => x.heard
    /\ Saved(x) => x.trip \in 1 .. made'
    /\ Offered(x) => x.token = issued + 1 /\ x.user = calls[c].user
    /\ c = ListSlot /\ x # Free =>
          /\ calls[c].kind = "list" /\ x.token = calls[c].token
          /\ x.step = "passed" =>
                x.user = UserOf(x.token) /\ Live(x.token)
          /\ x.step = "answered" /\ x.reply = "ok" =>
                calls[c].step = "passed" /\ x.seen = trips[calls[c].user]

\* The calls that are no sign-in, and neither save nor list of the page.
LEMMA RepliesMoves ==
  ASSUME PageInv, NEW c \in Slots, NEW reply \in {"ok", "dead", "refused"}, Replies(c, reply),
         calls[c].step # "free",
         reply = "ok" => calls[c].kind \notin {"save", "register", "login", "list"}
  PROVE  \E x : Moves(c, x)
<1>1. calls[c] \in Call /\ calls \in [Slots -> Call] /\ Fitting(c, calls[c])
  BY DEF PageInv, IInv, ServerTypeOK
<1>2. PICK x : x = Answered(calls[c], reply, calls[c].token, calls[c].trip, {})
  OBVIOUS
<1>3. calls' = [calls EXCEPT ![c] = x]
  BY <1>1, <1>2 DEF Replies
<1>4. \/ x = Free /\ ~calls[c].heard
      \/ /\ x.kind = calls[c].kind /\ x.heard = calls[c].heard
         /\ x.step = "answered" /\ x.reply = reply /\ x.token = calls[c].token /\ calls[c].heard
  BY <1>1, <1>2, AnswerIs
<1>5. c = ListSlot => calls[c].kind = "list"
  BY <1>1 DEF Fitting, Free
<1>6. ~Saved(x) /\ ~Offered(x) /\ (x.step = "answered" => x.heard)
  BY <1>4 DEF Saved, Offered, Free
<1>. QED
  BY <1>3, <1>4, <1>5, <1>6 DEF Moves

LEMMA GoesMoves ==
  ASSUME PageInv, NEW c \in Slots, NEW step \in Inside, Goes(c, step), c # ListSlot
  PROVE  \E x : Moves(c, x)
<1>1. calls[c] \in Call
  BY DEF PageInv, IInv, ServerTypeOK
<1>2. PICK x : x = [calls[c] EXCEPT !.step = step]
  OBVIOUS
<1>3. x.step \in Inside /\ x.heard = calls[c].heard
  BY <1>1, <1>2 DEF Call
<1>4. calls' = [calls EXCEPT ![c] = x]
  BY <1>2 DEF Goes
<1>. QED
  BY <1>3, <1>4 DEF Moves, Saved, Offered, Inside

LEMMA ServerMoves ==
  ASSUME PageInv, NEW c \in Slots, ServerStep(c) \/ Abort(c)
  PROVE  \E x : Moves(c, x)
<1>1. calls[c] \in Call /\ calls \in [Slots -> Call] /\ Fitting(c, calls[c]) /\ made \in Nat
  BY AccountAssumption DEF PageInv, IInv, ServerTypeOK
<1>2. c = ListSlot /\ calls[c].step # "free" => calls[c].kind = "list"
  BY <1>1 DEF Fitting, Free
<1>3. CASE CreateAccount(c) \/ CheckPassword(c) \/ CheckSave(c) \/ Upsert(c) \/ Revoke(c) \/ Delete(c)
  <2>1. /\ calls[c].step # "free" /\ calls[c].kind \notin {"list", "none"}
        /\ \/ Goes(c, "issuing") \/ Goes(c, "writing") \/ Replies(c, "refused")
           \/ Replies(c, "ok") /\ calls[c].kind \in {"update", "logout", "remove"}
    BY <1>3 DEF CreateAccount, CheckPassword, CheckSave, Upsert, Revoke, Delete, At
  <2>2. c # ListSlot
    BY <1>2, <2>1
  <2>. QED
    BY <2>1, <2>2, GoesMoves, RepliesMoves DEF Inside
<1>4. CASE IssueSession(c)
  <2>1. calls' = [calls EXCEPT ![c] = Answered(calls[c], "ok", issued + 1, 0, {})]
    BY <1>4 DEF IssueSession
  <2>2. PICK x : x = Answered(calls[c], "ok", issued + 1, 0, {})
    OBVIOUS
  <2>3. \/ x = Free /\ ~calls[c].heard
        \/ /\ x.kind = calls[c].kind /\ x.heard = calls[c].heard /\ x.user = calls[c].user
           /\ x.token = issued + 1 /\ calls[c].heard
    BY <1>1, <2>2, AnswerIs
  <2>4. calls[c].kind \in {"register", "login"} /\ c # ListSlot
    BY <1>1, <1>2, <1>4 DEF IssueSession, Fitting
  <2>5. ~Saved(x) /\ (x.step = "answered" => x.heard)
    BY <2>3, <2>4 DEF Saved, Free
  <2>6. Offered(x) => x # Free
    BY DEF Offered, Free
  <2>. QED
    BY <2>1, <2>2, <2>3, <2>4, <2>5, <2>6 DEF Moves
<1>5. CASE Filter(c)
  <2>1. calls[c].step = "arrived" /\ calls[c].kind \in Bearing
    BY <1>5 DEF Filter, At
  <2>2. CASE ~Live(calls[c].token)
    BY <1>5, <2>1, <2>2, RepliesMoves DEF Filter
  <2>3. CASE Live(calls[c].token)
    <3>1. PICK x : x = [calls[c] EXCEPT !.step = "passed", !.user = UserOf(calls[c].token)]
      OBVIOUS
    <3>2. calls' = [calls EXCEPT ![c] = x]
      BY <1>5, <2>3, <3>1 DEF Filter
    <3>3. /\ x.step = "passed" /\ x.heard = calls[c].heard /\ x.token = calls[c].token
          /\ x.user = UserOf(calls[c].token)
      BY <1>1, <3>1 DEF Call
    <3>4. ~Saved(x) /\ ~Offered(x)
      BY <3>3 DEF Saved, Offered
    <3>. QED
      BY <1>2, <2>1, <2>3, <3>2, <3>3, <3>4 DEF Moves
  <2>. QED
    BY <2>2, <2>3
<1>6. CASE List(c)
  <2>1. /\ calls[c].step = "passed" /\ calls[c].kind = "list"
        /\ calls' = [calls EXCEPT ![c] = Answered(calls[c], "ok", calls[c].token, 0, trips[calls[c].user])]
    BY <1>6 DEF List, At
  <2>2. PICK x : x = Answered(calls[c], "ok", calls[c].token, 0, trips[calls[c].user])
    OBVIOUS
  <2>3. \/ x = Free /\ ~calls[c].heard
        \/ /\ x.kind = "list" /\ x.heard = calls[c].heard /\ x.token = calls[c].token
           /\ x.seen = trips[calls[c].user] /\ x.step = "answered" /\ calls[c].heard
    BY <1>1, <2>1, <2>2, AnswerIs
  <2>4. ~Saved(x) /\ ~Offered(x) /\ (x.step = "answered" => x.heard)
    BY <2>3 DEF Saved, Offered, Free
  <2>. QED
    BY <2>1, <2>2, <2>3, <2>4 DEF Moves
<1>7. CASE Insert(c)
  <2>1. /\ calls[c].step = "writing" /\ calls[c].kind = "save" /\ made' = made + 1
        /\ calls' = [calls EXCEPT ![c] = Answered(calls[c], "ok", calls[c].token, made + 1, {})]
    BY <1>7 DEF Insert, At
  <2>2. PICK x : x = Answered(calls[c], "ok", calls[c].token, made + 1, {})
    OBVIOUS
  <2>3. \/ x = Free /\ ~calls[c].heard
        \/ /\ x.kind = "save" /\ x.heard = calls[c].heard /\ x.trip = made + 1 /\ calls[c].heard
    BY <1>1, <2>1, <2>2, AnswerIs
  <2>4. ~Offered(x) /\ (Saved(x) => x.trip \in 1 .. made') /\ (x.step = "answered" => x.heard)
    BY <1>1, <2>1, <2>3 DEF Saved, Offered, Free
  <2>5. c # ListSlot
    BY <1>2, <2>1
  <2>. QED
    BY <2>1, <2>2, <2>3, <2>4, <2>5 DEF Moves
<1>8. CASE Abort(c)
  BY <1>8, FreeType DEF Abort, Moves, Saved, Offered, Free
<1>. QED
  BY <1>3, <1>4, <1>5, <1>6, <1>7, <1>8 DEF ServerStep

(* A session comes with a token of its own; a trip comes with an id of its *)
(* own or is one that was deleted.                                         *)
LEMMA ServerStores ==
  ASSUME PageInv, NEW c \in Slots, ServerStep(c) \/ Abort(c)
  PROVE  /\ \A s \in sessions' :
               s \in sessions \/ (s.token = issued + 1 /\ s.user = calls[c].user)
         /\ made' \in {made, made + 1}
         /\ \A u \in People : \A t \in trips'[u] \ restored' :
               t \in trips[u] \ restored \/ t = made + 1
<1>0. trips \in [People -> SUBSET (1 .. made)] /\ calls[c] \in Call
  BY DEF PageInv, IInv, ServerTypeOK
<1>1. CASE IssueSession(c)
  <2>1. UNCHANGED <<trips, made, restored>>
    BY <1>1 DEF IssueSession, history
  <2>2. PICK new : new = [token |-> issued + 1, user |-> calls[c].user]
    OBVIOUS
  <2>3. new.token = issued + 1 /\ new.user = calls[c].user
    BY <2>2
  <2>4. sessions' = sessions \cup {new}
    BY <1>1, <2>2 DEF IssueSession
  <2>. QED
    BY <2>1, <2>3, <2>4
<1>2. CASE Insert(c)
  <2>1. /\ UNCHANGED <<sessions, restored>> /\ made' = made + 1
        /\ trips' = [trips EXCEPT ![calls[c].user] = @ \cup {made + 1}]
    BY <1>2 DEF Insert, history
  <2>2. \A u \in People : trips'[u] \subseteq trips[u] \cup {made + 1}
    BY <1>0, <2>1
  <2>. QED
    BY <2>1, <2>2
<1>3. CASE Upsert(c)
  <2>1. UNCHANGED <<sessions, made>>
    BY <1>3 DEF Upsert
  <2>2. \/ UNCHANGED <<trips, restored>>
        \/ /\ trips' = [trips EXCEPT ![calls[c].user] = @ \cup {calls[c].trip}]
           /\ restored' = IF calls[c].trip \notin trips[calls[c].user]
                          THEN restored \cup {calls[c].trip} ELSE restored
    BY <1>3 DEF Upsert
  <2>3. \A u \in People : \A t \in trips'[u] \ restored' : t \in trips[u] \ restored
    BY <1>0, <2>2
  <2>. QED
    BY <2>1, <2>3
<1>4. CASE Delete(c)
  BY <1>0, <1>4 DEF Delete, history
<1>5. CASE Revoke(c)
  BY <1>0, <1>5 DEF Revoke, history
<1>6. CASE CreateAccount(c) \/ CheckPassword(c) \/ Filter(c) \/ List(c) \/ CheckSave(c) \/ Abort(c)
  BY <1>6 DEF CreateAccount, CheckPassword, Filter, List, CheckSave, Abort, store, history
<1>. QED
  BY <1>1, <1>2, <1>3, <1>4, <1>5, <1>6 DEF ServerStep

LEMMA KeptShrinks ==
  ASSUME FreshInv, NEW c \in Slots, ServerStep(c) \/ Abort(c), UNCHANGED pageVars
  PROVE  Kept' \subseteq Kept
<1>1. mine' = mine /\ session' = session /\ mine \subseteq 1 .. made /\ made \in Nat
  BY AccountAssumption
     DEF pageVars, account, FreshInv, PageInv, IInv, ServerTypeOK, MineIsMade
<1>2. CASE session = NoSession
  BY <1>1, <1>2 DEF Kept, FreshInv, MineIsMade
<1>3. CASE session # NoSession
  <2>1. session.user \in People
    BY <1>3, SessionToken DEF FreshInv, Session
  <2>2. \A t \in trips'[session.user] \ restored' :
           t \in trips[session.user] \ restored \/ t = made + 1
    BY <2>1, ServerStores DEF FreshInv
  <2>3. made + 1 \notin mine
    BY <1>1
  <2>. QED
    BY <1>1, <2>2, <2>3 DEF Kept
<1>. QED
  BY <1>2, <1>3

LEMMA OwnedStays ==
  ASSUME PageInv, NEW c \in Slots, ServerStep(c) \/ Abort(c),
         NEW x, x.token \in 0 .. issued, Owned(x)
  PROVE  \A s \in sessions' : s.token = x.token => s.user = x.user
<1>1. \A s \in sessions' :
         s \in sessions \/ (s.token = issued + 1 /\ s.user = calls[c].user)
  BY ServerStores
<1>2. issued \in Nat /\ x.token # issued + 1
  BY AccountAssumption DEF PageInv, IInv, ServerTypeOK
<1>. QED
  BY <1>1, <1>2 DEF Owned

LEMMA UserOfOwner ==
  ASSUME NEW x, Owned(x), Live(x.token)
  PROVE  UserOf(x.token) = x.user
<1>1. PICK s \in sessions : s.token = x.token
  BY DEF Live
<1>2. PICK t : t = (CHOOSE v \in sessions : v.token = x.token)
  OBVIOUS
<1>3. t \in sessions /\ t.token = x.token
  BY <1>1, <1>2
<1>. QED
  BY <1>2, <1>3 DEF UserOf, Owned

LEMMA ServerKeepsFresh ==
  ASSUME FreshInv, NEW c \in Slots, ServerStep(c) \/ Abort(c), UNCHANGED pageVars
  PROVE  FreshInv'
<1>0. /\ PageInv /\ issued \in Nat /\ made \in Nat /\ calls \in [Slots -> Call]
      /\ Given \subseteq 0 .. issued
  BY AccountAssumption DEF FreshInv, PageInv, IInv, ServerTypeOK, TokensApart
<1>1. PageInv'
  BY <1>0, ServerKeeps
<1>2. UNCHANGED <<session, stored, open, list, wants, paused, mine, lagging>>
  BY DEF pageVars, account, network
<1>3. PICK x : Moves(c, x)
  BY <1>0, ServerMoves
<1>4. \A d \in Slots : calls'[d] = IF d = c THEN x ELSE calls[d]
  BY <1>0, <1>3 DEF Moves
<1>5. OwnersAgree'
  <2>1. Owned(session)' /\ Owned(stored)'
    <3>1. session.token \in 0 .. issued /\ stored.token \in 0 .. issued
      BY <1>0 DEF Given
    <3>2. Owned(session) /\ Owned(stored)
      BY DEF FreshInv, OwnersAgree
    <3>. QED
      BY <1>0, <1>2, <3>1, <3>2, OwnedStays DEF Owned
  <2>2. ASSUME NEW d \in Slots, Offered(calls'[d])
        PROVE  \A s \in sessions' : s.token = calls'[d].token => s.user = calls'[d].user
    <3>1. CASE d = c
      <4>1. x.token = issued + 1 /\ x.user = calls[c].user /\ calls'[d] = x
        BY <1>3, <1>4, <2>2, <3>1 DEF Moves
      <4>2. \A s \in sessions : s.token \in 1 .. issued
        BY <1>0 DEF PageInv, IInv, ServerTypeOK
      <4>. QED
        BY <1>0, <4>1, <4>2, ServerStores
    <3>2. CASE d # c
      <4>1. calls'[d] = calls[d] /\ Offered(calls[d])
        BY <1>4, <2>2, <3>2
      <4>2. Owned(calls[d]) /\ calls[d].token \in 0 .. issued
        BY <1>0, <4>1 DEF FreshInv, OwnersAgree, PageInv, TokensApart
      <4>. QED
        BY <1>0, <4>1, <4>2, OwnedStays
    <3>. QED
      BY <3>1, <3>2
  <2>. QED
    BY <2>1, <2>2 DEF OwnersAgree, Owned
<1>6. MineIsMade'
  <2>1. made' \in {made, made + 1}
    BY <1>0, ServerStores
  <2>2. 1 .. made \subseteq 1 .. made'
    BY <1>0, <2>1
  <2>3. ASSUME NEW d \in Slots, Saved(calls'[d])
        PROVE  calls'[d].trip \in 1 .. made'
    BY <1>3, <1>4, <2>2, <2>3 DEF FreshInv, MineIsMade, Moves
  <2>4. ASSUME NEW d \in Slots, Bore(calls'[d])
        PROVE  calls'[d].token # 0
    <3>1. Fitting(d, calls'[d])
      BY <1>1 DEF PageInv
    <3>2. CASE d = c
      BY <1>3, <1>4, <2>4, <3>1, <3>2 DEF Moves, Bore, Fitting
    <3>3. CASE d # c
      BY <1>4, <2>4, <3>3 DEF FreshInv, MineIsMade
    <3>. QED
      BY <3>2, <3>3
  <2>. QED
    BY <1>2, <2>2, <2>3, <2>4 DEF FreshInv, MineIsMade
<1>7. ListSlot \in Slots
  BY AccountAssumption
<1>8. ListIsHeard'
  <2>1. c = ListSlot => calls[c].kind = "list" \/ x = Free
    BY <1>3 DEF Moves
  <2>2. calls[c].kind = "list" => calls[c] # Free
    BY DEF Free
  <2>. QED
    BY <1>3, <1>4, <1>7, <2>1, <2>2 DEF FreshInv, ListIsHeard, Moves
<1>9. Listing' => Listing
  <2>1. Free.heard = FALSE
    BY DEF Free
  <2>. QED
    BY <1>3, <1>4, <1>7, <2>1 DEF Listing, Moves
<1>10. Kept' \subseteq Kept
  BY KeptShrinks
<1>11. ListReads'
  <2>1. SUFFICES ASSUME Listing', ~lagging, mine # {}
                 PROVE  Reads(calls[ListSlot])'
    BY <1>2 DEF ListReads
  <2>2. Reads(calls[ListSlot])
    BY <1>9, <2>1 DEF FreshInv, ListReads
  <2>3. CASE c # ListSlot
    BY <1>2, <1>4, <1>7, <1>10, <2>2, <2>3 DEF Reads
  <2>4. CASE c = ListSlot
    <3>1. calls'[ListSlot] = x /\ x # Free
      BY <1>4, <1>7, <2>1, <2>4 DEF Listing, Free
    <3>2. x.token = session.token
      BY <1>3, <2>2, <2>4, <3>1 DEF Moves, Reads
    <3>3. x.step = "passed" => x.user = session.user
      <4>1. Owned(session)
        BY DEF FreshInv, OwnersAgree
      <4>. QED
        BY <1>3, <2>4, <3>1, <3>2, <4>1, UserOfOwner DEF Moves
    <3>4. x.step = "answered" /\ x.reply = "ok" => Kept' \subseteq x.seen
      BY <1>3, <1>10, <2>2, <2>4, <3>1 DEF Moves, Reads, Kept
    <3>. QED
      BY <1>2, <3>1, <3>2, <3>3, <3>4 DEF Reads
  <2>. QED
    BY <2>3, <2>4
<1>12. ListShows'
  <2>1. Listing => Listing'
    BY <1>3, <1>4, <1>7 DEF Listing, Moves
  <2>2. Underway => Underway'
    BY <1>2, <2>1 DEF Underway
  <2>. QED
    BY <1>2, <1>10, <2>2 DEF FreshInv, ListShows
<1>. QED
  BY <1>1, <1>5, <1>6, <1>8, <1>11, <1>12 DEF FreshInv

-----------------------------------------------------------------------------
(* The steps of the page.                                                  *)

LEMMA TameOwners ==
  ASSUME FreshInv, AllTame, UNCHANGED <<store, history>>
  PROVE  /\ \A d \in Slots : Saved(calls'[d]) => calls'[d].trip \in 1 .. made'
         /\ \A d \in Slots : Bore(calls'[d]) => calls'[d].token # 0
         /\ \A d \in Slots : Offered(calls'[d]) =>
               \A s \in sessions' : s.token = calls'[d].token => s.user = calls'[d].user
<1>1. sessions' = sessions /\ made' = made /\ PageInv
  BY DEF store, FreshInv
<1>2. \A d \in Slots : Saved(calls'[d]) => Saved(calls[d]) /\ calls'[d].trip = calls[d].trip
  BY <1>1, TameCalls DEF Saved
<1>3. \A d \in Slots : Offered(calls'[d]) =>
         Offered(calls[d]) /\ calls'[d].token = calls[d].token /\ calls'[d].user = calls[d].user
  BY <1>1, TameCalls DEF Offered
<1>4. \A d \in Slots : Bore(calls'[d]) => Bore(calls[d]) /\ calls'[d].token = calls[d].token
  BY <1>1, TameCalls DEF Bore
<1>. QED
  BY <1>1, <1>2, <1>3, <1>4 DEF FreshInv, OwnersAgree, MineIsMade, Owned

\* With no trip of the page there is nothing to show.
LEMMA FreshEmpty ==
  ASSUME FreshInv, PageInv', AllTame, UNCHANGED <<store, history>>, mine' = {},
         calls'[ListSlot] \in {calls[ListSlot], Free},
         session' \in {session, stored, NoSession} \/ Owned(session'),
         stored' \in {session', stored, NoSession}
  PROVE  FreshInv'
<1>1. sessions' = sessions
  BY DEF store
<1>2. Owned(NoSession)
  <2>1. \A s \in sessions : s.token # 0
    BY AccountAssumption DEF FreshInv, PageInv, IInv, ServerTypeOK
  <2>. QED
    BY <2>1 DEF Owned, NoSession
<1>3. Owned(session') /\ Owned(stored')
  BY <1>2 DEF FreshInv, OwnersAgree
<1>4. Owned(session)' /\ Owned(stored)'
  BY <1>1, <1>3 DEF Owned
<1>5. OwnersAgree' /\ MineIsMade'
  BY <1>4, TameOwners DEF OwnersAgree, MineIsMade, Owned
<1>6. ListIsHeard'
  BY DEF FreshInv, ListIsHeard
<1>7. ListReads' /\ ListShows'
  BY DEF ListReads, ListShows, Kept
<1>. QED
  BY <1>5, <1>6, <1>7 DEF FreshInv

\* A list asked for with the session of the moment reads what is there.
LEMMA FreshStays ==
  ASSUME FreshInv, PageInv', AllTame, UNCHANGED <<store, history, session, stored, mine>>,
         \/ calls'[ListSlot] = calls[ListSlot] /\ (lagging' \/ ~lagging)
         \/ calls'[ListSlot] = Free
         \/ /\ calls'[ListSlot].step = "arrived" /\ calls'[ListSlot].heard
            /\ calls'[ListSlot].token = session.token,
         ListShows'
  PROVE  FreshInv'
<1>1. /\ UNCHANGED <<sessions, made, trips, restored, session, stored, mine>>
      /\ Kept' = Kept
  BY DEF store, history, Kept
<1>2. OwnersAgree' /\ MineIsMade'
  BY <1>1, TameOwners DEF FreshInv, OwnersAgree, MineIsMade, Owned
<1>3. ListIsHeard' /\ ListReads'
  <2>1. CASE calls'[ListSlot] = calls[ListSlot] /\ (lagging' \/ ~lagging)
    BY <1>1, <2>1 DEF FreshInv, ListIsHeard, ListReads, Reads, Listing
  <2>2. CASE calls'[ListSlot] = Free
    BY <2>2 DEF ListIsHeard, ListReads, Listing, Free
  <2>3. CASE /\ calls'[ListSlot].step = "arrived" /\ calls'[ListSlot].heard
             /\ calls'[ListSlot].token = session.token
    BY <1>1, <2>3 DEF ListIsHeard, ListReads, Reads
  <2>. QED
    BY <2>1, <2>2, <2>3
<1>. QED
  BY <1>2, <1>3 DEF FreshInv

\* A request takes another slot than the list's.
LEMMA OtherSlot ==
  ASSUME PageInv, NEW c \in Slots, c # ListSlot, NEW x, calls' = [calls EXCEPT ![c] = x]
  PROVE  calls'[ListSlot] = calls[ListSlot]
BY AccountAssumption DEF PageInv, IInv, ServerTypeOK

LEMMA NotTheList ==
  ASSUME PageInv, NEW c \in Slots, calls[c].kind # "list", calls[c].step # "free"
  PROVE  c # ListSlot
BY DEF PageInv, Fitting, Free

LEMMA FreshSubmitted ==
  ASSUME FreshInv, NEW c \in Slots, NEW user \in People, NEW kind \in {"register", "login"},
         Submit(c, kind, user)
  PROVE  FreshInv'
<1>1. /\ c \in FreeSlots /\ calls' = [calls EXCEPT ![c] = Request(kind, 0, user, 0, TRUE)]
      /\ UNCHANGED <<store, history, session, stored, open, list, wants, paused, mine, lagging>>
  BY DEF Submit, pageVars, account, network
<1>2. PICK x : x = Request(kind, 0, user, 0, TRUE)
  OBVIOUS
<1>3. PageInv /\ PageInv' /\ AllTame /\ calls'[ListSlot] = calls[ListSlot]
  BY <1>1, <1>2, Submitted, FreeSlotsAre, RequestIsTame, OtherSlot DEF FreshInv, Bearing
<1>4. ListShows'
  BY <1>1, <1>3 DEF FreshInv, ListShows, Underway, Listing, Kept, store, history
<1>. QED
  BY <1>1, <1>3, <1>4, FreshStays

LEMMA FreshSigned ==
  ASSUME FreshInv, NEW c \in Slots, SignedIn(c)
  PROVE  FreshInv'
<1>1. /\ calls[c].step = "answered" /\ calls[c].kind \in {"register", "login"}
      /\ Hang(c) /\ UNCHANGED <<store, history, open, online, paused, loggedOut, lagging>>
  BY DEF SignedIn, At, network
<1>2. /\ PageInv /\ PageInv' /\ AllTame /\ c # ListSlot /\ calls'[ListSlot] = calls[ListSlot]
  BY <1>1, Signed, HangIsTame, NotTheList, OtherSlot DEF FreshInv, Hang
<1>3. CASE calls[c].reply = "ok"
  <2>1. PICK new : new = [token |-> calls[c].token, user |-> calls[c].user]
    OBVIOUS
  <2>2. mine' = {} /\ session' = new /\ stored' \in {session', stored, NoSession}
    BY <1>3, <2>1 DEF SignedIn, Write
  <2>3. Owned(new)
    BY <1>1, <1>3, <2>1 DEF FreshInv, OwnersAgree, Offered, Owned
  <2>. QED
    BY <1>1, <1>2, <2>2, <2>3, FreshEmpty
<1>4. CASE calls[c].reply # "ok"
  <2>1. UNCHANGED <<session, stored, list, wants, mine>>
    BY <1>4 DEF SignedIn
  <2>2. ListShows'
    BY <1>1, <1>2, <2>1 DEF FreshInv, ListShows, Underway, Listing, Kept, store, history
  <2>. QED
    BY <1>1, <1>2, <2>1, <2>2, FreshStays
<1>. QED
  BY <1>3, <1>4

LEMMA FreshLoggedOut ==
  ASSUME FreshInv, Logout \/ DropDead
  PROVE  FreshInv'
<1>1. /\ UNCHANGED <<store, history>> /\ mine' = {} /\ session' = NoSession /\ stored' = NoSession
  BY DEF Logout, DropDead, Write, serverVars
<1>2. PageInv /\ PageInv'
  BY LoggedOut, Dropped DEF FreshInv
<1>3. AllTame /\ calls'[ListSlot] \in {calls[ListSlot], Free}
  <2>1. CASE UNCHANGED calls
    BY <1>2, <2>1, NothingIsTame
  <2>2. CASE ~UNCHANGED calls
    <3>1. session.token \in Tokens /\ session.token # 0
      BY <1>2, <2>2, SessionToken DEF Logout, DropDead, serverVars
    <3>2. PICK c \in FreeSlots :
               calls' = [calls EXCEPT ![c] = Request("logout", session.token, Nobody, 0, FALSE)]
      BY <2>2 DEF Logout, DropDead, serverVars
    <3>3. PICK x : x = Request("logout", session.token, Nobody, 0, FALSE)
      OBVIOUS
    <3>. QED
      BY <1>2, <3>1, <3>2, <3>3, FreeSlotsAre, RequestIsTame, OtherSlot DEF Bearing
  <2>. QED
    BY <2>1, <2>2
<1>. QED
  BY <1>1, <1>2, <1>3, FreshEmpty

LEMMA FreshReloaded ==
  ASSUME FreshInv, Reload
  PROVE  FreshInv'
<1>1. /\ UNCHANGED <<store, history>> /\ mine' = {} /\ session' = stored /\ stored' = stored
  BY DEF Reload
<1>2. PageInv' /\ AllTame
  BY Reloaded DEF FreshInv, Reload, AllTame, Tame
<1>3. calls'[ListSlot] = Free
  BY AccountAssumption DEF Reload
<1>. QED
  BY <1>1, <1>2, <1>3, FreshEmpty

LEMMA FreshDialog ==
  ASSUME FreshInv, OpenDialog \/ CloseDialog \/ Forget \/ Network
  PROVE  FreshInv'
<1>1. PageInv' /\ AllTame
  BY DialogMoved, NothingIsTame DEF FreshInv, OpenDialog, CloseDialog, Forget, Network, serverVars
<1>2. UNCHANGED <<store, history, calls, session, stored, mine, lagging>>
  BY DEF OpenDialog, CloseDialog, Forget, Network, serverVars, account
<1>3. \/ session = NoSession \/ ~open' \/ wants'
      \/ UNCHANGED <<open, list, paused>> /\ ~wants
  BY DEF OpenDialog, CloseDialog, Forget, Network, Settled, account
<1>4. ListShows'
  BY <1>2, <1>3 DEF FreshInv, ListShows, Underway, Listing, Kept, store, history
<1>. QED
  BY <1>1, <1>2, <1>4, FreshStays

\* A list asked for is under way, with the session of the moment if it is sent.
LEMMA FreshAsked ==
  ASSUME FreshInv, PageInv', UNCHANGED <<store, history, session, stored, mine>>,
         session # NoSession, NEW try \in {"first", "again"}, Ask(try)
  PROVE  FreshInv'
<1>1. PageInv /\ AllTame /\ ListSlot \in Slots /\ calls \in [Slots -> Call]
  BY AskIsTame, AccountAssumption DEF FreshInv, PageInv, IInv, ServerTypeOK
<1>2. \/ calls'[ListSlot] = Free /\ paused' # "no"
      \/ /\ calls'[ListSlot].step = "arrived" /\ calls'[ListSlot].heard
         /\ calls'[ListSlot].token = session.token
  BY <1>1 DEF Ask, Hang, Request, Free
<1>3. ListShows'
  BY <1>2 DEF ListShows, Underway, Listing
<1>. QED
  BY <1>1, <1>2, <1>3, FreshStays

LEMMA FreshFetched ==
  ASSUME FreshInv, Fetch \/ Resume
  PROVE  FreshInv'
<1>1. /\ UNCHANGED <<store, history, session, stored, open, mine>>
      /\ PageInv /\ PageInv'
  BY Fetched, Resumed DEF Fetch, Resume, account, FreshInv
<1>2. CASE session # NoSession /\ \E try \in {"first", "again"} : Ask(try)
  BY <1>1, <1>2, FreshAsked
<1>3. CASE Underway /\ UNCHANGED <<calls, list, paused, lagging>>
  <2>1. ListShows'
    BY <1>3 DEF ListShows, Underway, Listing
  <2>. QED
    BY <1>1, <1>3, <2>1, NothingIsTame, FreshStays
<1>4. CASE session = NoSession /\ UNCHANGED <<calls, lagging>>
  <2>1. ListShows'
    BY <1>1, <1>4 DEF ListShows
  <2>. QED
    BY <1>1, <1>4, <2>1, NothingIsTame, FreshStays
<1>5. paused \in {"no", "first", "again"}
  BY <1>1 DEF PageInv, PageTypes
<1>. QED
  BY <1>2, <1>3, <1>4, <1>5 DEF Fetch, Resume

\* The list that comes in has what the page saved, or the page has nothing.
LEMMA FreshListed ==
  ASSUME FreshInv, NEW c \in Slots, Listed(c)
  PROVE  FreshInv'
<1>1. /\ calls[c].step = "answered" /\ calls[c].kind = "list" /\ Hang(c)
      /\ UNCHANGED <<store, history, session, stored, open, wants, mine, lagging>>
  BY DEF Listed, At, account
<1>2. /\ PageInv /\ PageInv' /\ AllTame /\ c = ListSlot /\ calls[c] # Free
      /\ calls \in [Slots -> Call]
  BY <1>1, ListTaken, HangIsTame DEF FreshInv, PageInv, Fitting, IInv, ServerTypeOK
<1>3. calls'[ListSlot] = Free
  BY <1>1, <1>2 DEF Hang
<1>4. CASE calls[c].reply # "ok"
  <2>1. list'.error = "dead"
    BY <1>2, <1>4, ListType DEF Listed, Lists
  <2>2. ListShows'
    BY <2>1 DEF ListShows
  <2>. QED
    BY <1>1, <1>2, <1>3, <2>2, FreshStays
<1>5. CASE calls[c].reply = "ok"
  <2>1. list'.trips = calls[c].seen
    BY <1>5 DEF Listed
  <2>2. Listing
    BY <1>2 DEF FreshInv, ListIsHeard, Listing
  <2>3. ~lagging => Kept \subseteq calls[c].seen
    BY <1>1, <1>2, <1>5, <2>2 DEF FreshInv, ListReads, Reads, Kept
  <2>4. ListShows'
    BY <1>1, <2>1, <2>3 DEF ListShows, Kept, store, history
  <2>. QED
    BY <1>1, <1>2, <1>3, <2>4, FreshStays
<1>. QED
  BY <1>4, <1>5

LEMMA FreshTripSent ==
  ASSUME FreshInv, NEW c \in Slots, Save(c) \/ \E trip \in TripIds : Remove(c, trip)
  PROVE  FreshInv'
<1>1. /\ session # NoSession /\ c \in FreeSlots
      /\ UNCHANGED <<store, history, session, stored, open, list, wants, paused, mine, lagging>>
  BY DEF Save, Remove, pageVars, account, network
<1>2. PICK kind \in {"save", "remove"}, trip \in TripIds \cup {0} :
          calls' = [calls EXCEPT ![c] = Request(kind, session.token, Nobody, trip, TRUE)]
  BY DEF Save, Remove
<1>3. PICK x : x = Request(kind, session.token, Nobody, trip, TRUE)
  OBVIOUS
<1>4. PageInv /\ PageInv'
  BY TripSent DEF FreshInv
<1>5. AllTame /\ calls'[ListSlot] = calls[ListSlot]
  BY <1>1, <1>2, <1>3, <1>4, SessionToken, FreeSlotsAre, RequestIsTame, OtherSlot DEF Bearing
<1>6. ListShows'
  BY <1>1, <1>5 DEF FreshInv, ListShows, Underway, Listing, Kept, store, history
<1>. QED
  BY <1>1, <1>4, <1>5, <1>6, FreshStays

\* A change that is confirmed: a dialog on screen asks anew, and a list that
\* is left to come in lags.
LEMMA FreshChanged ==
  ASSUME FreshInv, NEW c \in Slots, Changed(c)
  PROVE  FreshInv'
<1>1. /\ calls[c].step = "answered" /\ calls[c].kind \in {"save", "remove"}
      /\ UNCHANGED <<store, history, session, stored, open, list>>
  BY DEF Changed, At, account
<1>2. /\ PageInv /\ PageInv' /\ c # ListSlot /\ calls[c] \in Call /\ calls \in [Slots -> Call]
      /\ ListSlot \in Slots
  BY <1>1, ChangeTaken, NotTheList, AccountAssumption DEF FreshInv, PageInv, IInv, ServerTypeOK
<1>3. CASE calls[c].reply # "ok"
  <2>1. Hang(c) /\ UNCHANGED <<wants, paused, lagging, mine>>
    BY <1>3 DEF Changed
  <2>2. AllTame /\ calls'[ListSlot] = calls[ListSlot]
    BY <1>2, <2>1, HangIsTame, OtherSlot DEF Hang
  <2>3. ListShows'
    BY <1>1, <2>1, <2>2 DEF FreshInv, ListShows, Underway, Listing, Kept, store, history
  <2>. QED
    BY <1>1, <1>2, <2>1, <2>2, <2>3, FreshStays
<1>4. CASE calls[c].reply = "ok"
  <2>1. /\ wants' = (session # NoSession /\ open)
        /\ calls'[ListSlot] = IF wants' /\ list.known THEN Free ELSE calls[ListSlot]
        /\ calls'[c] = Free
        /\ lagging' = (lagging \/ (Listing /\ ~(open /\ list.known)))
    BY <1>2, <1>4 DEF Changed, Invalidate
  <2>2. AllTame
    BY <1>2, <1>4 DEF Changed, Invalidate, AllTame, Tame
  <2>3. mine' \subseteq 1 .. made /\ (session = NoSession => mine' = {})
    <3>1. calls[c].token # 0
      BY <1>1 DEF FreshInv, MineIsMade, Bore, Bearing
    <3>2. session = NoSession => mine' = mine
      BY <1>4, <3>1 DEF Changed, NoSession
    <3>3. calls[c].kind = "save" => calls[c].trip \in 1 .. made
      BY <1>1, <1>4 DEF FreshInv, MineIsMade, Saved
    <3>4. mine \subseteq 1 .. made /\ (session = NoSession => mine = {})
      BY DEF FreshInv, MineIsMade
    <3>. QED
      BY <1>1, <1>4, <3>2, <3>3, <3>4 DEF Changed
  <2>4. OwnersAgree' /\ MineIsMade'
    BY <1>1, <2>2, <2>3, TameOwners DEF FreshInv, OwnersAgree, MineIsMade, Owned, store
  <2>5. ListIsHeard'
    BY <2>1 DEF FreshInv, ListIsHeard
  <2>6. ListShows'
    BY <1>1, <2>1 DEF ListShows
  <2>7. ListReads'
    <3>1. CASE session # NoSession /\ open /\ list.known
      <4>1. calls'[ListSlot] = Free /\ ~Free.heard
        BY <2>1, <3>1 DEF Free
      <4>. QED
        BY <4>1 DEF ListReads, Listing
    <3>2. CASE session # NoSession /\ ~(open /\ list.known)
      BY <2>1, <3>2 DEF ListReads, Listing
    <3>3. CASE session = NoSession
      BY <2>3, <3>3 DEF ListReads
    <3>. QED
      BY <3>1, <3>2, <3>3
  <2>. QED
    BY <1>2, <2>4, <2>5, <2>6, <2>7 DEF FreshInv
<1>. QED
  BY <1>3, <1>4

LEMMA FreshFailed ==
  ASSUME FreshInv, NEW c \in Slots, Fail(c)
  PROVE  FreshInv'
<1>1. /\ UNCHANGED <<store, history, session, stored, open, wants, mine, lagging>>
      /\ calls[c].heard
  BY DEF Fail, account
<1>2. /\ PageInv /\ PageInv' /\ calls[c] \in Call /\ calls \in [Slots -> Call]
      /\ calls[c].kind = "list" <=> c = ListSlot
  <2>1. PageInv /\ PageInv' /\ calls \in [Slots -> Call] /\ Fitting(c, calls[c])
    BY Failed DEF FreshInv, PageInv, IInv, ServerTypeOK
  <2>2. calls[c] # Free
    BY <1>1 DEF Free
  <2>. QED
    BY <2>1, <2>2 DEF Fitting
<1>3. CASE c # ListSlot
  <2>1. /\ Hang(c) \/ calls' = [calls EXCEPT ![c].heard = FALSE]
        /\ UNCHANGED <<list, paused>>
    BY <1>2, <1>3 DEF Fail
  <2>2. AllTame /\ calls'[ListSlot] = calls[ListSlot]
    BY <1>2, <1>3, <2>1, HangIsTame, OtherSlot DEF Hang, AllTame, Tame
  <2>3. ListShows'
    BY <1>1, <2>1, <2>2 DEF FreshInv, ListShows, Underway, Listing, Kept, store, history
  <2>. QED
    BY <1>1, <1>2, <2>2, <2>3, FreshStays
<1>4. CASE c = ListSlot /\ Again(c)
  BY <1>1, <1>2, <1>4, FreshAsked DEF Fail, Again
<1>5. CASE c = ListSlot /\ ~Again(c)
  <2>1. Hang(c) /\ list' = [list EXCEPT !.error = "other"]
    BY <1>2, <1>5 DEF Fail
  <2>2. list'.error = "other"
    BY <1>2, <2>1, ListType DEF Lists
  <2>3. AllTame /\ calls'[ListSlot] = Free
    BY <1>2, <1>5, <2>1, HangIsTame DEF Hang
  <2>4. ListShows'
    BY <2>2 DEF ListShows
  <2>. QED
    BY <1>1, <1>2, <2>3, <2>4, FreshStays
<1>. QED
  BY <1>3, <1>4, <1>5

LEMMA FreshElsewhere ==
  ASSUME FreshInv, UNCHANGED <<calls, pageVars, trips, made, history>>, PageInv',
         sessions' \subseteq sessions
  PROVE  FreshInv'
<1>1. UNCHANGED <<session, stored, open, list, wants, paused, mine, lagging, restored>>
  BY DEF pageVars, account, network, history
<1>2. OwnersAgree'
  BY <1>1 DEF FreshInv, OwnersAgree, Owned
<1>3. MineIsMade' /\ ListIsHeard' /\ ListReads' /\ ListShows'
  BY <1>1 DEF FreshInv, MineIsMade, ListIsHeard, ListReads, ListShows, Underway, Listing, Reads, Kept
<1>. QED
  BY <1>2, <1>3 DEF FreshInv

LEMMA FreshInit == Init => FreshInv
<1>. SUFFICES ASSUME Init PROVE FreshInv
  OBVIOUS
<1>1. /\ PageInv /\ sessions = {} /\ mine = {} /\ session = NoSession
      /\ \A c \in Slots : calls[c] = Free
  BY PageInit DEF Init, ServerInit
<1>2. ListSlot \in Slots
  BY AccountAssumption
<1>3. ~Saved(Free) /\ ~Bore(Free)
  BY DEF Saved, Bore, Free
<1>4. OwnersAgree
  BY <1>1 DEF OwnersAgree, Owned
<1>5. MineIsMade
  BY <1>1, <1>3 DEF MineIsMade
<1>6. ListIsHeard /\ ListReads /\ ListShows
  BY <1>1, <1>2 DEF ListIsHeard, ListReads, ListShows
<1>. QED
  BY <1>1, <1>4, <1>5, <1>6 DEF FreshInv

LEMMA FreshNext == FreshInv /\ [Next]_vars => FreshInv'
<1>. SUFFICES ASSUME FreshInv, [Next]_vars PROVE FreshInv'
  OBVIOUS
<1>1. CASE Person
  BY <1>1, FreshSubmitted, FreshLoggedOut, FreshReloaded, FreshDialog, FreshTripSent DEF Person
<1>2. CASE World
  <2>1. CASE \E s \in sessions : Expire(s)
    BY <1>2, <2>1, ExpiryKeeps, FreshElsewhere DEF World, Expire, FreshInv
  <2>2. CASE \E c \in Slots : Abort(c)
    BY <1>2, <2>2, ServerKeepsFresh DEF World
  <2>. QED
    BY <1>2, <2>1, <2>2 DEF World
<1>3. CASE Rendering \/ Forget \/ Network \/ Resume
  BY <1>3, FreshLoggedOut, FreshFetched, FreshDialog DEF Rendering
<1>4. CASE \E c \in Slots : Served(c) \/ Answer(c) \/ Fail(c)
  BY <1>4, ServerKeepsFresh, FreshSigned, FreshListed, FreshChanged, FreshFailed DEF Served, Answer
<1>5. CASE UNCHANGED vars
  <2>1. UNCHANGED <<store, history, calls, pageVars>>
    BY <1>5 DEF vars, serverVars
  <2>2. PageInv'
    BY PageNext DEF FreshInv
  <2>. QED
    BY <2>1, <2>2, FreshElsewhere DEF store
<1>. QED
  BY <1>1, <1>2, <1>3, <1>4, <1>5 DEF Next

(* SaveTripButton.tsx:47: with nothing under way, an open dialog shows     *)
(* every trip that was saved on the page and is still on the account,      *)
(* unless the list that came in had been asked for before the save and     *)
(* was not asked for again; for any number of people, requests, sessions   *)
(* and trips, and whoever signs in and out between.                        *)
THEOREM DialogIsFresh == Spec => []FreshUnlessLagging
<1>1. FreshInv => FreshUnlessLagging
  BY DEF FreshInv, ListShows, Kept, FreshUnlessLagging, Quiet, Settled
<1>. QED
  BY <1>1, FreshInit, FreshNext, PTL DEF Spec
=============================================================================
