----------------------------- MODULE FirstTrip -----------------------------
(***************************************************************************)
(* The one record the first generation of leaderTrip plans from, TripInput,*)
(* and everything its pages do to it: the five steps of the wizard         *)
(* (src/ui/wizard/Wizard.tsx), the buttons of the plan (src/ui/plan), the  *)
(* link and the file that carry it to another device (src/lib/share.ts).   *)
(* Fields that are edited together are one field; of each only the default *)
(* and what differs from it matters. A plan is taken from FirstPlanner as  *)
(* the places it visits and the day it gives them.                         *)
(***************************************************************************)
EXTENDS FirstLedger

CONSTANTS
    Sights,             \* places of the catalogue, numbers no new id reaches
    Fitting,            \* those a plan takes on its own
    People,             \* travellers who can be added to the two of the default
    Undefined           \* the title of a trip nobody named, which JSON leaves out

ASSUME TripAssumption == Fitting \subseteq Sights /\ IsFiniteSet(People)

Travellers == People \cup {"t1", "t2"}
Groups == {g \in Seq(Travellers) : g # <<>> /\ IsInjective(g)}

Length == 2             \* days of the default, and the most there are here

\* defaultInput: starts in a week, and has an id no trip has had.
DefaultInput(id, today) ==
    [id |-> id, start |-> today + 7, days |-> Length, route |-> "near", car |-> "sedan",
     group |-> <<"t1", "t2">>, taste |-> "balanced", prices |-> "book",
     pinned |-> {}, blocked |-> {}, assigned |-> <<>>, stops |-> {}, title |-> Undefined]

--------------------------------------------------------------------------
(* The plan of an input, as far as the pages depend on it.                 *)

HasPlan(i) == i.route # "unknown"            \* getCity throws otherwise
Visited(i) == ((Fitting \ i.blocked) \cup i.pinned) \cup i.stops
DayOf(i, p) == IF p \in DOMAIN i.assigned THEN Lesser(i.assigned[p], i.days) ELSE 1
Others(i) == Sights \ (Visited(i) \cup i.blocked)

--------------------------------------------------------------------------
(* The wizard: what can be changed on each of its steps, 0 to 4.           *)

EditRoute(i)  == {[i EXCEPT !.route = r] : r \in {"near", "far"}}
EditTime(i)   == {[i EXCEPT !.start = @ + 1]} \cup {[i EXCEPT !.days = n] : n \in 1 .. Length}
EditGroup(i)  ==
    {[i EXCEPT !.group = Append(@, t)] : t \in People \ Range(i.group)}
    \cup {[i EXCEPT !.group = RemoveAt(@, k)] : k \in IF Len(i.group) = 1 THEN {} ELSE DOMAIN i.group}
EditCar(i)    == {[i EXCEPT !.car = c] : c \in {"sedan", "jeep"}}
EditTaste(i)  == {[i EXCEPT !.taste = s] : s \in {"budget", "balanced"}}

OnStep(i, step) ==
    CASE step = 0 -> EditRoute(i) [] step = 1 -> EditTime(i) [] step = 2 -> EditGroup(i)
      [] step = 3 -> EditCar(i) [] step = 4 -> EditTaste(i)

--------------------------------------------------------------------------
(* The plan: what its timeline, its bill and its list of places change.    *)

Without(f, S) == [p \in DOMAIN f \ S |-> f[p]]
Assign(f, p, d) == [q \in DOMAIN f \cup {p} |-> IF q = p THEN d ELSE f[q]]

Block(i)  == {[i EXCEPT !.blocked = @ \cup {p}] : p \in Visited(i) \cap Sights}
Move(i)   == UNION {{[i EXCEPT !.assigned = Assign(@, p, d)] :
                         d \in {DayOf(i, p) - 1, DayOf(i, p) + 1} \cap 1 .. i.days} :
                     p \in Visited(i) \cap Sights}
\* The list has only places that are not in the plan: a pin is taken off here
\* only while the plan has no room for it.
Pin(i)    == {[i EXCEPT !.pinned = IF p \in @ THEN @ \ {p} ELSE @ \cup {p},
                        !.blocked = @ \ {p}] : p \in Others(i)}
Unblock(i) == {[i EXCEPT !.blocked = @ \ {p}] : p \in i.blocked \cap Sights}
AddStop(i, id) == [i EXCEPT !.stops = @ \cup {id}]
RemoveStop(i) == {[i EXCEPT !.stops = @ \ {s}, !.assigned = Without(@, {s})] : s \in i.stops}
Reprice(i) == {[i EXCEPT !.prices = "own"]}
Dropped(i) == {D \in SUBSET Visited(i) : Cardinality(D) = 2 /\ Cardinality(Visited(i)) >= 3}
\* The levers of the optimizer: a day less, a cheaper style, two of the places.
Lever(i)  == {[i EXCEPT !.days = n] : n \in {i.days - 1} \ {0}}
             \cup {[i EXCEPT !.taste = "budget"]}
             \cup {[i EXCEPT !.blocked = @ \cup D] : D \in Dropped(i)}

OnPlan(i) == Block(i) \cup Move(i) \cup Pin(i) \cup Unblock(i) \cup RemoveStop(i)
             \cup Reprice(i) \cup Lever(i)

--------------------------------------------------------------------------
(* The link has what differs from the default of the day it is made on,    *)
(* the file has everything; both are read over the default of another day. *)

\* JSON has no field without a value; of those here only the title may have none.
Written(i) == IF i.title = Undefined THEN DOMAIN i \ {"title"} ELSE DOMAIN i

\* Mutant: the start of the trip is left out like any other default.
EncodeBare(i, today) ==
    LET base == DefaultInput(0, today)
    IN  [f \in {g \in Written(i) : i[g] # base[g]} |-> i[f]]

EncodeTrip(i, today) ==
    LET base == DefaultInput(0, today)
    IN  [f \in {g \in Written(i) : g # "start" => i[g] # base[g]} |-> i[f]]

OverDefault(part, id, today) ==
    LET base == DefaultInput(id, today)
    IN  [f \in DOMAIN base |-> IF f \in DOMAIN part THEN part[f] ELSE base[f]]

DecodeTrip(link, today) == OverDefault(link, 0, today)
FileOf(i) == [f \in Written(i) |-> i[f]]
ReadJsonFile(file, today) == OverDefault(file, 0, today)
=============================================================================
