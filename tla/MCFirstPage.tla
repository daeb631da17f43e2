---------------------------- MODULE MCFirstPage ----------------------------
(* FirstPage on a place a plan takes and one it does not, a third traveller*)
(* who may come along, and a link and a file of the trip of somebody else, *)
(* once to a city that this version does not know.                         *)
EXTENDS FirstPage

ForeignTrips == {[DefaultInput(100, 0) EXCEPT !.route = r, !.title = "theirs"] : r \in {"far", "unknown"}}
Bill == [c \in {"meals", "wear"} |-> 4]
=============================================================================
