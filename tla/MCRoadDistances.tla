-------------------------- MODULE MCRoadDistances --------------------------
(* Two requests at once over three points; all of one kind are             *)
(* interchangeable.                                                        *)
EXTENDS RoadDistances, TLC

CONSTANTS r1, r2, i1, i2, i3, i4, home, museum, bazaar

Interchangeable ==
    Permutations(Requests) \cup Permutations(Points) \cup Permutations(Instances)
=============================================================================
