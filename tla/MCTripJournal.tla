--------------------------- MODULE MCTripJournal ---------------------------
(* TripJournal on two trips whose stops are of one category; the trips and *)
(* the stops are interchangeable.                                          *)
EXTENDS TripJournal, TLC

CONSTANTS t1, t2, s1, s2, nature

MCCategoryOf == [s \in {s1, s2} |-> nature]

Interchangeable == Permutations({t1, t2}) \cup Permutations({s1, s2})
=============================================================================
