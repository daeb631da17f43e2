-------------------------- MODULE MCAccountServer --------------------------
(* AccountServer on two requests at once of two people, who are            *)
(* interchangeable, as are the requests; the slot of the list stays free.  *)
EXTENDS AccountServer, TLC

CONSTANTS ann, bob, c1, c2, c3

Interchangeable == Permutations({ann, bob}) \cup Permutations({c1, c2})
=============================================================================
