-------------------------- MODULE MCFirstServices --------------------------
(* FirstServices on a night in each of two towns. A plan of the first wish *)
(* leaves a town once its weather is known, as long as that of the other is*)
(* not; one of the second sleeps in one town less when it has measured     *)
(* roads.                                                                  *)
EXTENDS FirstServices

Yazd  == <<"yazd", 1>>
Rasht == <<"rasht", 3>>
TwoTowns == {Yazd, Rasht}

Flee(known, measured) == IF Yazd \in known /\ Rasht \notin known THEN {Rasht} ELSE {Yazd}
Drive(known, measured) == IF measured THEN {Yazd} ELSE {Yazd, Rasht}

As(P(_, _)) == [s \in (SUBSET Nights) \X BOOLEAN |-> P(s[1], s[2])]
ThePlanners == {[w \in Wishes |-> IF w = 1 THEN As(Flee) ELSE As(Drive)]}
=============================================================================
