------------------------------ MODULE MCFields ------------------------------
(* Instances of Fields for TLC: one column and the genre list, the provider *)
(* and each user with values of their own that share one genre.            *)
EXTENDS Fields, TLC

CONSTANTS overview, genres, u1, u2, refresh, drama, crime, epic

MCVisit ==
  [F \in SUBSET {overview, genres} |-> SelectSeq(<<overview, genres>>, LAMBDA f : f \in F)]
MCEntries == {"provider text", "hand text", drama, crime, epic}
MCValue ==
  [a \in Actors |->
    (overview :> {IF a = Refresh THEN "provider text" ELSE "hand text"}) @@
    (genres :> IF a = Refresh THEN {drama, crime} ELSE {crime, epic})]

Symmetry == Permutations(Users)
=============================================================================
